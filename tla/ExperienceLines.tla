--------------------------- MODULE ExperienceLines ---------------------------
(***************************************************************************)
(* ResumeParser._build_experience_entries: the two flows that group the    *)
(* lines of the Experience section into entries.  The outer loop collects  *)
(* lines for the newline flow and hands them over whenever a pipe line, or *)
(* the end, is met; the newline flow runs over what was collected.         *)
(*                                                                         *)
(* What the regular expressions recognise is given by sets of lines.  A    *)
(* text is a sequence of parts <<position, part>> of lines.                *)
(***************************************************************************)
EXTENDS ResumeLines, Lists

CONSTANTS
  BulletLines,    \* lines that start with a bullet marker
  PipeLines,      \* lines with a | and a date range in one of the segments
  Segments,       \* pipe line -> how many segments are not the date range
  BareDates,      \* date lines with no other text
  SplitLines      \* lines whose text a separator splits into title and company

VARIABLES
  section,      \* the lines of the section
  i,            \* the cursor of the outer loop
  pending,      \* positions collected for the newline flow
  flow,         \* "route", "newline", "pipe" or "done": the loop being run
  k,            \* the cursor of the newline flow, in pending
  header,       \* its header_lines
  dated,        \* the position of its date line, or None
  description,  \* positions of the bullet lines of the entry being built
  experience    \* entries

experienceVars ==
  <<section, i, pending, flow, k, header, dated, description, experience>>

IsBullet(p) == section[p] \in BulletLines
IsPipe(p) == section[p] \in PipeLines
IsDated(p) == section[p] \in DateLines
Splits(p) == section[p] \in SplitLines

Whole(p) == <<<<p, "whole">>>>
SplitTitleCompany(p) == [company |-> <<<<p, "right">>>>, title |-> <<<<p, "left">>>>]
Unresolved == [company |-> None, title |-> None]

Entry(who, date, bullets) ==
  [company |-> who.company, title |-> who.title, date |-> date, description |-> bullets]

-----------------------------------------------------------------------------
FirstAndRest(p) == [company |-> <<<<p, "first">>>>, title |-> <<<<p, "rest">>>>]

\* Of a single segment that nothing splits, both are made.
PipeCompanyTitle(p) ==
  IF Segments[section[p]] = 0 THEN Unresolved
  ELSE IF Segments[section[p]] > 1 THEN FirstAndRest(p)
  ELSE IF Splits(p) THEN SplitTitleCompany(p)
  ELSE [company |-> Whole(p), title |-> Whole(p)]

Joined(positions) == [j \in DOMAIN positions |-> <<positions[j], "whole">>]

\* _resolve_company_title: the text beside the date, then the header lines.
ResolveCompanyTitle(headers, date) ==
  IF section[date] \notin BareDates
  THEN IF Splits(date) THEN SplitTitleCompany(date)
       ELSE IF headers # <<>> THEN [company |-> Joined(headers), title |-> Whole(date)]
       ELSE Unresolved
  ELSE CASE Len(headers) > 1 -> [company |-> Joined(Front(headers)),
                                 title |-> Whole(Last(headers))]
         [] Len(headers) = 1 /\ Splits(headers[1]) -> SplitTitleCompany(headers[1])
         [] OTHER -> Unresolved

-----------------------------------------------------------------------------
ExperienceInit(lines) ==
  /\ section = lines
  /\ i = 1 /\ k = 1
  /\ pending = <<>>
  /\ flow = "route"
  /\ header = <<>> /\ dated = None
  /\ description = <<>>
  /\ experience = <<>>

RouteLine ==
  /\ flow = "route" /\ i <= Len(section)
  /\ ~IsPipe(i)
  /\ pending' = Append(pending, i)
  /\ i' = i + 1
  /\ UNCHANGED <<section, flow, k, header, dated, description, experience>>

\* Seeded fault: a pipe line does not end the run before it.
MeetPipe_NoFlush ==
  /\ flow = "route" /\ i <= Len(section)
  /\ IsPipe(i)
  /\ flow' = "pipe"
  /\ i' = i + 1
  /\ UNCHANGED <<section, pending, k, header, dated, description, experience>>

\* A pipe line flushes what was collected first.
MeetPipe ==
  /\ flow = "route" /\ i <= Len(section)
  /\ IsPipe(i)
  /\ IF pending = <<>> THEN flow' = "pipe" /\ i' = i + 1
     ELSE flow' = "newline" /\ i' = i
  /\ UNCHANGED <<section, pending, k, header, dated, description, experience>>

PipeBullet ==
  /\ flow = "pipe" /\ i <= Len(section)
  /\ IsBullet(i)
  /\ description' = Append(description, i)
  /\ i' = i + 1
  /\ UNCHANGED <<section, pending, flow, k, header, dated, experience>>

\* The pipe line stands before its bullets.
ClosePipe ==
  /\ flow = "pipe"
  /\ i <= Len(section) => ~IsBullet(i)
  /\ LET p == i - 1 - Len(description)
     IN  experience' = Append(experience, Entry(PipeCompanyTitle(p), p, description))
  /\ description' = <<>>
  /\ flow' = "route"
  /\ UNCHANGED <<section, i, pending, k, header, dated>>

EndOfSection ==
  /\ flow = "route" /\ i > Len(section)
  /\ flow' = IF pending = <<>> THEN "done" ELSE "newline"
  /\ UNCHANGED <<section, i, pending, k, header, dated, description, experience>>

-----------------------------------------------------------------------------
InNewline == flow = "newline" /\ k <= Len(pending)

\* Bullets before a date line belong to no entry.
SkipBullet ==
  /\ InNewline /\ dated = None
  /\ IsBullet(pending[k])
  /\ k' = k + 1
  /\ UNCHANGED <<section, i, pending, flow, header, dated, description, experience>>

TakeHeader ==
  /\ InNewline /\ dated = None
  /\ ~IsBullet(pending[k]) /\ ~IsDated(pending[k])
  /\ header' = Append(header, pending[k])
  /\ k' = k + 1
  /\ UNCHANGED <<section, i, pending, flow, dated, description, experience>>

TakeDate ==
  /\ InNewline /\ dated = None
  /\ ~IsBullet(pending[k]) /\ IsDated(pending[k])
  /\ dated' = pending[k]
  /\ k' = k + 1
  /\ UNCHANGED <<section, i, pending, flow, header, description, experience>>

TakeBullet ==
  /\ InNewline /\ dated # None
  /\ IsBullet(pending[k])
  /\ description' = Append(description, pending[k])
  /\ k' = k + 1
  /\ UNCHANGED <<section, i, pending, flow, header, dated, experience>>

\* An entry whose company and title cannot be told apart is left out.
CloseRun ==
  /\ flow = "newline" /\ dated # None
  /\ k <= Len(pending) => ~IsBullet(pending[k])
  /\ LET who == ResolveCompanyTitle(header, dated)
     IN  experience' = IF who.company = None THEN experience
                       ELSE Append(experience, Entry(who, dated, description))
  /\ header' = <<>> /\ dated' = None /\ description' = <<>>
  /\ UNCHANGED <<section, i, pending, flow, k>>

\* Header lines without a date line are dropped; the pipe line that caused
\* the flush is next.
EndNewline ==
  /\ flow = "newline" /\ dated = None /\ k > Len(pending)
  /\ pending' = <<>> /\ k' = 1 /\ header' = <<>>
  /\ IF i <= Len(section) THEN flow' = "pipe" /\ i' = i + 1 ELSE flow' = "done" /\ i' = i
  /\ UNCHANGED <<section, dated, description, experience>>

ExperienceNext ==
  \/ RouteLine \/ MeetPipe \/ PipeBullet \/ ClosePipe \/ EndOfSection
  \/ SkipBullet \/ TakeHeader \/ TakeDate \/ TakeBullet \/ CloseRun \/ EndNewline

-----------------------------------------------------------------------------
(* The grouping the loops are to compute, told from the positions alone.   *)

\* The positions of a set, in the order of the lines.
Positions(some) == At([q \in DOMAIN section |-> q], some)

\* Bullets right after a pipe line are its description, a bullet that looks
\* like a pipe line included.
AttachedToPipe(p) == \E q \in 1..(p - 1) : IsPipe(q) /\ \A r \in (q + 1)..p : IsBullet(r)
PipeStart(p) == IsPipe(p) /\ ~AttachedToPipe(p)
DateStart(p) == IsDated(p) /\ ~IsPipe(p) /\ ~IsBullet(p)
Starts(p) == PipeStart(p) \/ DateStart(p)

\* The lines since the date or pipe line before that are not bullets.
HeadersOf(p) ==
  Positions({q \in 1..(p - 1) : ~IsBullet(q) /\ \A r \in q..(p - 1) : ~Starts(r)})
\* The unbroken run of bullets after it, up to one that starts an entry.
BulletsOf(p) ==
  Positions({q \in (p + 1)..Len(section) :
               \A r \in (p + 1)..q : IsBullet(r) /\ ~PipeStart(r)})

WhoOf(p) == IF PipeStart(p) THEN PipeCompanyTitle(p) ELSE ResolveCompanyTitle(HeadersOf(p), p)
EntryAt(p) == Entry(WhoOf(p), p, BulletsOf(p))

\* A pipe line makes an entry, a date line only if company and title are known.
Listed(p) == PipeStart(p) \/ (DateStart(p) /\ WhoOf(p).company # None)

EntriesUpTo(p) ==
  At([q \in DOMAIN section |-> EntryAt(q)], {q \in DOMAIN section : q <= p /\ Listed(q)})
Grouping == EntriesUpTo(Len(section))

\* Whatever the order of the lines, the two loops build the entries of the
\* section in their order, each with the header lines since the entry before
\* and the bullets right after it.
EntriesAreGrouped == flow = "done" => experience = Grouping
=============================================================================
