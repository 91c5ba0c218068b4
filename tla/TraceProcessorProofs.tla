------------------------ MODULE TraceProcessorProofs ------------------------
(***************************************************************************)
(* TraceProcessor, for any trace, any number of policies and runs, any     *)
(* limit of the sample and any set of faults.  The invariant says what the *)
(* files are at each step of the constructor, how far an open file is      *)
(* read, and, as long as nothing has failed in this run, what each of its  *)
(* passes has read as a function of the files: these do not change once a  *)
(* pass has ended, so all passes have read the same.                       *)
(***************************************************************************)
EXTENDS TraceProcessor, OrderLemmas

----------------------------------------------------------------------------
(* How far a file is read.                                                 *)

\* The numbers of leading lines of a file of d lines that has no empty one
\* among them.
Unbroken(d) == {m \in 0..d : \A i \in 1..m : KeyOf(Trace[i]) # EmptyText}

Greatest(S) == CHOOSE m \in S : \A l \in S : l <= m

\* Where a pass over a file of d lines ends; s: is it a sample?
Extent(d, s) ==
    IF s /\ SampleLimit < Greatest(Unbroken(d)) THEN SampleLimit
    ELSE Greatest(Unbroken(d))

Keys(n) == [i \in 1..n |-> KeyOf(Trace[i])]

\* The text and the words of a line, and its key.
LEMMA LineType ==
    ASSUME NEW i \in 1..Whole
    PROVE  /\ KeyOf(Trace[i]) \in STRING
           /\ Trace[i].text # EmptyText => KeyOf(Trace[i]) # EmptyText
<1>1. Trace[i] \in [text : STRING, fields : Seq(STRING \ {EmptyText})]
  <2>1. PICK L : L = [text : STRING, fields : Seq(STRING \ {EmptyText})]
    OBVIOUS
  <2>2. Trace \in Seq(L) /\ i \in 1..Len(Trace)
    BY <2>1, TraceAssumption DEF Whole
  <2>3. Trace[i] \in L
    BY <2>2, ElementOfSeq
  <2> QED
    BY <2>1, <2>3
<1>2. PICK l \in [text : STRING, fields : Seq(STRING \ {EmptyText})] : l = Trace[i]
  BY <1>1
<1>3. l.text \in STRING /\ l.fields \in Seq(STRING \ {EmptyText})
  BY <1>2
<1>4. ASSUME Len(l.fields) >= 3
      PROVE  l.fields[2] \in STRING \ {EmptyText}
  <2>1. PICK f \in Seq(STRING \ {EmptyText}) : f = l.fields
    BY <1>3
  <2>2. 2 \in 1..Len(f)
    BY <1>4, <2>1
  <2>3. f[2] \in STRING \ {EmptyText}
    BY <2>2, ElementOfSeq
  <2> QED
    BY <2>1, <2>3
<1> QED
  BY <1>2, <1>3, <1>4 DEF KeyOf

LEMMA WholeType == Whole \in Nat
  BY TraceAssumption DEF Whole

\* The keys of the first n lines are a sequence, and the next line adds its key.
LEMMA KeysExtend ==
    ASSUME NEW n \in Nat, n <= Whole
    PROVE  /\ Keys(n) \in Seq(STRING) /\ Len(Keys(n)) = n
           /\ n < Whole => Append(Keys(n), KeyOf(Trace[n + 1])) = Keys(n + 1)
<1>1. ASSUME NEW i \in 1..Whole
      PROVE  KeyOf(Trace[i]) \in STRING
  BY LineType
<1>2. /\ Keys(n) \in [1..n -> STRING]
  BY <1>1, WholeType DEF Keys
<1>3. Keys(n) \in Seq(STRING) /\ Len(Keys(n)) = n
  BY <1>2
<1>4. ASSUME n < Whole
      PROVE  Append(Keys(n), KeyOf(Trace[n + 1])) = Keys(n + 1)
  <2>1. KeyOf(Trace[n + 1]) \in STRING
    BY <1>1, <1>4, WholeType
  <2>2. PICK k \in STRING : k = KeyOf(Trace[n + 1])
    BY <2>1
  <2>3. PICK t \in Seq(STRING) : t = Keys(n)
    BY <1>3
  <2>4. /\ Append(t, k) \in Seq(STRING) /\ Len(Append(t, k)) = n + 1
        /\ \A i \in 1..n : Append(t, k)[i] = KeyOf(Trace[i])
        /\ Append(t, k)[n + 1] = KeyOf(Trace[n + 1])
    BY <1>3, <2>2, <2>3, AppendProperties DEF Keys
  <2>5. Keys(n + 1) \in Seq(STRING) /\ Len(Keys(n + 1)) = n + 1
    <3>1. Keys(n + 1) \in [1..(n + 1) -> STRING]
      BY <1>1, <1>4, WholeType DEF Keys
    <3> QED
      BY <3>1
  <2>6. \A i \in 1..(n + 1) : Append(t, k)[i] = Keys(n + 1)[i]
    <3>1. \A i \in 1..(n + 1) : i \in 1..n \/ i = n + 1
      OBVIOUS
    <3>2. \A i \in 1..(n + 1) : Keys(n + 1)[i] = KeyOf(Trace[i])
      BY DEF Keys
    <3> QED
      BY <2>4, <3>1, <3>2
  <2>7. Append(t, k) = Keys(n + 1)
    BY <2>4, <2>5, <2>6, SeqEqual
  <2> QED
    BY <2>2, <2>3, <2>7
<1> QED
  BY <1>3, <1>4

\* Greatest is what its name says.
LEMMA GreatestUnbroken ==
    ASSUME NEW d \in Nat
    PROVE  /\ Greatest(Unbroken(d)) \in Unbroken(d)
           /\ \A l \in Unbroken(d) : l <= Greatest(Unbroken(d))
<1>1. Unbroken(d) \in SUBSET (0..d) /\ 0 \in Unbroken(d)
  BY DEF Unbroken
<1>2. \E m \in Unbroken(d) : \A l \in Unbroken(d) : l <= m
  BY <1>1, GreatestElement
<1> QED
  BY <1>2 DEF Greatest

\* A pass that has read p lines, none of them empty, stops exactly where it
\* should: at the limit of the sample, at the end of the file, or at an empty
\* line.
LEMMA StopsAtExtent ==
    ASSUME NEW d \in Nat, NEW p \in 0..d, NEW s \in BOOLEAN,
           \A i \in 1..p : KeyOf(Trace[i]) # EmptyText,
           s => p <= SampleLimit,
           \/ s /\ p = SampleLimit
           \/ p = d
           \/ p < d /\ KeyOf(Trace[p + 1]) = EmptyText
    PROVE  p = Extent(d, s)
<1>1. PICK g : g = Greatest(Unbroken(d))
  OBVIOUS
<1>2. /\ g \in 0..d /\ \A i \in 1..g : KeyOf(Trace[i]) # EmptyText
      /\ \A l \in Unbroken(d) : l <= g
  BY <1>1, GreatestUnbroken DEF Unbroken
<1>3. p <= g
  BY <1>2 DEF Unbroken
<1>4. SampleLimit \in Nat
  BY Constants
<1>5. CASE s /\ p = SampleLimit
  BY <1>1, <1>2, <1>3, <1>4, <1>5 DEF Extent
<1>6. CASE ~ (s /\ p = SampleLimit)
  <2>1. g <= p
    <3>1. CASE p = d
      BY <1>2, <3>1
    <3>2. CASE p < d /\ KeyOf(Trace[p + 1]) = EmptyText
      <4>1. p + 1 \notin 1..g
        BY <1>2, <3>2
      <4> QED
        BY <1>2, <4>1
    <3> QED
      BY <1>6, <3>1, <3>2
  <2>2. p = g
    BY <1>2, <1>3, <2>1
  <2> QED
    BY <1>1, <1>4, <2>2 DEF Extent
<1> QED
  BY <1>5, <1>6

\* Without empty lines it is the end of the file, or the limit of the sample.
LEMMA WholeUnbroken ==
    ASSUME NoEmptyLine
    PROVE  Greatest(Unbroken(Whole)) = Whole
<1>1. \A i \in 1..Whole : KeyOf(Trace[i]) # EmptyText
  BY LineType DEF NoEmptyLine
<1>2. Whole \in Unbroken(Whole) /\ Unbroken(Whole) \subseteq 0..Whole
  BY <1>1, WholeType DEF Unbroken
<1>3. PICK g \in 0..Whole : g = Greatest(Unbroken(Whole)) /\ Whole <= g
  BY <1>2, WholeType, GreatestUnbroken
<1> QED
  BY <1>3, WholeType

----------------------------------------------------------------------------
(* The invariant.                                                          *)

Kinds == {"failed", "garbage", "text"}

Outcomes == [kind : Kinds, keys : Seq(STRING)]

Types ==
    /\ source \in [local : BOOLEAN, compressed : BOOLEAN]
    /\ disk \in [{"download", "extracted"} -> Contents]
    /\ pc \in {"idle", "construct", "wget", "curl", "extract", "gunzip",
               "open", "read"}
    /\ path \in {"download", "extracted"}
    /\ pos \in Nat
    /\ hitch \in {"none", "before", "now"}
    /\ outcomes \in Seq(Outcomes)

\* A tool runs only where its file is missing or broken off.
Files ==
    /\ pc \in {"wget", "curl", "extract", "gunzip"} =>
           ~ source.local /\ path = "download"
    /\ pc = "wget" => disk["download"] = Absent
    /\ pc = "curl" => disk["download"] \notin {Whole, Page}
    /\ pc \in {"extract", "gunzip"} => disk["download"] # Absent
    /\ pc = "gunzip" => source.compressed /\ disk["extracted"] = Absent

\* What this pass has taken are the keys of the lines that it has read.
Cursor ==
    /\ pc # "idle" => pass = Len(outcomes) + 1
    /\ pc \notin {"idle", "read"} => pos = 0 /\ taken = <<>>
    /\ pc = "read" =>
           /\ disk[path] # Absent
           /\ taken = Keys(pos)
           /\ \A i \in 1..pos : KeyOf(Trace[i]) # EmptyText
           /\ IsSample(pass) => pos <= SampleLimit
           /\ IF IsText THEN pos <= disk[path] ELSE pos = 0

\* The file that the passes read when nothing fails, and is it there?
FinalPath == IF ~ source.local /\ source.compressed THEN "extracted" ELSE "download"

Ready == /\ ~ source.local => disk["download"] # Absent
         /\ ~ source.local => disk[FinalPath] # Absent

\* What pass n reads of the files as they are.
Reading(n) ==
    IF disk[FinalPath] = Absent THEN [kind |-> "failed", keys |-> <<>>]
    ELSE IF disk[FinalPath] = Page \/ (FinalPath = "download" /\ source.compressed)
    THEN [kind |-> "garbage", keys |-> <<>>]
    ELSE [kind |-> "text", keys |-> Keys(Extent(disk[FinalPath], IsSample(n)))]

\* While nothing has failed, the first pass leaves the files as all read them.
Settled ==
    hitch # "now" =>
        /\ outcomes # <<>> => Ready
        /\ pc \in {"wget", "curl", "gunzip"} => outcomes = <<>>
        /\ pc \in {"open", "read"} => Ready /\ path = FinalPath
        /\ \A n \in 1..Len(outcomes) : outcomes[n] = Reading(n)

\* In a run without damaged files only wget's failure leaves one, for curl.
Clean ==
    hitch = "none" =>
        /\ disk["extracted"] \in {Absent, Whole}
        /\ pc # "curl" => disk["download"] \in {Absent, Whole}

Inv == Types /\ Files /\ Cursor /\ Settled /\ Clean

----------------------------------------------------------------------------
(* The steps.                                                              *)

\* What is read, of text or not, lies within the trace.
LEMMA TakenType ==
    ASSUME Inv, pc # "idle"
    PROVE  /\ taken \in Seq(STRING) /\ Len(taken) = pos
           /\ pos = 0 => taken = <<>>
           /\ pc = "read" /\ IsText => disk[path] \in Nat /\ disk[path] <= Whole
<1>1. CASE pc # "read"
  <2>1. pos = 0 /\ taken = <<>>
    BY <1>1 DEF Inv, Cursor
  <2> QED
    BY <1>1, <2>1, EmptySeq
<1>2. CASE pc = "read"
  <2>1. IsText => disk[path] \in Nat /\ disk[path] <= Whole
    <3>1. disk[path] \in Contents /\ disk[path] # Absent
      BY <1>2 DEF Inv, Cursor, Types
    <3> QED
      BY <3>1, WholeType DEF IsText, Contents, Parts
  <2>2. pos \in Nat /\ pos <= Whole /\ taken = Keys(pos)
    BY <1>2, <2>1, WholeType DEF Inv, Cursor, Types
  <2>3. taken \in Seq(STRING) /\ Len(taken) = pos
    BY <2>2, KeysExtend
  <2>4. pos = 0 => taken = <<>>
    BY <2>3, EmptySeq
  <2> QED
    BY <2>1, <2>3, <2>4
<1> QED
  BY <1>1, <1>2

\* As long as the files stay, so does what every pass reads of them.
LEMMA SameReading ==
    ASSUME UNCHANGED <<source, disk>>
    PROVE  /\ FinalPath' = FinalPath /\ (Ready' <=> Ready)
           /\ \A n \in Nat : Reading(n)' = Reading(n)
  BY DEF FinalPath, Ready, Reading

\* A pass that has read what it should is one more of the outcomes.
LEMMA EndPassKeeps ==
    ASSUME Inv, pc \in {"open", "read"}, NEW kind \in Kinds, EndPass(kind),
           hitch # "now" => [kind |-> kind, keys |-> taken] = Reading(Len(outcomes) + 1)
    PROVE  Inv'
<1>1. PICK o \in Outcomes : o = [kind |-> kind, keys |-> taken]
  BY TakenType DEF Outcomes
<1>2. /\ outcomes' = Append(outcomes, o) /\ pos' = 0 /\ taken' = <<>>
      /\ (pc' = "construct" /\ pass' = pass + 1) \/ pc' = "idle"
      /\ UNCHANGED <<source, disk, path, hitch>>
  BY <1>1 DEF EndPass
<1>3. outcomes \in Seq(Outcomes) /\ Len(outcomes) \in Nat
  BY DEF Inv, Types
<1>4. /\ outcomes' \in Seq(Outcomes) /\ outcomes' # <<>>
      /\ Len(outcomes') = Len(outcomes) + 1
      /\ \A n \in 1..Len(outcomes) : outcomes'[n] = outcomes[n]
      /\ outcomes'[Len(outcomes) + 1] = o
  BY <1>1, <1>2, <1>3, AppendProperties
<1>5. Types'
  BY <1>2, <1>4 DEF Inv, Types
<1>6. Files' /\ Clean'
  BY <1>2 DEF Inv, Files, Clean
<1>7. Cursor'
  BY <1>2, <1>3, <1>4 DEF Inv, Cursor
<1>8. Settled'
  <2>1. SUFFICES ASSUME hitch # "now"
                 PROVE  /\ Ready'
                        /\ \A n \in 1..Len(outcomes') : outcomes'[n] = Reading(n)'
    BY <1>2, <1>4 DEF Settled
  <2>2. Ready /\ \A n \in 1..Len(outcomes) : outcomes[n] = Reading(n)
    BY <2>1 DEF Inv, Settled
  <2>3. Ready'
    BY <1>2, <2>2, SameReading
  <2>4. ASSUME NEW n \in 1..Len(outcomes')
        PROVE  outcomes'[n] = Reading(n)
    <3>1. n \in 1..Len(outcomes) \/ n = Len(outcomes) + 1
      BY <1>3, <1>4
    <3> QED
      BY <1>1, <1>4, <2>1, <2>2, <3>1
  <2>5. \A n \in 1..Len(outcomes') : n \in Nat
    OBVIOUS
  <2> QED
    BY <1>2, <2>3, <2>4, <2>5, SameReading
<1> QED
  BY <1>5, <1>6, <1>7, <1>8 DEF Inv

LEMMA OpenKeeps ==
    ASSUME Inv, Open
    PROVE  Inv'
<1>1. CASE ~ file_exists(path) /\ EndPass("failed")
  <2>1. taken = <<>>
    BY DEF Open, Inv, Cursor
  <2>2. hitch # "now" => path = FinalPath
    BY DEF Open, Inv, Settled
  <2>3. hitch # "now" =>
            [kind |-> "failed", keys |-> taken] = Reading(Len(outcomes) + 1)
    BY <1>1, <2>1, <2>2 DEF Reading, file_exists
  <2>4. pc \in {"open", "read"} /\ "failed" \in Kinds
    BY DEF Open, Kinds
  <2> QED
    BY <1>1, <2>3, <2>4, EndPassKeeps
<1>2. CASE file_exists(path) /\ Goto("read") /\ UNCHANGED <<path, disk, hitch>>
  <2>1. /\ pc = "open" /\ pc' = "read" /\ disk[path] # Absent
        /\ UNCHANGED <<source, pass, pos, taken, outcomes, path, disk, hitch>>
    BY <1>2 DEF Open, Goto, file_exists
  <2>2. pos = 0 /\ taken = <<>> /\ pass = Len(outcomes) + 1
    BY <2>1 DEF Inv, Cursor
  <2>3. Types' /\ Files' /\ Clean'
    BY <2>1 DEF Inv, Types, Files, Clean
  <2>4. Cursor'
    <3>1. Keys(0) = <<>>
      <4>1. Keys(0) \in Seq(STRING) /\ Len(Keys(0)) = 0
        BY WholeType, KeysExtend
      <4> QED
        BY <4>1, EmptySeq
    <3>2. SampleLimit \in Nat
      BY Constants
    <3>3. IsText => 0 <= disk[path]
      <4>1. disk[path] \in Contents
        BY DEF Inv, Types
      <4> QED
        BY <2>1, <4>1, WholeType DEF IsText, Contents, Parts
    <3>4. IsText' <=> IsText
      BY <2>1 DEF IsText
    <3>5. /\ pc' = "read" /\ pass' = Len(outcomes') + 1
          /\ disk'[path'] # Absent /\ taken' = Keys(0) /\ pos' = 0
      BY <2>1, <2>2, <3>1
    <3>6. /\ \A i \in 1..pos' : KeyOf(Trace[i]) # EmptyText
          /\ IsSample(pass)' => pos' <= SampleLimit
          /\ IF IsText' THEN pos' <= disk'[path'] ELSE pos' = 0
      BY <2>1, <3>2, <3>3, <3>4, <3>5
    <3> QED
      BY <3>5, <3>6 DEF Cursor
  <2>5. Settled'
    <3>1. FinalPath' = FinalPath /\ (Ready' <=> Ready) /\ \A n \in Nat : Reading(n)' = Reading(n)
      BY <2>1, SameReading
    <3>2. \A n \in 1..Len(outcomes) : n \in Nat
      OBVIOUS
    <3> QED
      BY <2>1, <3>1, <3>2 DEF Inv, Settled
  <2> QED
    BY <2>3, <2>4, <2>5 DEF Inv
<1> QED
  BY <1>1, <1>2 DEF Open

LEMMA ReadEntryKeeps ==
    ASSUME Inv, ReadEntry
    PROVE  Inv'
<1>1. /\ pc = "read" /\ IsText /\ ~ AtEnd
      /\ taken' = Append(taken, KeyOf(Trace[pos + 1])) /\ pos' = pos + 1
      /\ UNCHANGED <<source, disk, pc, path, pass, outcomes, hitch>>
  BY DEF ReadEntry
<1>2. /\ pos \in Nat /\ disk[path] \in Nat /\ disk[path] <= Whole /\ pos <= disk[path]
      /\ Len(taken) = pos /\ taken = Keys(pos)
  BY <1>1, TakenType DEF Inv, Types, Cursor
<1>3. pos < disk[path] /\ KeyOf(Trace[pos + 1]) # EmptyText /\ (IsSample(pass) => pos # SampleLimit)
  BY <1>1, <1>2 DEF AtEnd, LimitReached
<1>4. taken' = Keys(pos + 1)
  <2>1. pos <= Whole /\ pos < Whole
    BY <1>2, <1>3, WholeType
  <2> QED
    BY <1>1, <1>2, <2>1, KeysExtend
<1>5. Types' /\ Files' /\ Clean'
  BY <1>1, <1>2 DEF Inv, Types, Files, Clean
<1>6. Cursor'
  <2>1. /\ pass = Len(outcomes) + 1 /\ disk[path] # Absent
        /\ \A i \in 1..pos : KeyOf(Trace[i]) # EmptyText
        /\ IsSample(pass) => pos <= SampleLimit
    BY <1>1 DEF Inv, Cursor
  <2>2. \A i \in 1..(pos + 1) : KeyOf(Trace[i]) # EmptyText
    BY <1>2, <1>3, <2>1
  <2>3. IsSample(pass) => pos + 1 <= SampleLimit
    <3>1. SampleLimit \in Nat
      BY Constants
    <3> QED
      BY <1>2, <1>3, <2>1, <3>1
  <2>4. IsText' /\ (IsSample(pass)' <=> IsSample(pass))
    BY <1>1 DEF IsText, IsSample
  <2>5. /\ pc' = "read" /\ pass' = Len(outcomes') + 1 /\ disk'[path'] # Absent
        /\ taken' = Keys(pos') /\ pos' = pos + 1 /\ pos' <= disk'[path']
    BY <1>1, <1>2, <1>3, <1>4, <2>1
  <2>6. /\ \A i \in 1..pos' : KeyOf(Trace[i]) # EmptyText
        /\ IsSample(pass)' => pos' <= SampleLimit
    BY <2>2, <2>3, <2>4, <2>5
  <2> QED
    BY <2>4, <2>5, <2>6 DEF Cursor
<1>7. Settled'
  <2>1. FinalPath' = FinalPath /\ (Ready' <=> Ready) /\ \A n \in Nat : Reading(n)' = Reading(n)
    BY <1>1, SameReading
  <2>2. \A n \in 1..Len(outcomes) : n \in Nat
    OBVIOUS
  <2> QED
    BY <1>1, <2>1, <2>2 DEF Inv, Settled
<1> QED
  BY <1>5, <1>6, <1>7 DEF Inv

LEMMA ReadEndsKeeps ==
    ASSUME Inv, ReadEnds
    PROVE  Inv'
<1>1. pc = "read" /\ IsText /\ AtEnd /\ EndPass("text")
  BY DEF ReadEnds
<1>2. /\ pos \in Nat /\ disk[path] \in Nat /\ pos <= disk[path] /\ disk[path] # Absent
      /\ Len(taken) = pos /\ taken = Keys(pos) /\ pass = Len(outcomes) + 1
      /\ \A i \in 1..pos : KeyOf(Trace[i]) # EmptyText
      /\ IsSample(pass) => pos <= SampleLimit
  BY <1>1, TakenType DEF Inv, Types, Cursor
<1>3. PICK d \in Nat : d = disk[path]
  BY <1>2
<1>4. PICK s \in BOOLEAN : s <=> IsSample(pass)
  OBVIOUS
<1>5. pos = Extent(d, s)
  <2>1. \/ s /\ pos = SampleLimit
        \/ pos = d
        \/ pos < d /\ KeyOf(Trace[pos + 1]) = EmptyText
    BY <1>1, <1>2, <1>3, <1>4 DEF AtEnd, LimitReached
  <2>2. pos \in 0..d
    BY <1>2, <1>3
  <2> QED
    BY <1>2, <1>4, <2>1, <2>2, StopsAtExtent
<1>6. Extent(d, s) = Extent(d, IsSample(pass))
  BY <1>4 DEF Extent
<1>7. hitch # "now" =>
          [kind |-> "text", keys |-> taken] = Reading(Len(outcomes) + 1)
  <2>1. SUFFICES ASSUME hitch # "now"
                 PROVE  [kind |-> "text", keys |-> taken] = Reading(Len(outcomes) + 1)
    OBVIOUS
  <2>2. path = FinalPath
    BY <1>1, <2>1 DEF Inv, Settled
  <2>3. /\ disk[FinalPath] # Absent
        /\ ~ (disk[FinalPath] = Page \/ (FinalPath = "download" /\ source.compressed))
    BY <1>1, <1>2, <2>2 DEF IsText
  <2>4. taken = Keys(Extent(disk[FinalPath], IsSample(Len(outcomes) + 1)))
    BY <1>2, <1>3, <1>5, <1>6, <2>2
  <2> QED
    BY <2>3, <2>4 DEF Reading
<1>8. pc \in {"open", "read"} /\ "text" \in Kinds
  BY <1>1 DEF Kinds
<1> QED
  BY <1>1, <1>7, <1>8, EndPassKeeps

LEMMA ReadGarbageKeeps ==
    ASSUME Inv, ReadGarbage
    PROVE  Inv'
<1>1. pc = "read" /\ ~ IsText /\ EndPass("garbage")
  BY DEF ReadGarbage
<1>2. taken = <<>> /\ disk[path] # Absent
  BY <1>1, TakenType DEF Inv, Cursor
<1>3. hitch # "now" => path = FinalPath
  BY <1>1 DEF Inv, Settled
<1>4. hitch # "now" =>
          [kind |-> "garbage", keys |-> taken] = Reading(Len(outcomes) + 1)
  BY <1>1, <1>2, <1>3 DEF Reading, IsText
<1>5. pc \in {"open", "read"} /\ "garbage" \in Kinds
  BY <1>1 DEF Kinds
<1> QED
  BY <1>1, <1>4, <1>5, EndPassKeeps

\* The steps of the constructor leave what is read alone.
LEMMA GotoKeeps ==
    ASSUME Inv, pc \in {"construct", "wget", "curl", "extract", "gunzip"},
           NEW l \in {"wget", "curl", "extract", "gunzip", "open"}, Goto(l),
           disk' \in [{"download", "extracted"} -> Contents],
           path' \in {"download", "extracted"}, hitch' \in {"none", "before", "now"}
    PROVE  Types' /\ Cursor'
<1>1. pc' = l /\ UNCHANGED <<source, pass, pos, taken, outcomes>>
  BY DEF Goto
<1> QED
  BY <1>1 DEF Inv, Types, Cursor

LEMMA BeginKeeps ==
    ASSUME Inv, Begin
    PROVE  Inv'
<1>1. /\ pc' = "construct" /\ pass' = 1 /\ outcomes' = <<>> /\ pos' = 0 /\ taken' = <<>>
      /\ UNCHANGED <<source, disk, path>>
      /\ hitch' = IF \E p \in DOMAIN disk : disk[p] \notin {Absent, Whole}
                  THEN "before" ELSE "none"
  BY DEF Begin
<1>2. Types'
  BY <1>1 DEF Inv, Types
<1>3. Files' /\ Cursor' /\ Settled'
  BY <1>1 DEF Files, Cursor, Settled
<1>4. Clean'
  BY <1>1 DEF Inv, Types, Clean
<1> QED
  BY <1>2, <1>3, <1>4 DEF Inv

LEMMA ConstructKeeps ==
    ASSUME Inv, Construct
    PROVE  Inv'
<1> DEFINE l == IF source.local THEN "open"
                ELSE IF file_exists("download") THEN "extract" ELSE "wget"
<1>1. pc = "construct" /\ path' = "download" /\ Goto(l) /\ UNCHANGED <<disk, hitch>>
  BY DEF Construct
<1>2. /\ l \in {"open", "extract", "wget"}
      /\ l = "open" <=> source.local
      /\ l = "extract" => disk["download"] # Absent
      /\ l = "wget" => disk["download"] = Absent
  BY DEF file_exists
<1> HIDE DEF l
<1>3. pc' = l /\ UNCHANGED <<source, outcomes>>
  BY <1>1 DEF Goto
<1>4. Types' /\ Cursor'
  <2>1. /\ disk' \in [{"download", "extracted"} -> Contents]
        /\ path' \in {"download", "extracted"} /\ hitch' \in {"none", "before", "now"}
    BY <1>1 DEF Inv, Types
  <2> QED
    BY <1>1, <1>2, <2>1, GotoKeeps
<1>5. Files' /\ Clean'
  BY <1>1, <1>2, <1>3 DEF Inv, Files, Clean
<1>6. Settled'
  <2>1. FinalPath' = FinalPath /\ (Ready' <=> Ready) /\ \A n \in Nat : Reading(n)' = Reading(n)
    BY <1>1, <1>3, SameReading
  <2>2. SUFFICES ASSUME hitch # "now"
                 PROVE  /\ outcomes # <<>> => Ready
                        /\ l = "wget" => outcomes = <<>>
                        /\ l = "open" => Ready /\ path' = FinalPath
                        /\ \A n \in 1..Len(outcomes) : outcomes[n] = Reading(n)
    <3>1. \A n \in 1..Len(outcomes) : n \in Nat
      OBVIOUS
    <3> QED
      BY <1>1, <1>2, <1>3, <2>1, <3>1 DEF Settled
  <2>3. /\ outcomes # <<>> => Ready
        /\ \A n \in 1..Len(outcomes) : outcomes[n] = Reading(n)
    BY <2>2 DEF Inv, Settled
  <2>4. l = "wget" => outcomes = <<>>
    BY <1>2, <2>3 DEF Ready
  <2>5. l = "open" => Ready /\ path' = FinalPath
    BY <1>1, <1>2 DEF Ready, FinalPath
  <2> QED
    BY <2>3, <2>4, <2>5
<1> QED
  BY <1>4, <1>5, <1>6 DEF Inv

LEMMA ExtractKeeps ==
    ASSUME Inv, Extract
    PROVE  Inv'
<1> DEFINE found == source.compressed /\ file_exists("extracted")
<1> DEFINE l == IF source.compressed /\ ~ found THEN "gunzip" ELSE "open"
<1>1. /\ pc = "extract" /\ path' = IF found THEN "extracted" ELSE path
      /\ Goto(l) /\ UNCHANGED <<disk, hitch>>
  BY DEF Extract
<1>2. ~ source.local /\ path = "download" /\ disk["download"] # Absent
  BY <1>1 DEF Inv, Files
<1>3. /\ l \in {"gunzip", "open"}
      /\ l = "gunzip" => source.compressed /\ disk["extracted"] = Absent /\ path' = "download"
      /\ l = "open" => path' = FinalPath /\ disk[FinalPath] # Absent
      /\ path' \in {"download", "extracted"}
  BY <1>1, <1>2 DEF file_exists, FinalPath
<1> HIDE DEF l, found
<1>4. pc' = l /\ UNCHANGED <<source, outcomes>>
  BY <1>1 DEF Goto
<1>5. Types' /\ Cursor'
  <2>1. /\ disk' \in [{"download", "extracted"} -> Contents]
        /\ hitch' \in {"none", "before", "now"}
    BY <1>1 DEF Inv, Types
  <2> QED
    BY <1>1, <1>3, <2>1, GotoKeeps
<1>6. Files' /\ Clean'
  BY <1>1, <1>2, <1>3, <1>4 DEF Inv, Files, Clean
<1>7. Settled'
  <2>1. FinalPath' = FinalPath /\ (Ready' <=> Ready) /\ \A n \in Nat : Reading(n)' = Reading(n)
    BY <1>1, <1>4, SameReading
  <2>2. SUFFICES ASSUME hitch # "now"
                 PROVE  /\ outcomes # <<>> => Ready
                        /\ l = "gunzip" => outcomes = <<>>
                        /\ l = "open" => Ready /\ path' = FinalPath
                        /\ \A n \in 1..Len(outcomes) : outcomes[n] = Reading(n)
    <3>1. \A n \in 1..Len(outcomes) : n \in Nat
      OBVIOUS
    <3> QED
      BY <1>1, <1>3, <1>4, <2>1, <3>1 DEF Settled
  <2>3. /\ outcomes # <<>> => Ready
        /\ \A n \in 1..Len(outcomes) : outcomes[n] = Reading(n)
    BY <2>2 DEF Inv, Settled
  <2>4. l = "gunzip" => outcomes = <<>>
    BY <1>2, <1>3, <2>3 DEF Ready, FinalPath
  <2>5. l = "open" => Ready /\ path' = FinalPath
    BY <1>2, <1>3 DEF Ready
  <2> QED
    BY <2>3, <2>4, <2>5
<1> QED
  BY <1>5, <1>6, <1>7 DEF Inv

\* A tool has written one of the files.
LEMMA Written ==
    ASSUME Inv, NEW p \in {"download", "extracted"}, NEW x \in Contents,
           disk' = [disk EXCEPT ![p] = x]
    PROVE  /\ disk' \in [{"download", "extracted"} -> Contents]
           /\ disk'[p] = x
           /\ \A q \in {"download", "extracted"} : q # p => disk'[q] = disk[q]
  BY DEF Inv, Types

LEMMA WgetKeeps ==
    ASSUME Inv, Wget
    PROVE  Inv'
<1>1. PICK x \in Contents, l \in {"extract", "curl"} :
        /\ Writes("download", x, l)
        /\ l = "extract" => x = Whole
        /\ l = "curl" => x \in Parts \cup {Absent}
  <2>1. Whole \in Contents /\ Parts \cup {Absent} \subseteq Contents
    BY DEF Contents
  <2>2. CASE Writes("download", Whole, "extract")
    BY <2>1, <2>2
  <2>3. CASE \E x \in Parts \cup {Absent} : Writes("download", x, "curl")
    BY <2>1, <2>3
  <2> QED
    BY <2>2, <2>3 DEF Wget
<1>2. /\ pc = "wget" /\ UNCHANGED <<path, hitch>>
      /\ disk' = [disk EXCEPT !["download"] = x] /\ Goto(l)
  BY <1>1 DEF Wget, Writes
<1>3. /\ disk' \in [{"download", "extracted"} -> Contents]
      /\ disk'["download"] = x /\ disk'["extracted"] = disk["extracted"]
  BY <1>2, Written
<1>4. /\ Absent \notin Nat /\ Page \notin Nat /\ Absent # Page
      /\ Whole \notin Parts /\ Parts \subseteq Nat /\ Whole \in Nat
  BY TraceAssumption, WholeType DEF Parts
<1>5. Types' /\ Cursor'
  <2>1. path' \in {"download", "extracted"} /\ hitch' \in {"none", "before", "now"}
    BY <1>2 DEF Inv, Types
  <2> QED
    BY <1>2, <1>3, <2>1, GotoKeeps
<1>6. pc' = l /\ UNCHANGED <<source, outcomes>>
  BY <1>2 DEF Goto
<1>7. Files'
  <2>1. ~ source.local /\ path = "download"
    BY <1>2 DEF Inv, Files
  <2>2. /\ l = "extract" => x # Absent
        /\ l = "curl" => x \notin {Whole, Page}
    BY <1>1, <1>4
  <2> QED
    BY <1>2, <1>3, <1>6, <2>1, <2>2 DEF Files
<1>8. Settled'
  <2>1. hitch # "now" => outcomes = <<>>
    BY <1>2 DEF Inv, Settled
  <2>2. Len(<<>>) = 0 /\ 1..0 = {}
    OBVIOUS
  <2> QED
    BY <1>2, <1>6, <2>1, <2>2 DEF Settled
<1>9. Clean'
  BY <1>1, <1>2, <1>3, <1>6 DEF Inv, Clean
<1> QED
  BY <1>5, <1>7, <1>8, <1>9 DEF Inv

LEMMA CurlKeeps ==
    ASSUME Inv, Curl
    PROVE  Inv'
<1>1. PICK x \in Contents, l \in {"extract", "open"} :
        /\ Writes("download", x, l)
        /\ (x = Whole /\ l = "extract" /\ UNCHANGED hitch) \/ hitch' = "now"
        /\ l = "extract" => x \in {Whole, Page}
  <2>1. Whole \in Contents /\ Page \in Contents /\ Parts \cup {disk["download"]} \subseteq Contents
    BY DEF Inv, Types, Contents
  <2>2. CASE Writes("download", Whole, "extract") /\ UNCHANGED hitch
    BY <2>1, <2>2
  <2>3. CASE Writes("download", Page, "extract") /\ hitch' = "now"
    BY <2>1, <2>3
  <2>4. CASE /\ \E x \in Parts \cup {disk["download"]} : Writes("download", x, "open")
             /\ hitch' = "now"
    BY <2>1, <2>4
  <2> QED
    BY <2>2, <2>3, <2>4 DEF Curl
<1>2. /\ pc = "curl" /\ UNCHANGED path
      /\ disk' = [disk EXCEPT !["download"] = x] /\ Goto(l)
  BY <1>1 DEF Curl, Writes
<1>3. /\ disk' \in [{"download", "extracted"} -> Contents]
      /\ disk'["download"] = x /\ disk'["extracted"] = disk["extracted"]
  BY <1>2, Written
<1>4. Whole # Absent /\ Page # Absent
  BY TraceAssumption, WholeType
<1>5. Types' /\ Cursor'
  <2>1. path' \in {"download", "extracted"} /\ hitch' \in {"none", "before", "now"}
    BY <1>1, <1>2 DEF Inv, Types
  <2> QED
    BY <1>2, <1>3, <2>1, GotoKeeps
<1>6. pc' = l /\ UNCHANGED <<source, outcomes>>
  BY <1>2 DEF Goto
<1>7. Files'
  <2>1. ~ source.local /\ path = "download"
    BY <1>2 DEF Inv, Files
  <2> QED
    BY <1>1, <1>2, <1>3, <1>4, <1>6, <2>1 DEF Files
<1>8. Settled'
  <2>1. hitch # "now" => outcomes = <<>>
    BY <1>2 DEF Inv, Settled
  <2>2. Len(<<>>) = 0 /\ 1..0 = {}
    OBVIOUS
  <2> QED
    BY <1>1, <1>6, <2>1, <2>2 DEF Settled
<1>9. Clean'
  BY <1>1, <1>2, <1>3, <1>6 DEF Inv, Clean
<1> QED
  BY <1>5, <1>7, <1>8, <1>9 DEF Inv

LEMMA GunzipKeeps ==
    ASSUME Inv, Gunzip
    PROVE  Inv'
<1>1. PICK x \in Contents :
        /\ Writes("extracted", x, "open")
        /\ \/ x = Whole /\ path' = "extracted" /\ UNCHANGED hitch
           \/ hitch' = "now" /\ UNCHANGED path
  <2>1. /\ Whole \in Contents /\ disk["download"] \in Contents
        /\ Parts \subseteq Contents /\ 0 \in Contents
    <3>1. 0 \in Parts \/ 0 = Whole
      BY WholeType DEF Parts
    <3> QED
      BY <3>1 DEF Inv, Types, Contents
  <2>2. CASE /\ Writes("extracted", Whole, "open")
             /\ path' = "extracted" /\ UNCHANGED hitch
    BY <2>1, <2>2
  <2>3. CASE /\ Writes("extracted", IF disk["download"] = Page THEN 0
                                    ELSE disk["download"], "open")
             /\ hitch' = "now" /\ UNCHANGED path
    BY <2>1, <2>3
  <2>4. CASE /\ \E x \in Parts : Writes("extracted", x, "open")
             /\ hitch' = "now" /\ UNCHANGED path
    BY <2>1, <2>4
  <2> QED
    BY <2>2, <2>3, <2>4 DEF Gunzip
<1>2. pc = "gunzip" /\ disk' = [disk EXCEPT !["extracted"] = x] /\ Goto("open")
  BY <1>1 DEF Gunzip, Writes
<1>3. /\ disk' \in [{"download", "extracted"} -> Contents]
      /\ disk'["extracted"] = x /\ disk'["download"] = disk["download"]
  BY <1>2, Written
<1>4. Whole # Absent
  BY TraceAssumption, WholeType
<1>5. Types' /\ Cursor'
  <2>1. path' \in {"download", "extracted"} /\ hitch' \in {"none", "before", "now"}
    BY <1>1 DEF Inv, Types
  <2> QED
    BY <1>2, <1>3, <2>1, GotoKeeps
<1>6. pc' = "open" /\ UNCHANGED <<source, outcomes>>
  BY <1>2 DEF Goto
<1>7. Files'
  BY <1>6 DEF Files
<1>8. Settled'
  <2>1. CASE hitch' = "now"
    BY <2>1 DEF Settled
  <2>2. CASE x = Whole /\ path' = "extracted" /\ UNCHANGED hitch /\ hitch # "now"
    <3>1. /\ ~ source.local /\ source.compressed /\ disk["download"] # Absent
          /\ outcomes = <<>>
      BY <1>2, <2>2 DEF Inv, Files, Settled
    <3>2. FinalPath' = "extracted" /\ Ready'
      BY <1>3, <1>4, <1>6, <2>2, <3>1 DEF FinalPath, Ready
    <3>3. Len(<<>>) = 0 /\ 1..0 = {}
      OBVIOUS
    <3> QED
      BY <1>6, <2>2, <3>1, <3>2, <3>3 DEF Settled
  <2> QED
    BY <1>1, <2>1, <2>2
<1>9. Clean'
  BY <1>1, <1>2, <1>3, <1>6 DEF Inv, Clean
<1> QED
  BY <1>5, <1>7, <1>8, <1>9 DEF Inv

LEMMA KillKeeps ==
    ASSUME Inv, Kill
    PROVE  Inv'
<1>1. /\ pc' = "idle" /\ hitch' = "now"
      /\ UNCHANGED <<source, path, pass, pos, taken, outcomes>>
  BY DEF Kill
<1>2. disk' \in [{"download", "extracted"} -> Contents]
  <2>1. Parts \cup {disk["download"]} \subseteq Contents
    BY DEF Inv, Types, Contents
  <2>2. CASE pc \in {"wget", "curl"}
    <3>1. PICK x \in Parts \cup {disk["download"]} : disk' = [disk EXCEPT !["download"] = x]
      BY <2>2 DEF Kill
    <3> QED
      BY <2>1, <3>1, Written
  <2>3. CASE pc = "gunzip"
    <3>1. PICK x \in Parts : disk' = [disk EXCEPT !["extracted"] = x]
      BY <2>3 DEF Kill
    <3> QED
      BY <2>1, <3>1, Written
  <2>4. CASE pc \notin {"wget", "curl", "gunzip"}
    <3>1. disk' = disk
      BY <2>4 DEF Kill
    <3> QED
      BY <3>1 DEF Inv, Types
  <2> QED
    BY <2>2, <2>3, <2>4
<1>3. Types'
  BY <1>1, <1>2 DEF Inv, Types
<1>4. Files' /\ Cursor' /\ Settled' /\ Clean'
  BY <1>1 DEF Files, Cursor, Settled, Clean
<1> QED
  BY <1>3, <1>4 DEF Inv

LEMMA InvInit ==
    ASSUME Init
    PROVE  Inv
<1>1. /\ source \in [local : BOOLEAN, compressed : BOOLEAN]
      /\ pc = "idle" /\ path = "download" /\ pos = 0 /\ outcomes = <<>> /\ hitch = "none"
  BY Constants DEF Init
<1>2. PICK x \in {Absent, Whole} : disk = [download |-> x, extracted |-> Absent]
  BY DEF Init
<1>3. /\ disk \in [{"download", "extracted"} -> Contents]
      /\ disk["download"] \in {Absent, Whole} /\ disk["extracted"] = Absent
  BY <1>2 DEF Contents
<1>4. Types
  BY <1>1, <1>3, EmptySeq DEF Types
<1>5. Files /\ Cursor /\ Settled /\ Clean
  BY <1>1, <1>3 DEF Files, Cursor, Settled, Clean
<1> QED
  BY <1>4, <1>5 DEF Inv

LEMMA InvNext ==
    ASSUME Inv, [Next]_vars
    PROVE  Inv'
<1>1. CASE UNCHANGED vars
  <2>1. UNCHANGED <<source, disk, pc, path, pass, pos, taken, outcomes, hitch>>
    BY <1>1 DEF vars, progVars
  <2>2. Types' /\ Files' /\ Clean'
    BY <2>1 DEF Inv, Types, Files, Clean
  <2>3. Cursor'
    BY <2>1 DEF Inv, Cursor, IsText, IsSample
  <2>4. FinalPath' = FinalPath /\ (Ready' <=> Ready) /\ \A n \in Nat : Reading(n)' = Reading(n)
    BY <2>1, SameReading
  <2>5. \A n \in 1..Len(outcomes) : n \in Nat
    OBVIOUS
  <2>6. Settled'
    BY <2>1, <2>4, <2>5 DEF Inv, Settled
  <2> QED
    BY <2>2, <2>3, <2>6 DEF Inv
<1>2. CASE Next
  BY <1>2, BeginKeeps, ConstructKeeps, WgetKeeps, CurlKeeps, ExtractKeeps, GunzipKeeps,
     OpenKeeps, ReadEntryKeeps, ReadEndsKeeps, ReadGarbageKeeps, KillKeeps DEF Next
<1> QED
  BY <1>1, <1>2

\* The files, the cursor and the outcomes agree at every step of every run.
LEMMA Invariance == Spec => []Inv
  BY InvInit, InvNext, PTL DEF Spec

----------------------------------------------------------------------------
(* The theorems.                                                           *)

\* The policies of a run in which nothing fails are measured with the same
\* requests, whatever earlier runs have left on the disk: the constructor of
\* each pass finds the files that the first one left (trace_processor.cpp:25,
\* 42), and a new processor reads them from the start.
THEOREM SameRequestsForAll == Spec => []PassesComparable
<1>1. Inv => PassesComparable
  <2>1. SUFFICES ASSUME Inv, hitch # "now",
                        NEW m \in 1..Len(outcomes), NEW n \in 1..Len(outcomes),
                        IsSample(m) = IsSample(n)
                 PROVE  outcomes[m] = outcomes[n]
    <3>1. Inv => DOMAIN outcomes = 1..Len(outcomes)
      BY DEF Inv, Types
    <3> QED
      BY <3>1 DEF PassesComparable
  <2>2. outcomes[m] = Reading(m) /\ outcomes[n] = Reading(n)
    BY <2>1 DEF Inv, Settled
  <2>3. Reading(m) = Reading(n)
    BY <2>1 DEF Reading
  <2> QED
    BY <2>2, <2>3
<1> QED
  BY <1>1, Invariance, PTL

\* A run that finds no damaged file and fails nowhere feeds every pass with the
\* entries of a trace without empty lines, or as many as the sample takes, also
\* when wget fails half way and curl succeeds (trace_processor.cpp:15-60, 73-97,
\* benchmark_server.cpp:147-166).
THEOREM ReadsTheTrace == Spec => []TraceIsRead
<1>1. Inv => TraceIsRead
  <2>1. SUFFICES ASSUME Inv, NoEmptyLine, hitch = "none", HasTrace, NEW n \in 1..Len(outcomes)
                 PROVE  outcomes[n] = [kind |-> "text", keys |-> Entries(n)]
    <3>1. Inv => DOMAIN outcomes = 1..Len(outcomes)
      BY DEF Inv, Types
    <3> QED
      BY <3>1 DEF TraceIsRead, ReadsTrace
  <2>2. outcomes # <<>>
    OBVIOUS
  <2>3. /\ Ready /\ outcomes[n] = Reading(n) /\ pc # "curl"
        /\ disk["extracted"] \in {Absent, Whole} /\ disk["download"] \in {Absent, Whole}
    BY <2>1, <2>2 DEF Inv, Settled, Clean
  <2>4. disk[FinalPath] = Whole /\ ~ (FinalPath = "download" /\ source.compressed)
    BY <2>1, <2>3 DEF Ready, FinalPath, HasTrace
  <2>5. Whole # Absent /\ Whole # Page
    BY TraceAssumption, WholeType
  <2>6. outcomes[n] = [kind |-> "text", keys |-> Keys(Extent(Whole, IsSample(n)))]
    BY <2>3, <2>4, <2>5 DEF Reading
  <2>7. Entries(n) = Keys(Extent(Whole, IsSample(n)))
    BY <2>1, WholeUnbroken DEF Entries, Keys, Extent, KeyOf
  <2> QED
    BY <2>6, <2>7
<1> QED
  BY <1>1, Invariance, PTL

\* No step writes a file that is complete: a download or an extraction starts
\* only where its file is missing, or was broken off by wget in the same run
\* (trace_processor.cpp:25, 42).
THEOREM CompleteFilesStay == Spec => CompleteFilesKept
<1>1. ASSUME Inv, [Next]_vars
      PROVE  [\A p \in DOMAIN disk : disk[p] = Whole => disk'[p] = Whole]_vars
  <2>1. SUFFICES ASSUME Next, disk' # disk, NEW p \in {"download", "extracted"},
                        disk[p] = Whole
                 PROVE  disk'[p] = Whole
    <3>1. DOMAIN disk = {"download", "extracted"}
      BY <1>1 DEF Inv, Types
    <3> QED
      BY <1>1, <3>1 DEF vars
  <2>2. PICK q \in {"download", "extracted"} :
            /\ \E x : disk' = [disk EXCEPT ![q] = x]
            /\ q = "download" => pc \in {"wget", "curl"}
            /\ q = "extracted" => pc = "gunzip"
    <3>1. CASE Wget
      BY <3>1 DEF Wget, Writes
    <3>2. CASE Curl
      BY <3>2 DEF Curl, Writes
    <3>3. CASE Gunzip
      BY <3>3 DEF Gunzip, Writes
    <3>4. CASE Kill
      <4>1. CASE pc \in {"wget", "curl"}
        BY <3>4, <4>1 DEF Kill
      <4>2. CASE pc = "gunzip"
        BY <3>4, <4>2 DEF Kill
      <4>3. CASE pc \notin {"wget", "curl", "gunzip"}
        BY <2>1, <3>4, <4>3 DEF Kill
      <4> QED
        BY <4>1, <4>2, <4>3
    <3>5. Begin \/ Construct \/ Extract \/ Open \/ ReadEntry \/ ReadEnds \/ ReadGarbage
              => disk' = disk
      BY DEF Begin, Construct, Extract, Open, ReadEntry, ReadEnds, ReadGarbage, EndPass
    <3> QED
      BY <2>1, <3>1, <3>2, <3>3, <3>4, <3>5 DEF Next
  <2>3. /\ pc \in {"wget", "curl"} => disk["download"] # Whole
        /\ pc = "gunzip" => disk["extracted"] # Whole
    <3>1. Absent # Whole
      BY TraceAssumption, WholeType
    <3> QED
      BY <1>1, <3>1 DEF Inv, Files
  <2>4. p # q
    BY <2>1, <2>2, <2>3
  <2>5. disk'[p] = disk[p]
    BY <1>1, <2>2, <2>4 DEF Inv, Types
  <2> QED
    BY <2>1, <2>5
<1> QED
  BY <1>1, Invariance, PTL DEF Spec, CompleteFilesKept
=============================================================================
