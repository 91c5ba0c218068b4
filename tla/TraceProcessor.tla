--------------------------- MODULE TraceProcessor ---------------------------
(***************************************************************************)
(* Where cache_benchmark gets its requests from: the trace is downloaded,  *)
(* extracted, opened and read by a TraceProcessor, twice for each policy,  *)
(* once to feed the workers (run_trace_benchmark) and once for the summary *)
(* (the driver's sample).  The files stay on the disk between passes and   *)
(* between runs of the program; the tools may fail in any of these steps,  *)
(* and the program may be killed.                                          *)
(*                                                                         *)
(* The content of a file is the number of leading lines of the trace that  *)
(* it holds, compressed or not.                                            *)
(***************************************************************************)
EXTENDS Integers, Sequences

CONSTANTS
    Trace,        \* the trace on its server: lines, each with the words in it
    Sources,      \* [local, compressed]: what the program may be given
    NumPolicies,  \* policies_to_test
    SampleLimit,  \* requests of the sample (10000 in the code)
    Faults,       \* what may fail
    MaxRuns,      \* bound: runs of the program
    EmptyText,    \* the text of an empty line
    Absent, Page  \* no file; the web page of an error in place of the trace

ASSUME Constants ==
    /\ {NumPolicies, SampleLimit, MaxRuns} \subseteq Nat \ {0}
    /\ Faults \subseteq {"wget", "curl", "page", "gunzip", "kill"}
    /\ Sources \subseteq [local : BOOLEAN, compressed : BOOLEAN]

ASSUME TraceAssumption ==
    /\ Trace \in Seq([text : STRING, fields : Seq(STRING \ {EmptyText})])
    /\ Absent # Page /\ {Absent, Page} \cap Nat = {}

VARIABLES
    source,    \* trace_url, as far as the constructor tells it apart
    disk,      \* the downloaded file, or the local one, and the extracted one
    pc,        \* where the program is, "idle" between runs
    path,      \* trace_file_path
    pass,      \* passes over the trace begun in this run
    pos,       \* lines of the open file read
    taken,     \* the keys this pass has made requests of
    outcomes,  \* history: what each pass of this run has read
    hitch,     \* history: did this run fail to get the trace, or was there a
               \* damaged file before?
    runs

progVars == <<pc, path, pass, pos, taken, outcomes>>
vars == <<source, disk, progVars, hitch, runs>>

Whole == Len(Trace)

Parts == 0..(Whole - 1)

file_exists(p) == disk[p] # Absent

----------------------------------------------------------------------------
(* The passes of a run.                                                    *)

Begin ==
    /\ pc = "idle" /\ runs < MaxRuns
    /\ runs' = runs + 1
    /\ pc' = "construct" /\ pass' = 1 /\ outcomes' = <<>>
    /\ pos' = 0 /\ taken' = <<>>
    /\ hitch' = IF \E p \in DOMAIN disk : disk[p] \notin {Absent, Whole}
                THEN "before" ELSE "none"
    /\ UNCHANGED <<source, disk, path>>

IsSample(n) == n % 2 = 0

\* Mutant: the next pass goes on with the same TraceProcessor, without reset.
EndPass_no_reset(kind) ==
    /\ outcomes' = Append(outcomes, [kind |-> kind, keys |-> taken])
    /\ taken' = <<>>
    /\ IF pass < 2 * NumPolicies
       THEN pc' = "construct" /\ pass' = pass + 1
       ELSE pc' = "idle" /\ UNCHANGED pass
    /\ UNCHANGED <<source, disk, path, pos, hitch, runs>>

\* A pass ends: the next pass, or the summary and the end of the run.
EndPass(kind) ==
    /\ outcomes' = Append(outcomes, [kind |-> kind, keys |-> taken])
    /\ pos' = 0 /\ taken' = <<>>
    /\ IF pass < 2 * NumPolicies
       THEN pc' = "construct" /\ pass' = pass + 1
       ELSE pc' = "idle" /\ UNCHANGED pass
    /\ UNCHANGED <<source, disk, path, hitch, runs>>

----------------------------------------------------------------------------
(* The constructor.                                                        *)

Goto(l) == pc' = l /\ UNCHANGED <<source, pass, pos, taken, outcomes, runs>>

\* A local path is used as it is; a URL names a file to download.
Construct ==
    /\ pc = "construct"
    /\ path' = "download"
    /\ Goto(IF source.local THEN "open"
            ELSE IF file_exists("download") THEN "extract" ELSE "wget")
    /\ UNCHANGED <<disk, hitch>>

\* A tool writes x to file p, and the program goes on at l.
Writes(p, x, l) == disk' = [disk EXCEPT ![p] = x] /\ Goto(l)

\* download_trace_file tries two tools.  wget fails with a part of the file, or without any
\* when it is not installed.
Wget ==
    /\ pc = "wget"
    /\ \/ Writes("download", Whole, "extract")
       \/ /\ "wget" \in Faults
          /\ \E x \in Parts \cup {Absent} : Writes("download", x, "curl")
    /\ UNCHANGED <<path, hitch>>

\* curl succeeds with the page of an HTTP error too.  When it fails, the
\* constructor returns with trace_file_path naming the download.
Curl ==
    /\ pc = "curl"
    /\ \/ Writes("download", Whole, "extract") /\ UNCHANGED hitch
       \/ "page" \in Faults /\ Writes("download", Page, "extract") /\ hitch' = "now"
       \/ /\ "curl" \in Faults
          /\ \E x \in Parts \cup {disk["download"]} : Writes("download", x, "open")
          /\ hitch' = "now"
    /\ UNCHANGED path

\* Mutant: the extracted file is made anew for every pass.
Extract_always ==
    /\ pc = "extract"
    /\ Goto(IF source.compressed THEN "gunzip" ELSE "open")
    /\ UNCHANGED <<path, disk, hitch>>

Extract ==
    LET found == source.compressed /\ file_exists("extracted")
    IN  /\ pc = "extract"
        /\ path' = IF found THEN "extracted" ELSE path
        /\ Goto(IF source.compressed /\ ~ found THEN "gunzip" ELSE "open")
        /\ UNCHANGED <<disk, hitch>>

\* Mutant: trace_file_path goes on naming the compressed file.
Gunzip_keeps_path ==
    /\ pc = "gunzip"
    /\ Writes("extracted", disk["download"], "open")
    /\ UNCHANGED <<path, hitch>>

\* extract_gz_file.  The shell creates the output, whatever becomes of gunzip,
\* which fails on a damaged file after what it could extract.
Gunzip ==
    /\ pc = "gunzip"
    /\ \/ /\ disk["download"] = Whole
          /\ Writes("extracted", Whole, "open")
          /\ path' = "extracted" /\ UNCHANGED hitch
       \/ /\ disk["download"] # Whole
          /\ Writes("extracted", IF disk["download"] = Page THEN 0
                                 ELSE disk["download"], "open")
          /\ hitch' = "now" /\ UNCHANGED path
       \/ /\ "gunzip" \in Faults /\ disk["download"] = Whole
          /\ \E x \in Parts : Writes("extracted", x, "open")
          /\ hitch' = "now" /\ UNCHANGED path

----------------------------------------------------------------------------
(* initialize, has_next and get_next, and the two loops that call them.    *)

Open ==
    /\ pc = "open"
    /\ \/ ~ file_exists(path) /\ EndPass("failed")
       \/ file_exists(path) /\ Goto("read") /\ UNCHANGED <<path, disk, hitch>>

\* Is it the text of the trace that is read, or compressed data or a web page?
IsText == /\ path = "download" => ~ source.compressed
          /\ disk[path] # Page

\* "timestamp key size", or else the whole line, blanks included.
KeyOf(line) == IF Len(line.fields) >= 3 THEN line.fields[2] ELSE line.text

LimitReached == IsSample(pass) /\ Len(taken) = SampleLimit

AtEnd == \/ LimitReached
         \/ pos = disk[path]
         \/ pos < disk[path] /\ KeyOf(Trace[pos + 1]) = EmptyText

ReadEntry ==
    /\ pc = "read" /\ IsText /\ ~ AtEnd
    /\ taken' = Append(taken, KeyOf(Trace[pos + 1]))
    /\ pos' = pos + 1
    /\ UNCHANGED <<source, disk, pc, path, pass, outcomes, hitch, runs>>

\* The end of the file, an empty key, or enough for the sample.
ReadEnds == pc = "read" /\ IsText /\ AtEnd /\ EndPass("text")

ReadGarbage == pc = "read" /\ ~ IsText /\ EndPass("garbage")

----------------------------------------------------------------------------
\* The program is killed, perhaps while a tool has written a part of a file.
Kill ==
    /\ "kill" \in Faults /\ pc # "idle"
    /\ pc' = "idle" /\ hitch' = "now"
    /\ disk' \in CASE pc \in {"wget", "curl"} ->
                        {[disk EXCEPT !["download"] = x] : x \in Parts \cup {disk["download"]}}
                   [] pc = "gunzip" ->
                        {[disk EXCEPT !["extracted"] = x] : x \in Parts}
                   [] OTHER -> {disk}
    /\ UNCHANGED <<source, path, pass, pos, taken, outcomes, runs>>

Init ==
    /\ source \in Sources
    /\ disk \in [download : IF source.local THEN {Absent, Whole} ELSE {Absent},
                 extracted : {Absent}]
    /\ pc = "idle" /\ path = "download" /\ pass = 0 /\ pos = 0
    /\ taken = <<>> /\ outcomes = <<>> /\ hitch = "none" /\ runs = 0

Next ==
    \/ Begin \/ Construct \/ Wget \/ Curl \/ Extract \/ Gunzip
    \/ Open \/ ReadEntry \/ ReadEnds \/ ReadGarbage \/ Kill

Spec == Init /\ [][Next]_vars

----------------------------------------------------------------------------
(* Properties.                                                             *)

Contents == Parts \cup {Whole, Absent, Page}

\* The requests that a trace without empty lines asks for: one for each of its
\* lines, or as many as the sample takes.
Entries(n) ==
    LET lim == IF IsSample(n) /\ SampleLimit < Whole THEN SampleLimit ELSE Whole
    IN  [i \in 1..lim |->
            IF Len(Trace[i].fields) < 3 THEN Trace[i].text ELSE Trace[i].fields[2]]

NoEmptyLine == \A i \in 1..Whole : Trace[i].text # EmptyText

ReadsTrace ==
    \A n \in DOMAIN outcomes :
        outcomes[n] = [kind |-> "text", keys |-> Entries(n)]

\* There is a trace in a form the program reads.
HasTrace == source.local => disk["download"] = Whole /\ ~ source.compressed

\* A run that finds no damaged file and in which wget or curl, and gunzip,
\* succeed feeds every policy with every line of a trace that has no empty one,
\* and each of their samples with the first of them, also when wget fails half
\* way, when earlier runs were killed and when a line holds nothing but blanks
\* (trace_processor.cpp:15-60, 73-97, benchmark_server.cpp:147-166).
TraceIsRead == (NoEmptyLine /\ hitch = "none" /\ HasTrace) => ReadsTrace

\* A file that is complete is never written again (trace_processor.cpp:25, 42):
\* no later pass or run can lose the trace.
CompleteFilesKept ==
    [][\A p \in DOMAIN disk : disk[p] = Whole => disk'[p] = Whole]_vars

\* "comparing cache eviction algorithms" (README_BENCHMARK.md:3): the policies of
\* a run are measured with the same requests, and so are their samples, whatever
\* files earlier runs have left, if no download or extraction fails in this run:
\* each pass has a TraceProcessor of its own, and finds the files of the first
\* (trace_processor.cpp:25, 42, benchmark_server.cpp:136, cache_benchmark.cpp:152).
PassesComparable ==
    hitch # "now" =>
        \A m, n \in DOMAIN outcomes :
            IsSample(m) = IsSample(n) => outcomes[m] = outcomes[n]
=============================================================================
