------------------------------ MODULE SseScanner ------------------------------
(****************************************************************************)
(* SseScanner of proxy/sse.py, which watches the bytes that relay_gen       *)
(* forwards: it carries the tail of a chunk over to the next, cuts the      *)
(* stream into events, counts data events, and notes [DONE] and usage.      *)
(*                                                                          *)
(* A token stands for a piece of a line: CR and LF, a comment (the pings of *)
(* an upstream) or other field, a data field without a body, one of [DONE], *)
(* one with each of two usage objects, and one whose JSON is not an object  *)
(* or has odd choices, on which _extract raises.  Chunks end anywhere.      *)
(****************************************************************************)
EXTENDS Naturals, Sequences, FiniteSetsExt

CONSTANTS
  Usages,     \* data fields with a usage object
  MaxInput,   \* bound: tokens of a stream
  MaxChunk    \* bound: tokens of a chunk

VARIABLES
  input,    \* what the upstream has sent
  scanner   \* the SseScanner

vars == <<input, scanner>>

Tokens == {"CR", "LF", "ping", "empty", "done", "odd"} \cup Usages

\* data_events, saw_done, usage; broken: feed has raised.  carry: _carry.
New == [carry |-> << >>,
        seen |-> [events |-> 0, done |-> FALSE, usage |-> "none", broken |-> FALSE]]

Init == input = << >> /\ scanner = New

------------------------------------------------------------------------------
(* _process *)

LineEnd(e, i) == Min({ j \in i..Len(e) : e[j] = "LF" } \cup {Len(e) + 1}) - 1

\* The line of event.split(b"\n") that begins at i, after rstrip(b"\r").
Line(e, i) ==
  SubSeq(e, i, Max({ j \in i..LineEnd(e, i) : e[j] # "CR" } \cup {i - 1}))

\* A line that starts with anything but a data field is ignored, and so is a data
\* field without a body.
IsData(l) == l # << >> /\ l[1] \notin {"CR", "ping"} /\ l # <<"empty">>

\* Mutant of SeeLine: [DONE] is counted like any other data event.
SeeLineCountsDone(s, l) ==
  IF s.broken \/ ~IsData(l) THEN s
  ELSE IF l = <<"done">> THEN [s EXCEPT !.done = TRUE, !.events = @ + 1]
  ELSE [s EXCEPT !.events = @ + 1,
                 !.usage = IF Len(l) = 1 /\ l[1] \in Usages THEN l[1] ELSE @,
                 !.broken = l = <<"odd">>]

\* One line of an event; a body of several pieces is no JSON.
SeeLine(s, l) ==
  IF s.broken \/ ~IsData(l) THEN s
  ELSE IF l = <<"done">> THEN [s EXCEPT !.done = TRUE]
  ELSE [s EXCEPT !.events = @ + 1,
                 !.usage = IF Len(l) = 1 /\ l[1] \in Usages THEN l[1] ELSE @,
                 !.broken = l = <<"odd">>]

\* What has been seen after each piece of the event e: a line counts where it
\* begins, and the empty one after a last LF is no data.
Seeing(s, e) ==
  LET after[i \in Nat] ==
        IF i = 0 THEN s
        ELSE IF i = 1 \/ e[i - 1] = "LF" THEN SeeLine(after[i - 1], Line(e, i))
        ELSE after[i - 1]
  IN  after

Process(s, e) == Seeing(s, e)[Len(e)]

------------------------------------------------------------------------------
(* feed *)

Starting(c, d) ==
  { i \in 1..Len(c) : /\ i + Len(d) <= Len(c) + 1
                      /\ \A k \in 1..Len(d) : c[i + k - 1] = d[k] }

Cuts(c) ==
  { [at |-> i, len |-> 2] : i \in Starting(c, <<"LF", "LF">>) }
    \cup { [at |-> i, len |-> 4] : i \in Starting(c, <<"CR", "LF", "CR", "LF">>) }

\* min(candidates)
FirstCut(c) == CHOOSE x \in Cuts(c) : \A y \in Cuts(c) : x.at <= y.at

\* One round of the loop; it changes nothing once there is no more to cut.
CutOne(s) ==
  IF s.seen.broken \/ Cuts(s.carry) = {} THEN s
  ELSE LET x == FirstCut(s.carry)
       IN  [carry |-> SubSeq(s.carry, x.at + x.len, Len(s.carry)),
            seen |-> Process(s.seen, SubSeq(s.carry, 1, x.at - 1))]

Cutting(s) ==
  LET after[n \in Nat] == IF n = 0 THEN s ELSE CutOne(after[n - 1])
  IN  after

\* Every round that cuts makes the carry shorter.
Drain(s) == Cutting(s)[Len(s.carry)]

\* Mutant of Feed: a chunk is scanned by itself.
FeedForgets(s, chunk) == Drain([s EXCEPT !.carry = chunk])

Feed(s, chunk) == Drain([s EXCEPT !.carry = @ \o chunk])

\* relay_gen feeds the chunks as they come; feed raising ends the stream.
Chunk(chunk) ==
  /\ ~scanner.seen.broken
  /\ Len(input) + Len(chunk) <= MaxInput
  /\ input' = input \o chunk
  /\ scanner' = Feed(scanner, chunk)

Next == \E n \in 1..MaxChunk : \E chunk \in [1..n -> Tokens] : Chunk(chunk)

Spec == Init /\ [][Next]_vars

------------------------------------------------------------------------------
(* Properties *)

\* However the network cuts the stream into chunks, in the middle of a line or
\* of a delimiter, the scanner has seen what it would see in one piece.
ChunkingInvisible ==
  LET whole == Feed(New, input)
  IN  /\ scanner.seen = whole.seen
      /\ ~scanner.seen.broken => scanner.carry = whole.carry

\* Every line of t ends in LF, or every line ends in CR LF.
Uniform(t) ==
  \/ \A i \in 1..Len(t) : t[i] # "CR"
  \/ \A i \in 1..Len(t) :
       /\ t[i] = "CR" => i = Len(t) \/ t[i + 1] = "LF"
       /\ t[i] = "LF" => i > 1 /\ t[i - 1] = "CR"

\* Where the fields of t begin, and what the one at i holds.
Begins(t) ==
  { i \in 1..Len(t) : t[i] \notin {"CR", "LF"} /\ (i = 1 \/ t[i - 1] = "LF") }

Content(t, i) ==
  SubSeq(t, i, Min({ j \in i..Len(t) : t[j] \in {"CR", "LF"} } \cup {Len(t) + 1}) - 1)

\* The line end at j is followed by an empty line.
Blank(t, j) ==
  /\ t[j] = "LF"
  /\ \/ j < Len(t) /\ t[j + 1] = "LF"
     \/ j + 1 < Len(t) /\ t[j + 1] = "CR" /\ t[j + 2] = "LF"

Complete(t) == { i \in Begins(t) : \E j \in (i + 1)..Len(t) : Blank(t, j) }

\* What there is to see in the fields of t that begin at the places in B: pings
\* and empty data tell nothing, [DONE] is no data event, the last usage wins.
Report(t, B) ==
  LET told == { i \in B : t[i] # "ping" /\ Content(t, i) # <<"empty">> }
      data == { i \in told : Content(t, i) # <<"done">> }
      usages == { i \in data : Len(Content(t, i)) = 1 }
  IN  [events |-> Cardinality(data),
       done |-> data # told,
       usage |-> IF usages = {} THEN "none" ELSE Content(t, Max(usages))[1],
       broken |-> FALSE]

\* On a stream of uniform line ends the scanner sees exactly the data fields
\* that a blank line completes: a tail without blank line is no data event, and
\* a tail [DONE] does not count as the end of the stream.
AgreesWithStream ==
  Uniform(input) /\ ~scanner.seen.broken =>
    scanner.seen = Report(input, Complete(input))
==============================================================================
