------------------------------- MODULE ChatInput -------------------------------
(***************************************************************************)
(* How the HW4_ver2 client turns the keyboard into datagrams: read()       *)
(* returns chunks that end anywhere, and the loop over a chunk keeps the   *)
(* line being collected from one chunk to the next.                        *)
(***************************************************************************)
EXTENDS Integers, Sequences, SequencesExt

CONSTANTS
  Byte,        \* the bytes that can be typed
  NL, CR, At,  \* '\n', '\r' and '@' among them
  MaxLine,     \* BUFF_SIZE - 1
  MaxChunk,    \* sizeof(chunk)
  MaxInput     \* bound: bytes typed

ASSUME InputAssumption ==
  /\ {NL, CR, At} \subseteq Byte
  /\ {MaxLine, MaxChunk, MaxInput} \subseteq Nat \ {0}

VARIABLES
  input,       \* all that is ever typed, then the keyboard is closed
  consumed,    \* how many bytes of it have been read
  inbuf,       \* the line being collected, inlen bytes long
  discarding,  \* the rest of the line is being dropped
  sent,        \* the datagrams sent
  over         \* the client has left

vars == <<input, consumed, inbuf, discarding, sent, over>>

NotBreak(b) == b \notin {NL, CR}

strip_newline(line) ==
  SubSeq(line, 1, SelectLastInSeq(line, NotBreak))

is_exit_token(line) == line = <<At>>

(* What the loop does to a byte, in the state st of its variables. *)
Keep(st, b) ==
  IF st.discarding THEN st
  ELSE IF Len(st.inbuf) < MaxLine
    THEN [st EXCEPT !.inbuf = Append(@, b)]
    ELSE [st EXCEPT !.discarding = TRUE, !.inbuf = <<>>]

EndLine(st) ==
  LET line == strip_newline(st.inbuf)
      next == [st EXCEPT !.discarding = FALSE, !.inbuf = <<>>]
  IN  IF st.discarding \/ line = <<>> THEN next
      ELSE [next EXCEPT !.sent = Append(@, line), !.over = is_exit_token(line)]

Loop(st, b) ==
  IF st.over THEN st ELSE IF b = NL THEN EndLine(st) ELSE Keep(st, b)

(* read() returns the next n bytes. *)
Chunk(n) == SubSeq(input, consumed + 1, consumed + n)

(* The loop over the bytes s of a chunk. *)
After(st, s) ==
  LET run[i \in 0..Len(s)] == IF i = 0 THEN st ELSE Loop(run[i - 1], s[i])
  IN  run[Len(s)]

(* Mutant: a chunk begins a line of its own. *)
BeginAfresh(n) ==
  After([inbuf |-> <<>>, discarding |-> FALSE, sent |-> sent, over |-> over],
        Chunk(n))

AfterChunk(n) ==
  After([inbuf |-> inbuf, discarding |-> discarding, sent |-> sent, over |-> over],
        Chunk(n))

Read(n) ==
  /\ ~over
  /\ consumed + n <= Len(input)
  /\ consumed' = consumed + n
  /\ inbuf' = AfterChunk(n).inbuf
  /\ discarding' = AfterChunk(n).discarding
  /\ sent' = AfterChunk(n).sent
  /\ over' = AfterChunk(n).over
  /\ UNCHANGED input

(* read() returns 0. *)
Eof ==
  /\ ~over
  /\ consumed = Len(input)
  /\ sent' = Append(sent, <<At>>)
  /\ over' = TRUE
  /\ UNCHANGED <<input, consumed, inbuf, discarding>>

Init ==
  /\ input \in BoundedSeq(Byte, MaxInput)
  /\ consumed = 0
  /\ inbuf = <<>>
  /\ discarding = FALSE
  /\ sent = <<>>
  /\ over = FALSE

Next == Eof \/ \E n \in 1..MaxChunk : Read(n)

Spec == Init /\ [][Next]_vars

-------------------------------------------------------------------------------
(* The lines of a text by the positions of its line breaks.                *)

Breaks(text) == {i \in 1..Len(text) : text[i] = NL}

(* The bytes between the break before position i and position i. *)
LineEnding(text, i) ==
  LET before == {j \in Breaks(text) : j < i} \cup {0}
      start == CHOOSE j \in before : \A k \in before : k <= j
  IN  SubSeq(text, start + 1, i - 1)

(* The lines worth sending: not too long, and not blank. *)
Sendable(text, i) ==
  /\ Len(LineEnding(text, i)) <= MaxLine
  /\ strip_newline(LineEnding(text, i)) # <<>>

Ends(text) == {i \in Breaks(text) : Sendable(text, i)}

(* The member of a set of numbers that n members do not exceed. *)
Nth(S, n) == CHOOSE i \in S : Cardinality({j \in S : j <= i}) = n

AllLines(text) ==
  [n \in 1..Cardinality(Ends(text)) |->
     strip_newline(LineEnding(text, Nth(Ends(text), n)))]

(* The lines up to the first exit token, which is sent too. *)
UpToExit(s) ==
  LET exits == {n \in 1..Len(s) : is_exit_token(s[n])}
  IN  IF exits = {} THEN s ELSE SubSeq(s, 1, Min(exits))

(* However the typed bytes are cut into chunks, the client has sent the    *)
(* lines that are complete, in order, up to the exit token, then the token *)
(* that stands for the end of the input; only lines longer than the buffer *)
(* and blank ones are dropped, and whole.                                  *)
SentIsTyped ==
  LET due == UpToExit(AllLines(SubSeq(input, 1, consumed)))
  IN  sent = IF over /\ ~(due # <<>> /\ is_exit_token(Last(due)))
               THEN Append(due, <<At>>) ELSE due
================================================================================
