------------------------------- MODULE Codec -------------------------------
(***************************************************************************)
(* The server's framing and command-line grammar (crates/proto codec.rs    *)
(* and parse.rs). The input is a sequence of symbols, each standing for    *)
(* the bytes of one command word, one argument or one byte of a body; the  *)
(* line limit LINE_BUF_SIZE counts symbols. It arrives in pieces of any    *)
(* length, and `decode` is called after each.                              *)
(***************************************************************************)
EXTENDS Integers, Sequences, SequencesExt, FiniteSets, FiniteSetsExt

CONSTANTS
  LINE_BUF_SIZE,    \* the longest line, CR LF included
  max_job_size,     \* the largest body
  MaxU32,           \* the largest value of a 32-bit field
  MaxU64,           \* the largest value of a 64-bit field
  recognize_auth,   \* whether `auth` lines are frames of their own
  Num,              \* the numerals, with their values
  Streams           \* the inputs

VARIABLES
  stream,           \* what the client sends
  arrived,          \* how much of it has arrived
  src,              \* the read buffer
  state,            \* the decoder's state
  frames            \* the frames decoded so far

vars == <<stream, arrived, src, state, frames>>

-----------------------------------------------------------------------------
(* The grammar of a line: which_cmd and parse_line_raw.                    *)

\* The arguments of each command word, in order.
Args ==
  [op \in {"peek-ready", "peek-delayed", "peek-buried", "reserve", "stats",
           "list-tubes-watched", "list-tube-used", "list-tubes", "quit"} |-> <<>>]
  @@ [op \in {"peek", "reserve-job", "delete", "kick-job", "touch", "stats-job"} |-> <<"u64">>]
  @@ [op \in {"stats-tube", "use", "watch", "ignore"} |-> <<"tube">>]
  @@ [op \in {"put"} |-> <<"u32", "u32", "u32", "u32">>]
  @@ [op \in {"reserve-with-timeout"} |-> <<"u32">>]
  @@ [op \in {"release"} |-> <<"u64", "u32", "u32">>]
  @@ [op \in {"bury"} |-> <<"u64", "u32">>]
  @@ [op \in {"kick"} |-> <<"long">>]
  @@ [op \in {"pause-tube"} |-> <<"span", "u32">>]

\* The commands after whose arguments anything may follow; a put answers for
\* it later, in decode.
TrailingAllowed == {"put", "reserve-with-timeout", "kick", "quit"}

\* Names are "t" and, when not a valid tube name, "-t".
IsNum(x, range) == x \in DOMAIN Num /\ Num[x] \in range
Valid(kind, x) ==
  CASE kind = "u32"  -> IsNum(x, 0 .. MaxU32)
    [] kind = "u64"  -> IsNum(x, 0 .. MaxU64)
    [] kind = "long" -> IsNum(x, -MaxU64 .. MaxU64)
    [] kind = "tube" -> x = "t"
    [] kind = "span" -> x \in {"t", "-t"}

\* kick's strtoul: a sign is accepted and the value is truncated.
Value(kind, x) == IF kind = "long" THEN Num[x] % (MaxU32 + 1) ELSE Num[x]

Err(why) == [frame |-> "Error", why |-> why]
Cmd(op, args) == [frame |-> "Command", op |-> op, args |-> args]

\* A reserve's timeout is at most the largest signed value.
TimeoutFits(op, args) == op = "reserve-with-timeout" => Num[args[1]] <= MaxU32 \div 2

parse_line_raw(line) ==
  IF Contains(line, "NUL") THEN Err("BadFormat")
  ELSE IF line = <<>> \/ line[1] \notin DOMAIN Args THEN Err("UnknownCommand")
  ELSE LET op == line[1]
           kinds == Args[op]
           given == Tail(line)
       IN  IF \/ Len(given) < Len(kinds)
              \/ \E k \in DOMAIN kinds : ~Valid(kinds[k], given[k])
              \/ ~TimeoutFits(op, given)
              \/ Len(given) > Len(kinds) /\ op \notin TrailingAllowed
           THEN Err("BadFormat")
           ELSE IF op = "pause-tube" /\ given[1] # "t" THEN Cmd("pause-tube-bad-name", <<>>)
           ELSE IF op = "put" THEN [frame |-> "Put", size |-> Num[given[4]],
                                    trailing_garbage |-> Len(given) > 4]
           ELSE Cmd(op, [k \in DOMAIN kinds |->
                           IF kinds[k] = "tube" \/ kinds[k] = "span" THEN given[k]
                           ELSE Value(kinds[k], given[k])])

-----------------------------------------------------------------------------
(* Framing: one call of decode.                                            *)

scan_line_end_unlimited(buf) ==
  LET cr == {i \in 1 .. Len(buf) - 1 : buf[i] = "CR"}
  IN  IF cr # {} /\ buf[Min(cr) + 1] = "LF" THEN [scan |-> "Found", len |-> Min(cr) - 1]
      ELSE [scan |-> "Incomplete", len |-> 0]
\* The first CR of the window ends the line if LF follows it; a later CR LF
\* does not count.
scan_line_end(buf) ==
  LET len == Min({Len(buf), LINE_BUF_SIZE})
      cr == {i \in 1 .. len - 1 : buf[i] = "CR"}
  IN  IF cr # {} /\ buf[Min(cr) + 1] = "LF" THEN [scan |-> "Found", len |-> Min(cr) - 1]
      ELSE [scan |-> IF len = LINE_BUF_SIZE THEN "Overflow" ELSE "Incomplete", len |-> 0]

Line(overflowed) == [at |-> "Line", overflowed |-> overflowed]
PutBody(size) == [at |-> "PutBody", size |-> size]
Discard(remaining) == [at |-> "Discard", remaining |-> remaining]

None == [frame |-> "None"]
Out(buf, st, frame) == [src |-> buf, state |-> st, frame |-> frame]

\* A complete line.
DecodeLine(line, rest, overflowed) ==
  IF overflowed THEN Out(rest, Line(FALSE), Err("BadFormat"))
  ELSE IF recognize_auth /\ Len(line) = 2 /\ line[1] = "auth"
       THEN Out(rest, Line(FALSE), [frame |-> "Auth", token |-> line[2]])
  ELSE LET p == parse_line_raw(line) IN
       IF p.frame # "Put" THEN Out(rest, Line(FALSE), p)
       ELSE IF p.size > max_job_size
            THEN Out(rest, Discard(p.size + 2), [frame |-> "PutStarted", too_big |-> TRUE])
       ELSE IF p.trailing_garbage
            THEN Out(rest, Line(FALSE), [frame |-> "PutRejected", why |-> "TrailingGarbage"])
       ELSE Out(rest, PutBody(p.size), [frame |-> "PutStarted", too_big |-> FALSE])

DecodeBodyError(buf, size) ==
  IF Len(buf) < size + 2 THEN Out(buf, PutBody(size), None)
  ELSE Out(SubSeq(buf, size + 3, Len(buf)), Line(FALSE),
           IF buf[size + 1] = "CR" /\ buf[size + 2] = "LF"
           THEN Cmd("put", SubSeq(buf, 1, size)) ELSE Err("ExpectedCrlf"))
\* A body, complete or not.
DecodeBody(buf, size) ==
  IF Len(buf) < size + 2 THEN Out(buf, PutBody(size), None)
  ELSE Out(SubSeq(buf, size + 3, Len(buf)), Line(FALSE),
           IF buf[size + 1] = "CR" /\ buf[size + 2] = "LF"
           THEN Cmd("put", SubSeq(buf, 1, size))
           ELSE [frame |-> "PutRejected", why |-> "ExpectedCrlf"])

\* An oversized body is thrown away as it arrives.
DecodeDiscardAgain(buf, remaining) ==
  LET take == Min({remaining, Len(buf)})
      rest == SubSeq(buf, take + 1, Len(buf))
  IN  IF take < remaining THEN Out(rest, Discard(remaining), None)
      ELSE Out(rest, Line(FALSE), [frame |-> "PutRejected", why |-> "JobTooBig"])
DecodeDiscard(buf, remaining) ==
  LET take == Min({remaining, Len(buf)})
      rest == SubSeq(buf, take + 1, Len(buf))
  IN  IF take < remaining THEN Out(rest, Discard(remaining - take), None)
      ELSE Out(rest, Line(FALSE), [frame |-> "PutRejected", why |-> "JobTooBig"])

RECURSIVE DecodeCall(_, _)
DecodeCall(buf, st) ==
  CASE st.at = "Line" ->
         (LET end == scan_line_end(buf) IN
         CASE end.scan = "Incomplete" -> Out(buf, st, None)
           [] end.scan = "Overflow" ->
                DecodeCall(SubSeq(buf, LINE_BUF_SIZE + 1, Len(buf)), Line(TRUE))
           [] end.scan = "Found" ->
                DecodeLine(SubSeq(buf, 1, end.len), SubSeq(buf, end.len + 3, Len(buf)),
                           st.overflowed))
    [] st.at = "PutBody" -> DecodeBody(buf, st.size)
    [] st.at = "Discard" -> DecodeDiscard(buf, st.remaining)

\* Every frame of an input that is there from the start.
RECURSIVE DecodeAll(_, _)
DecodeAll(buf, st) ==
  LET out == DecodeCall(buf, st)
  IN  IF out.frame = None THEN <<>> ELSE <<out.frame>> \o DecodeAll(out.src, out.state)

-----------------------------------------------------------------------------
Arrive ==
  \E n \in 1 .. Len(stream) - arrived :
    /\ src' = src \o SubSeq(stream, arrived + 1, arrived + n)
    /\ arrived' = arrived + n
    /\ UNCHANGED <<stream, state, frames>>

decode ==
  /\ \E out \in {DecodeCall(src, state)} :
       /\ src' = out.src /\ state' = out.state
       /\ frames' = IF out.frame = None THEN frames ELSE Append(frames, out.frame)
  /\ UNCHANGED <<stream, arrived>>

Init == /\ stream \in Streams /\ arrived = 0
        /\ src = <<>> /\ state = Line(FALSE) /\ frames = <<>>
Next == Arrive \/ decode
Spec == Init /\ [][Next]_vars
=============================================================================
