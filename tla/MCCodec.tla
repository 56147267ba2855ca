------------------------------ MODULE MCCodec ------------------------------
(* Small inputs for Codec, and its properties.                             *)
EXTENDS Codec

MCNum == "0" :> 0 @@ "1" :> 1 @@ "2" :> 2 @@ "3" :> 3 @@ "4" :> 4 @@ "9" :> 9 @@ "16" :> 16 @@ "-1" :> -1
Put(size) == <<"put", "0", "1", "3", size>>
EOL == <<"CR", "LF">>

\* Lines and bodies, well formed and not: what a client may send next. The
\* bodies hold line ends and command words of their own.
Pieces ==
  { Put("0") \o EOL, Put("2") \o EOL, Put("3") \o EOL, Put("2") \o <<"j">> \o EOL,
    Put("9") \o EOL, Put("4") \o <<"j">> \o EOL, EOL, <<"quit", "CR", "LF">> \o EOL, <<"CR", "quit", "LF">>,
    <<"j", "j", "j", "j", "j", "j">>, <<"LF", "CR", "CR", "LF">>,
    <<"auth", "t", "CR", "LF">> }

\* One line for each way to use or misuse the grammar.
Lines ==
  { <<op>> \o a \o EOL : op \in DOMAIN Args \cup {"auth", "j"},
      a \in { <<>>, <<"2">>, <<"3">>, <<"4">>, <<"-1">>, <<"t">>, <<"-t">>, <<"1", "j">>,
              <<"t", "2">>, <<"-t", "1">>, <<"16">>, <<"9", "2", "3">>,
              <<"9", "2">>, <<"1", "NUL">> } }

MCStreams == { a \o b \o c : a, b \in Pieces, c \in {<<"j", "j", "CR", "LF">>, Put("0") \o EOL} }
             \cup Lines

Quiet == DecodeCall(src, state).frame = None

\* What is decoded does not depend on how the bytes arrived: however the input
\* was cut into reads, the frames are those of the whole input, also around
\* line overflows, half-received line ends and discarded bodies.
ArrivalIndependent ==
  Quiet => frames = DecodeAll(SubSeq(stream, 1, arrived), Line(FALSE))

\* The contract of Frame::PutStarted: it is followed by exactly one completion
\* frame of its kind before any other frame, and no put completes without it.
Completes(f, g) ==
  \/ ~f.too_big /\ g.frame = "Command" /\ g.op = "put"
  \/ ~f.too_big /\ g = [frame |-> "PutRejected", why |-> "ExpectedCrlf"]
  \/ f.too_big /\ g = [frame |-> "PutRejected", why |-> "JobTooBig"]
IsCompletion(g) ==
  \/ g.frame = "Command" /\ g.op = "put"
  \/ g.frame = "PutRejected" /\ g.why # "TrailingGarbage"
PutCompletes ==
  /\ \A i \in DOMAIN frames :
       (frames[i].frame = "PutStarted" /\ i < Len(frames)) => Completes(frames[i], frames[i + 1])
  /\ \A i \in DOMAIN frames :
       IsCompletion(frames[i]) => i > 1 /\ frames[i - 1].frame = "PutStarted"

\* The read buffer stays bounded however much the client sends: a decoder that
\* waits for more input holds less than one line, or less than one body.
BufferBounded ==
  LET out == DecodeCall(src, state)
  IN  out.frame = None => Len(out.src) < Max({LINE_BUF_SIZE, max_job_size + 2})
=============================================================================
