--------------------------- MODULE RttRelay_proofs ---------------------------
(***************************************************************************)
(* Proofs of what RttRelay.tla states, for any worlds, any sizes of the    *)
(* channel, of the pipe and of the relay's buffers, and any division of    *)
(* the streams into reads and writes.                                      *)
(***************************************************************************)
EXTENDS RttRelay, SequenceTheorems, TLAPS

Starting == Connecting \cup {"grace", "terminal"}
Handling == {"stdin", "send", "stdout", "recv"}
Bytes    == Seq(Nat)

\* Two buffers in a row, and the four that a direction consists of.
Pair(a, b) == a \o b
Line(a, b, c, d) == Pair(Pair(Pair(a, b), c), d)

Typed ==
  /\ RelayTypeOK
  /\ relay \in [open : BOOLEAN, in : Bytes, out : Bytes, initial : Bytes]
  /\ channel \in [up : BOOLEAN, to : Bytes, from : Bytes]
  /\ stdin \in [bytes : Bytes, ended : BOOLEAN]
  /\ history \in [output : Nat, typed : Nat, printed : Nat, shown : Bytes, heard : Bytes]

\* Nothing was relayed before the relay runs, so a connection that is tried
\* anew has lost nothing; only the first read is held apart, until it runs.
Fresher ==
  /\ at \in Starting => relay.out = << >> /\ relay.in = << >> /\ channel.to = << >>
                          /\ history.heard = << >>
  /\ at \in Connecting => channel.from = << >>
  /\ at # "terminal" => relay.initial = << >>

\* The wait that lets the channel be read found no output pending, and no
\* handler that runs before that read adds any.
Handled == at \in Handling =>
  /\ at \in ready
  /\ "recv" \in ready => relay.out = << >>

\* What is not put back yet, and what cannot be, is known to the client.
Ending ==
  /\ at \in Starting => tty = "cooked"
  /\ at \notin {"close", "done"} => tty # "broken" /\ socket # "stuck"
  /\ at \in {"close", "done"} => tty # "raw"
  /\ tty = "broken" \/ socket = "stuck" => outcome = "error"
  /\ at = "done" => socket # "open"

\* StreamsAreWhole, with its parts named.
Bounded == Len(relay.in) <= MaxPending /\ Len(Pair(relay.out, relay.initial)) <= Chunk
InputFlows ==
  Line(history.heard, channel.to, relay.in, stdin.bytes) = Numbers(history.typed)
OutputFlows ==
  Line(history.shown, relay.out, relay.initial, channel.from) = Numbers(history.output)
Flows ==
  /\ Bounded /\ InputFlows
  /\ IF Relaying THEN OutputFlows
     ELSE \E n \in 0 .. history.output : history.shown = Numbers(n)

RelayInv == Typed /\ Fresher /\ Handled /\ Ending /\ Flows

----------------------------------------------------------------------------
\* Sequences of bytes.

LEMMA Joined ==
  ASSUME NEW a \in Bytes, NEW b \in Bytes
  PROVE  Pair(a, b) \in Bytes /\ Len(Pair(a, b)) = Len(a) + Len(b)
BY ConcatProperties DEF Bytes, Pair

LEMMA Regrouped ==
  ASSUME NEW a \in Bytes, NEW b \in Bytes, NEW c \in Bytes
  PROVE  Pair(Pair(a, b), c) = Pair(a, Pair(b, c))
<1>1. ASSUME NEW S, NEW x \in Seq(S), NEW y \in Seq(S), NEW z \in Seq(S)
      PROVE  Pair(Pair(x, y), z) = Pair(x, Pair(y, z))
  BY ConcatAssociative DEF Pair
<1>2. QED  BY <1>1 DEF Bytes

LEMMA Alone ==
  ASSUME NEW a \in Bytes PROVE << >> \in Bytes /\ Pair(a, << >>) = a /\ Pair(<< >>, a) = a
BY ConcatEmptySeq, EmptySeq DEF Bytes, Pair

LEMMA Parted ==
  ASSUME NEW s \in Bytes, NEW n \in 0 .. Len(s)
  PROVE  /\ Take(n, s) \in Bytes /\ Drop(n, s) \in Bytes
         /\ Pair(Take(n, s), Drop(n, s)) = s
         /\ Len(Take(n, s)) = n /\ Len(Drop(n, s)) = Len(s) - n
         /\ n = Len(s) => Drop(n, s) = << >>
<1>1. Len(s) \in Nat /\ \A i \in 1 .. Len(s) : s[i] \in Nat
  BY LenProperties, ElementOfSeq DEF Bytes
<1>2. /\ Take(n, s) \in Bytes /\ Len(Take(n, s)) = n
  BY <1>1, SubSeqProperties DEF Take, Bytes
<1>3. /\ Drop(n, s) \in Bytes /\ Len(Drop(n, s)) = Len(s) - n
  <2>1. \A i \in n + 1 .. Len(s) : s[i] \in Nat
    BY <1>1
  <2>2. QED  BY <1>1, <2>1, SubSeqProperties DEF Drop, Bytes
<1>4. SubSeq(s, 1, n) \o SubSeq(s, n + 1, Len(s)) = SubSeq(s, 1, Len(s))
  <2>1. 1 \in 1 .. Len(s) + 1 /\ n \in 1 - 1 .. Len(s) /\ Len(s) \in n .. Len(s)
    BY <1>1
  <2>2. QED  BY <2>1, ConcatAdjacentSubSeq, Zenon DEF Bytes
<1>5. SubSeq(s, 1, Len(s)) = s
  BY SubSeqFull DEF Bytes
<1>6. n = Len(s) => Drop(n, s) = << >>
  BY <1>1, SubSeqEmpty DEF Drop
<1>7. QED  BY <1>2, <1>3, <1>4, <1>5, <1>6 DEF Pair, Take, Drop

LEMMA Numbered ==
  ASSUME NEW n \in Nat
  PROVE  /\ Numbers(n) \in Bytes /\ Len(Numbers(n)) = n
         /\ Numbers(n + 1) = Append(Numbers(n), n + 1)
<1>1. Numbers(n) \in Bytes /\ Len(Numbers(n)) = n
  BY DEF Numbers, Bytes
<1>2. Numbers(n + 1) \in Bytes /\ Len(Numbers(n + 1)) = n + 1
  BY DEF Numbers, Bytes
<1>3. /\ Append(Numbers(n), n + 1) \in Bytes /\ Len(Append(Numbers(n), n + 1)) = n + 1
      /\ \A i \in 1 .. n + 1 : Append(Numbers(n), n + 1)[i] = i
  BY <1>1 DEF Numbers, Bytes
<1>4. \A i \in 1 .. n + 1 : Numbers(n + 1)[i] = Append(Numbers(n), n + 1)[i]
  BY <1>3 DEF Numbers
<1>5. QED  BY <1>1, <1>2, <1>3, <1>4, SeqEqual DEF Bytes

LEMMA NumbersBegin ==
  ASSUME NEW s \in Bytes, NEW t \in Bytes, NEW n \in Nat, Pair(s, t) = Numbers(n)
  PROVE  \E k \in 0 .. n : s = Numbers(k)
<1>1. /\ Len(s) \in Nat /\ Len(t) \in Nat /\ Len(s) + Len(t) = n
      /\ \A i \in 1 .. Len(s) : (s \o t)[i] = s[i]
  <2>1. Len(s) \in Nat /\ Len(t) \in Nat
    BY LenProperties DEF Bytes
  <2>2. /\ Len(s \o t) = Len(s) + Len(t)
        /\ \A i \in 1 .. Len(s) + Len(t) : (s \o t)[i] = IF i <= Len(s) THEN s[i] ELSE t[i - Len(s)]
    BY ConcatProperties, Zenon DEF Bytes
  <2>3. s \o t = Numbers(n) /\ Len(s \o t) = n
    BY Numbered DEF Pair
  <2>4. Len(s) + Len(t) = n
    BY <2>2, <2>3
  <2>5. \A i \in 1 .. Len(s) : i \in 1 .. Len(s) + Len(t) /\ i <= Len(s)
    BY <2>1
  <2>6. QED  BY <2>1, <2>2, <2>4, <2>5
<1>2. \A i \in 1 .. Len(s) : s[i] = i
  <2>1. \A i \in 1 .. n : Numbers(n)[i] = i
    BY DEF Numbers
  <2>2. s \o t = Numbers(n)
    BY DEF Pair
  <2>3. QED  BY <1>1, <2>1, <2>2
<1>3. \A i \in 1 .. Len(s) : s[i] = Numbers(Len(s))[i]
  BY <1>2 DEF Numbers
<1>4. s = Numbers(Len(s))
  BY <1>1, <1>3, Numbered, SeqEqual DEF Bytes
<1>5. QED  BY <1>1, <1>4

LEMMA Ended ==
  ASSUME NEW s \in Bytes, NEW e \in Nat
  PROVE  <<e>> \in Bytes /\ Append(s, e) \in Bytes /\ Append(s, e) = Pair(s, <<e>>)
<1>1. <<e>> \in Bytes /\ Len(<<e>>) = 1 /\ <<e>>[1] = e
  BY DEF Bytes
<1>2. /\ Append(s, e) \in Bytes /\ Len(Append(s, e)) = Len(s) + 1
      /\ \A i \in 1 .. Len(s) + 1 : Append(s, e)[i] = IF i <= Len(s) THEN s[i] ELSE e
  BY DEF Bytes
<1>3. /\ s \o <<e>> \in Bytes /\ Len(s \o <<e>>) = Len(s) + 1
      /\ \A i \in 1 .. Len(s) + 1 : (s \o <<e>>)[i] = IF i <= Len(s) THEN s[i] ELSE <<e>>[i - Len(s)]
  BY <1>1, ConcatProperties DEF Bytes
<1>4. \A i \in 1 .. Len(s) + 1 : Append(s, e)[i] = (s \o <<e>>)[i]
  <2>1. Len(s) \in Nat
    BY LenProperties DEF Bytes
  <2>2. QED  BY <1>1, <1>2, <1>3, <2>1
<1>5. QED  BY <1>1, <1>2, <1>3, <1>4, SeqEqual DEF Bytes, Pair

LEMMA Begun ==
  ASSUME NEW s \in Bytes, s # << >>
  PROVE  /\ Head(s) \in Nat /\ Tail(s) \in Bytes /\ s = Pair(<<Head(s)>>, Tail(s))
<1>1. Head(s) \in Nat /\ Tail(s) \in Bytes /\ Tail(s) = SubSeq(s, 2, Len(s))
  BY HeadTailProperties, TailIsSubSeq DEF Bytes
<1>2. Len(s) \in Nat \ {0}
  BY EmptySeq DEF Bytes
<1>3. SubSeq(s, 1, Len(s)) = <<s[1]>> \o SubSeq(s, 1 + 1, Len(s))
  BY <1>2, SubSeqRecursiveFirst DEF Bytes
<1>4. SubSeq(s, 1, Len(s)) = s /\ Head(s) = s[1]
  BY <1>2, SubSeqFull DEF Bytes
<1>5. QED  BY <1>1, <1>3, <1>4 DEF Pair

\* Bytes move from a buffer to the one before it.
LEMMA MovedToFirst ==
  ASSUME NEW a \in Bytes, NEW b \in Bytes, NEW c \in Bytes, NEW d \in Bytes, NEW n \in 0 .. Len(b)
  PROVE  Line(Pair(a, Take(n, b)), Drop(n, b), c, d) = Line(a, b, c, d)
<1>1. Take(n, b) \in Bytes /\ Drop(n, b) \in Bytes /\ Pair(Take(n, b), Drop(n, b)) = b
  BY Parted
<1>2. QED  BY <1>1, Regrouped DEF Line

LEMMA MovedToSecond ==
  ASSUME NEW a \in Bytes, NEW b \in Bytes, NEW c \in Bytes, NEW d \in Bytes, NEW n \in 0 .. Len(c)
  PROVE  Line(a, Pair(b, Take(n, c)), Drop(n, c), d) = Line(a, b, c, d)
<1>1. Take(n, c) \in Bytes /\ Drop(n, c) \in Bytes /\ Pair(Take(n, c), Drop(n, c)) = c
  BY Parted
<1>2. Pair(a, b) \in Bytes
  BY Joined
<1>3. QED  BY <1>1, <1>2, Regrouped DEF Line

LEMMA MovedToThird ==
  ASSUME NEW a \in Bytes, NEW b \in Bytes, NEW c \in Bytes, NEW d \in Bytes, NEW n \in 0 .. Len(d)
  PROVE  Line(a, b, Pair(c, Take(n, d)), Drop(n, d)) = Line(a, b, c, d)
<1>1. Take(n, d) \in Bytes /\ Drop(n, d) \in Bytes /\ Pair(Take(n, d), Drop(n, d)) = d
  BY Parted
<1>2. Pair(a, b) \in Bytes /\ Pair(Pair(a, b), c) \in Bytes
  BY Joined
<1>3. QED  BY <1>1, <1>2, Regrouped DEF Line

\* The second buffer takes the third whole.
LEMMA MovedWhole ==
  ASSUME NEW a \in Bytes, NEW b \in Bytes, NEW c \in Bytes, NEW d \in Bytes
  PROVE  Line(a, Pair(b, c), << >>, d) = Line(a, b, c, d)
<1>1. Pair(b, c) \in Bytes /\ Pair(a, Pair(b, c)) \in Bytes
  BY Joined
<1>2. Pair(Pair(a, b), c) = Pair(a, Pair(b, c))
  BY Regrouped
<1>3. QED  BY <1>1, <1>2, Alone DEF Line

\* A byte comes to the last buffer, or goes from the second to the first.
LEMMA Extended ==
  ASSUME NEW a \in Bytes, NEW b \in Bytes, NEW c \in Bytes, NEW d \in Bytes, NEW n \in Nat,
         Line(a, b, c, d) = Numbers(n)
  PROVE  Line(a, b, c, Append(d, n + 1)) = Numbers(n + 1)
<1>1. Pair(Pair(a, b), c) \in Bytes /\ Line(a, b, c, d) \in Bytes
  BY Joined DEF Line
<1>2. PICK e \in Nat : e = n + 1
  OBVIOUS
<1>3. /\ <<e>> \in Bytes /\ Append(d, e) = Pair(d, <<e>>)
      /\ Append(Line(a, b, c, d), e) = Pair(Line(a, b, c, d), <<e>>)
  BY <1>1, <1>2, Ended
<1>4. Numbers(e) = Pair(Line(a, b, c, d), <<e>>)
  BY <1>2, <1>3, Numbered
<1>5. Pair(Line(a, b, c, d), <<e>>) = Line(a, b, c, Pair(d, <<e>>))
  BY <1>1, <1>3, Regrouped DEF Line
<1>6. QED  BY <1>2, <1>3, <1>4, <1>5

LEMMA Arrived ==
  ASSUME NEW a \in Bytes, NEW b \in Bytes, NEW c \in Bytes, NEW d \in Bytes, b # << >>
  PROVE  Line(Append(a, Head(b)), Tail(b), c, d) = Line(a, b, c, d)
<1>1. Head(b) \in Nat /\ Tail(b) \in Bytes /\ b = Pair(<<Head(b)>>, Tail(b))
  BY Begun
<1>2. <<Head(b)>> \in Bytes /\ Append(a, Head(b)) = Pair(a, <<Head(b)>>)
  BY <1>1, Ended
<1>3. Pair(a, Pair(<<Head(b)>>, Tail(b))) = Pair(Pair(a, <<Head(b)>>), Tail(b))
  BY <1>1, <1>2, Regrouped
<1>4. QED  BY <1>1, <1>2, <1>3 DEF Line

LEMMA OutputBegins ==
  ASSUME NEW a \in Bytes, NEW b \in Bytes, NEW c \in Bytes, NEW d \in Bytes, NEW n \in Nat,
         Line(a, b, c, d) = Numbers(n)
  PROVE  \E k \in 0 .. n : a = Numbers(k)
<1>1. Pair(b, c) \in Bytes /\ Pair(Pair(b, c), d) \in Bytes /\ Pair(a, b) \in Bytes
  BY Joined
<1>2. Line(a, b, c, d) = Pair(a, Pair(Pair(b, c), d))
  BY <1>1, Regrouped DEF Line
<1>3. Pair(a, Pair(Pair(b, c), d)) = Numbers(n)
  BY <1>2
<1>4. QED  BY <1>1, <1>3, NumbersBegin

----------------------------------------------------------------------------
LEMMA StepNames ==
  /\ Steps = Connecting \cup Handling \cup
       {"grace", "terminal", "poll", "wait", "finish", "last write", "restore", "close", "done"}
  /\ Relaying <=> at \in Steps \ {"restore", "close", "done"}
<1>1. {Handlers[i] : i \in 1 .. Len(Handlers)} = Handling
  <2>1. Len(Handlers) = 4 /\ Handlers[1] = "stdin" /\ Handlers[2] = "send"
        /\ Handlers[3] = "stdout" /\ Handlers[4] = "recv"
    BY DEF Handlers
  <2>2. QED  BY <2>1 DEF Handling
<1>2. QED  BY <1>1 DEF Steps, Relaying

LEMMA FollowingIsReady ==
  ASSUME NEW i \in 0 .. 4, NEW ds
  PROVE  Following(i, ds) = "poll" \/ (Following(i, ds) \in Handling /\ Following(i, ds) \in ds)
<1> DEFINE later == {j \in i + 1 .. Len(Handlers) : Handlers[j] \in ds}
<1>1. Len(Handlers) = 4 /\ Handlers[1] = "stdin" /\ Handlers[2] = "send"
      /\ Handlers[3] = "stdout" /\ Handlers[4] = "recv"
  BY DEF Handlers
<1>2. later \subseteq 1 .. 4 /\ \A j \in later : Handlers[j] \in ds /\ Handlers[j] \in Handling
  BY <1>1 DEF Handling
<1>3. CASE later = {}
  BY <1>3 DEF Following
<1>4. CASE later # {}
  <2>1. \E j \in later : \A k \in later : j <= k
    BY <1>2, <1>4
  <2>2. (CHOOSE j \in later : \A k \in later : j <= k) \in later
    BY <2>1
  <2>3. Following(i, ds) = Handlers[CHOOSE j \in later : \A k \in later : j <= k]
    BY <1>4 DEF Following
  <2>4. QED  BY <1>2, <2>2, <2>3
<1>5. QED  BY <1>3, <1>4

\* A step that moves no byte, and may be the last of the relay.
LEMMA StreamsStay ==
  ASSUME Typed, Flows, UNCHANGED <<relay, channel, stdin, history>>, at' \in Steps,
         at \in {"restore", "close", "done"} => at' \in {"restore", "close", "done"}
  PROVE  Flows'
<1>1. /\ history' = history /\ relay' = relay /\ stdin' = stdin /\ channel' = channel
  OBVIOUS
<1>2. CASE Relaying /\ ~Relaying'
  <2>1. OutputFlows
    BY <1>2 DEF Flows
  <2>2. /\ history.shown \in Bytes /\ relay.out \in Bytes /\ relay.initial \in Bytes
        /\ channel.from \in Bytes /\ history.output \in Nat
    BY DEF Typed
  <2>3. \E n \in 0 .. history.output : history.shown = Numbers(n)
    BY <2>1, <2>2, OutputBegins DEF OutputFlows
  <2>4. QED  BY <1>1, <1>2, <2>3 DEF Flows, Bounded, InputFlows
<1>3. CASE Relaying' \/ ~Relaying
  <2>1. Relaying' <=> Relaying
    BY <1>3 DEF Typed, RelayTypeOK, Relaying
  <2>2. QED  BY <1>1, <2>1 DEF Flows, Bounded, InputFlows, OutputFlows
<1>4. QED  BY <1>2, <1>3

LEMMA ConnectKeeps == ASSUME RelayInv, Connect PROVE RelayInv'
<1> USE DEF RelayInv, Connect, outside
<1>1. Typed'
  BY StepNames DEF Typed, RelayTypeOK, Connecting
<1>2. Fresher'
  BY DEF Fresher, Starting, Connecting
<1>3. Handled'
  BY DEF Handled, Handling
<1>4. Ending'
  BY DEF Ending, Starting, Connecting
<1>5. Flows'
  BY StepNames, StreamsStay DEF Connecting
<1>6. QED  BY <1>1, <1>2, <1>3, <1>4, <1>5

LEMMA ConnectedKeeps == ASSUME RelayInv, Connected PROVE RelayInv'
<1> USE DEF RelayInv, Connected, Cancelled, Fails, outside
<1>1. Typed'
  <2>1. RelayTypeOK'
    BY StepNames DEF Typed, RelayTypeOK, Connecting
  <2>2. UNCHANGED <<relay, channel, stdin, history>>
    OBVIOUS
  <2>3. QED  BY <2>1, <2>2 DEF Typed
<1>2. Fresher'
  BY DEF Fresher, Starting, Connecting
<1>3. Handled'
  BY DEF Handled, Handling
<1>4. Ending'
  BY DEF Ending, Starting, Connecting
<1>5. Flows'
  BY StepNames, StreamsStay DEF Connecting
<1>6. QED  BY <1>1, <1>2, <1>3, <1>4, <1>5

LEMMA ReleaseAttemptKeeps == ASSUME RelayInv, ReleaseAttempt PROVE RelayInv'
<1> USE DEF RelayInv, ReleaseAttempt, Fails, outside
<1>1. Typed'
  BY StepNames DEF Typed, RelayTypeOK, Connecting
<1>2. Fresher'
  BY DEF Fresher, Starting, Connecting
<1>3. Handled'
  BY DEF Handled, Handling
<1>4. Ending'
  BY DEF Ending, Starting, Connecting
<1>5. Flows'
  BY StepNames, StreamsStay DEF Connecting
<1>6. QED  BY <1>1, <1>2, <1>3, <1>4, <1>5

LEMMA RetryKeeps == ASSUME RelayInv, Retry PROVE RelayInv'
<1> USE DEF RelayInv, Retry, Fails, outside
<1>1. Typed'
  BY StepNames DEF Typed, RelayTypeOK, Connecting
<1>2. Fresher'
  BY DEF Fresher, Starting, Connecting
<1>3. Handled'
  BY DEF Handled, Handling
<1>4. Ending'
  BY DEF Ending, Starting, Connecting
<1>5. Flows'
  BY StepNames, StreamsStay DEF Connecting
<1>6. QED  BY <1>1, <1>2, <1>3, <1>4, <1>5

LEMMA PollSessionKeeps == ASSUME RelayInv, PollSession PROVE RelayInv'
<1> USE DEF RelayInv, PollSession, Fails, outside
<1>1. Typed'
  BY StepNames DEF Typed, RelayTypeOK
<1>2. Fresher'
  BY DEF Fresher, Typed, Starting, Connecting, RelayTypeOK
<1>3. Handled'
  BY DEF Handled, Handling, Typed, RelayTypeOK
<1>4. Ending'
  BY DEF Ending, Starting, Connecting, Typed, RelayTypeOK
<1>5. Flows'
  BY StepNames, StreamsStay DEF Typed, RelayTypeOK
<1>6. QED  BY <1>1, <1>2, <1>3, <1>4, <1>5

LEMMA WaitKeeps == ASSUME RelayInv, Wait PROVE RelayInv'
<1>1. UNCHANGED <<socket, expired, tty, relay, outside, world>>
  BY DEF Wait
<1>2. at = "wait" /\ at' \in {"restore", "poll"} \cup Handling
  BY FollowingIsReady DEF Wait, Cancelled, Fails
<1>3. at' \in Handling => at' \in ready' /\ ready' \subseteq Selected
  BY FollowingIsReady DEF Wait, Cancelled, Fails, Handling
<1>4. ready' \subseteq Handling /\ outcome' \in {"none", "result", "error"}
  BY DEF Wait, Cancelled, Fails, Selected, Handling, RelayInv, Typed, RelayTypeOK
<1>5. at' \in Steps
  BY <1>2, StepNames
<1>6. Typed'
  BY <1>1, <1>4, <1>5 DEF RelayInv, Typed, RelayTypeOK, outside, Handling
<1>7. Fresher'
  BY <1>1, <1>2 DEF RelayInv, Fresher, Starting, Connecting, Handling
<1>8. Handled'
  <2>1. "recv" \in Selected => relay.out = << >>
    BY DEF Selected
  <2>2. QED  BY <1>1, <1>3, <2>1 DEF Handled
<1>9. Ending'
  BY <1>1, <1>2 DEF RelayInv, Ending, Starting, Connecting, Handling
<1>10. Flows'
  BY <1>1, <1>2, <1>5, StreamsStay DEF RelayInv, outside
<1>11. QED  BY <1>6, <1>7, <1>8, <1>9, <1>10 DEF RelayInv

LEMMA FinishOutputKeeps == ASSUME RelayInv, FinishOutput PROVE RelayInv'
<1> USE DEF RelayInv, FinishOutput, Cancelled, Fails
<1>1. Typed'
  BY StepNames DEF Typed, RelayTypeOK
<1>2. Fresher'
  BY DEF Fresher, Starting, Connecting
<1>3. Handled'
  BY DEF Handled, Handling
<1>4. Ending'
  BY DEF Ending, Starting, Connecting
<1>5. Flows'
  BY StepNames, StreamsStay
<1>6. QED  BY <1>1, <1>2, <1>3, <1>4, <1>5

LEMMA RestoreTerminalKeeps == ASSUME RelayInv, RestoreTerminal PROVE RelayInv'
<1> USE DEF RelayInv, RestoreTerminal, outside
<1>1. Typed'
  BY StepNames DEF Typed, RelayTypeOK
<1>2. Fresher'
  BY DEF Fresher, Starting, Connecting
<1>3. Handled'
  BY DEF Handled, Handling
<1>4. Ending'
  BY DEF Ending, Starting, Connecting
<1>5. Flows'
  BY StepNames, StreamsStay
<1>6. QED  BY <1>1, <1>2, <1>3, <1>4, <1>5

LEMMA CloseSocketKeeps == ASSUME RelayInv, CloseSocket PROVE RelayInv'
<1> USE DEF RelayInv, CloseSocket, outside
<1>1. Typed'
  BY StepNames DEF Typed, RelayTypeOK
<1>2. Fresher'
  BY DEF Fresher, Starting, Connecting
<1>3. Handled'
  BY DEF Handled, Handling
<1>4. Ending'
  BY DEF Ending, Starting, Connecting
<1>5. Flows'
  BY StepNames, StreamsStay
<1>6. QED  BY <1>1, <1>2, <1>3, <1>4, <1>5

LEMMA StartupExpiresKeeps == ASSUME RelayInv, StartupExpires PROVE RelayInv'
<1> USE DEF RelayInv, StartupExpires, outside
<1>1. Typed'
  BY DEF Typed, RelayTypeOK
<1>2. Fresher'
  BY DEF Fresher
<1>3. Handled'
  BY DEF Handled
<1>4. Ending'
  BY DEF Ending
<1>5. Flows'
  BY StepNames, StreamsStay
<1>6. QED  BY <1>1, <1>2, <1>3, <1>4, <1>5

LEMMA ChannelClosesKeeps == ASSUME RelayInv, ChannelCloses PROVE RelayInv'
<1> USE DEF RelayInv, ChannelCloses, local
<1>1. Typed'
  BY DEF Typed, RelayTypeOK
<1>2. Fresher'
  BY DEF Fresher
<1>3. Handled'
  BY DEF Handled
<1>4. Ending'
  BY DEF Ending
<1>5. Flows'
  <2>1. /\ channel'.to = channel.to /\ channel'.from = channel.from
        /\ UNCHANGED <<at, relay, stdin, history>>
    BY DEF Typed
  <2>2. QED  BY <2>1 DEF Flows, Bounded, InputFlows, OutputFlows, Relaying
<1>6. QED  BY <1>1, <1>2, <1>3, <1>4, <1>5

LEMMA TypingEndsKeeps == ASSUME RelayInv, TypingEnds PROVE RelayInv'
<1> USE DEF RelayInv, TypingEnds, local
<1>1. Typed'
  BY DEF Typed, RelayTypeOK
<1>2. Fresher'
  BY DEF Fresher
<1>3. Handled'
  BY DEF Handled
<1>4. Ending'
  BY DEF Ending
<1>5. Flows'
  <2>1. stdin'.bytes = stdin.bytes /\ UNCHANGED <<at, relay, channel, history>>
    BY DEF Typed
  <2>2. QED  BY <2>1 DEF Flows, Bounded, InputFlows, OutputFlows, Relaying
<1>6. QED  BY <1>1, <1>2, <1>3, <1>4, <1>5

LEMMA ConsumerTakesKeeps == ASSUME RelayInv, ConsumerTakes PROVE RelayInv'
<1> USE RelayConstants DEF RelayInv, ConsumerTakes, local
<1>1. Typed'
  <2>1. stdout' \in 0 .. StdoutRoom
    BY DEF Typed, RelayTypeOK
  <2>2. QED  BY <2>1 DEF Typed, RelayTypeOK, Starting, Connecting, Handling
<1>2. Fresher'
  BY DEF Fresher
<1>3. Handled'
  BY DEF Handled
<1>4. Ending'
  BY DEF Ending
<1>5. Flows'
  BY StreamsStay DEF Typed, RelayTypeOK
<1>6. QED  BY <1>1, <1>2, <1>3, <1>4, <1>5

LEMMA PrintsKeeps == ASSUME RelayInv, Prints PROVE RelayInv'
<1> USE RelayConstants DEF RelayInv, Prints, local
<1>1. Typed'
  <2>1. stdout' \in 0 .. StdoutRoom
    BY DEF Typed, RelayTypeOK
  <2>2. QED  BY <2>1 DEF Typed, RelayTypeOK, Starting, Connecting, Handling
<1>2. Fresher'
  BY DEF Fresher
<1>3. Handled'
  BY DEF Handled
<1>4. Ending'
  BY DEF Ending
<1>5. Flows'
  <2>1. /\ history'.output = history.output /\ history'.typed = history.typed
        /\ history'.shown = history.shown /\ history'.heard = history.heard
        /\ UNCHANGED <<at, relay, channel, stdin>>
    BY DEF Typed
  <2>2. QED  BY <2>1 DEF Flows, Bounded, InputFlows, OutputFlows, Relaying
<1>6. QED  BY <1>1, <1>2, <1>3, <1>4, <1>5

LEMMA SessionEndsKeeps == ASSUME RelayInv, SessionEnds PROVE RelayInv'
<1> USE DEF RelayInv, SessionEnds, local
<1>1. Typed'
  BY DEF Typed, RelayTypeOK
<1>2. Fresher'
  BY DEF Fresher
<1>3. Handled'
  BY DEF Handled
<1>4. Ending'
  BY DEF Ending
<1>5. Flows'
  BY StreamsStay DEF Typed, RelayTypeOK
<1>6. QED  BY <1>1, <1>2, <1>3, <1>4, <1>5

LEMMA CtrlCKeeps == ASSUME RelayInv, CtrlC PROVE RelayInv'
<1> USE DEF RelayInv, CtrlC, local
<1>1. Typed'
  BY DEF Typed, RelayTypeOK
<1>2. Fresher'
  BY DEF Fresher
<1>3. Handled'
  BY DEF Handled
<1>4. Ending'
  BY DEF Ending
<1>5. Flows'
  BY StreamsStay DEF Typed, RelayTypeOK
<1>6. QED  BY <1>1, <1>2, <1>3, <1>4, <1>5

----------------------------------------------------------------------------
\* The steps that move bytes.

LEMMA Streams ==
  ASSUME RelayInv
  PROVE  /\ history.shown \in Bytes /\ history.heard \in Bytes
         /\ relay.in \in Bytes /\ relay.out \in Bytes /\ relay.initial \in Bytes
         /\ channel.to \in Bytes /\ channel.from \in Bytes /\ stdin.bytes \in Bytes
BY DEF RelayInv, Typed

LEMMA Sizes ==
  ASSUME RelayInv
  PROVE  /\ Len(relay.in) \in Nat /\ Len(relay.out) \in Nat
         /\ Len(channel.to) \in Nat /\ Len(channel.from) \in Nat /\ Len(stdin.bytes) \in Nat
         /\ history.output \in Nat /\ history.typed \in Nat /\ stdout \in Nat
         /\ Len(relay.in) <= MaxPending
         /\ Chunk \in Nat \ {0} /\ PipeBuf \in Nat \ {0} /\ Chunk <= PipeBuf
         /\ MaxPending \in Nat /\ StdoutRoom \in Nat /\ ChannelRoom \in Nat
<1>1. /\ Len(relay.in) \in Nat /\ Len(relay.out) \in Nat
      /\ Len(channel.to) \in Nat /\ Len(channel.from) \in Nat /\ Len(stdin.bytes) \in Nat
  BY Streams, LenProperties DEF Bytes
<1>2. /\ Chunk \in Nat \ {0} /\ PipeBuf \in Nat \ {0} /\ Chunk <= PipeBuf
      /\ MaxPending \in Nat /\ StdoutRoom \in Nat /\ ChannelRoom \in Nat
  BY RelayConstants
<1>3. stdout \in Nat /\ Len(relay.in) <= MaxPending
  BY <1>2 DEF RelayInv, Typed, RelayTypeOK, Flows, Bounded
<1>4. history.output \in Nat /\ history.typed \in Nat
  BY DEF RelayInv, Typed
<1>5. QED  BY <1>1, <1>2, <1>3, <1>4

LEMMA AtMost ==
  ASSUME NEW a \in Nat, NEW b \in Int, NEW n \in 1 .. Least(a, b)
  PROVE  n \in Nat /\ n \in 0 .. a /\ n <= a
BY DEF Least

\* As much as there is, as was asked for, and as there is room for.
LEMMA Fits ==
  ASSUME NEW held \in Nat, NEW room \in Nat, held <= room, NEW most \in Nat, NEW there \in Nat
  PROVE  LET n == Least(Least(most, room - held), there)
         IN  n \in Nat /\ n <= there /\ held + n <= room
<1>1. room - held \in Nat
  OBVIOUS
<1>2. Least(most, room - held) \in Nat /\ Least(most, room - held) <= room - held
  BY <1>1 DEF Least
<1>3. QED  BY <1>1, <1>2 DEF Least

LEMMA EnterTerminalKeeps == ASSUME RelayInv, EnterTerminal PROVE RelayInv'
<1>1. /\ at = "terminal" /\ at' \in {"poll", "restore"}
      /\ relay' = [relay EXCEPT !.out = Pair(relay.out, relay.initial), !.initial = << >>]
      /\ UNCHANGED <<channel, stdin, history, socket, ready, session, stdout>>
      /\ tty' \in {"cooked", "raw"} /\ outcome' \in {outcome, "error"}
  BY DEF EnterTerminal, Fails, outside, Pair
<1>2. Pair(relay.out, relay.initial) \in Bytes /\ << >> \in Bytes
  BY Streams, Joined, Alone
<1>3. /\ relay'.out = Pair(relay.out, relay.initial) /\ relay'.initial = << >>
      /\ relay'.in = relay.in
  BY <1>1 DEF RelayInv, Typed
<1>4. Typed'
  BY <1>1, <1>2, StepNames DEF RelayInv, Typed, RelayTypeOK
<1>5. Fresher'
  BY <1>1, <1>3 DEF RelayInv, Fresher, Starting, Connecting
<1>6. Handled' /\ Ending'
  BY <1>1 DEF RelayInv, Handled, Ending, Starting, Connecting, Handling
<1>7. Flows'
  <2>1. Line(history.shown, Pair(relay.out, relay.initial), << >>, channel.from)
          = Line(history.shown, relay.out, relay.initial, channel.from)
    BY Streams, MovedWhole
  <2>2. OutputFlows
    BY <1>1, StepNames DEF RelayInv, Flows
  <2>3. OutputFlows' /\ InputFlows'
    BY <1>1, <1>3, <2>1, <2>2 DEF RelayInv, Flows, OutputFlows, InputFlows
  <2>4. Bounded'
    <3>1. Pair(Pair(relay.out, relay.initial), << >>) = Pair(relay.out, relay.initial)
      BY <1>2, Alone
    <3>2. Bounded
      BY DEF RelayInv, Flows
    <3>3. QED  BY <1>3, <3>1, <3>2 DEF Bounded
  <2>5. \E n \in 0 .. history'.output : history'.shown = Numbers(n)
    <3>1. /\ history.output \in Nat /\ history.shown \in Bytes
          /\ relay.out \in Bytes /\ relay.initial \in Bytes /\ channel.from \in Bytes
      BY Streams DEF RelayInv, Typed
    <3>2. \E n \in 0 .. history.output : history.shown = Numbers(n)
      BY <2>2, <3>1, Sizes, OutputBegins DEF OutputFlows
    <3>3. QED  BY <1>1, <3>2
  <2>6. QED  BY <2>3, <2>4, <2>5 DEF Flows
<1>8. QED  BY <1>4, <1>5, <1>6, <1>7 DEF RelayInv

LEMMA ReadInputKeeps == ASSUME RelayInv, ReadInput PROVE RelayInv'
<1>1. PICK n : n = Least(Least(Chunk, MaxPending - Len(relay.in)), Len(stdin.bytes))
  OBVIOUS
<1>2. n \in Nat /\ n <= Len(stdin.bytes) /\ Len(relay.in) + n <= MaxPending
  <2>1. /\ Len(relay.in) \in Nat /\ Len(stdin.bytes) \in Nat /\ Len(relay.in) <= MaxPending
        /\ Chunk \in Nat /\ MaxPending \in Nat
    BY Sizes
  <2>2. QED  BY <1>1, <2>1, Fits
<1>3. PICK taken : taken = Pair(relay.in, Take(n, stdin.bytes))
  OBVIOUS
<1>4. PICK left : left = Drop(n, stdin.bytes)
  OBVIOUS
<1>5. /\ Take(n, stdin.bytes) \in Bytes /\ left \in Bytes /\ Len(Take(n, stdin.bytes)) = n
  BY <1>2, <1>4, Streams, Parted
<1>6. taken \in Bytes /\ Len(taken) = Len(relay.in) + n
  <2>1. relay.in \in Bytes
    BY Streams
  <2>2. QED  BY <1>3, <1>5, <2>1, Joined
<1>7. n = 0 => taken = relay.in
  <2>1. n = 0 => Take(n, stdin.bytes) = << >>
    BY <1>5, EmptySeq DEF Bytes
  <2>2. QED  BY <1>3, <2>1, Streams, Alone
<1>8. /\ at = "stdin" /\ at' = Following(1, ready)
      /\ relay' = IF n = 0 THEN [relay EXCEPT !.open = FALSE] ELSE [relay EXCEPT !.in = taken]
      /\ stdin' = [stdin EXCEPT !.bytes = left]
      /\ UNCHANGED <<outcome, socket, tty, ready, session, channel, stdout, history>>
  BY <1>1, <1>3, <1>4 DEF ReadInput, Pair
<1>9. /\ relay'.in = taken /\ relay'.out = relay.out
      /\ relay'.initial = relay.initial /\ stdin'.bytes = left
  BY <1>7, <1>8 DEF RelayInv, Typed
<1>10. at' = "poll" \/ (at' \in Handling /\ at' \in ready)
  BY <1>8, FollowingIsReady
<1>11. Typed'
  BY <1>5, <1>6, <1>8, <1>10, StepNames DEF RelayInv, Typed, RelayTypeOK
<1>12. Fresher'
  BY <1>8, <1>9, <1>10 DEF RelayInv, Fresher, Starting, Connecting, Handling
<1>13. Handled' /\ Ending'
  BY <1>8, <1>9, <1>10 DEF RelayInv, Handled, Ending, Starting, Connecting, Handling
<1>14. Flows'
  <2>1. Line(history.heard, channel.to, taken, left)
          = Line(history.heard, channel.to, relay.in, stdin.bytes)
    <3>1. n \in 0 .. Len(stdin.bytes)
      BY <1>2, Sizes
    <3>2. QED  BY <1>3, <1>4, <3>1, Streams, MovedToThird
  <2>2. InputFlows'
    BY <1>8, <1>9, <2>1 DEF RelayInv, Flows, InputFlows
  <2>3. Relaying /\ Relaying'
    BY <1>8, <1>10, <1>11, StepNames DEF Relaying, Handling, Typed, RelayTypeOK
  <2>4. Bounded' /\ OutputFlows'
    BY <1>2, <1>6, <1>8, <1>9, <2>3 DEF RelayInv, Flows, Bounded, OutputFlows
  <2>5. QED  BY <2>2, <2>3, <2>4 DEF Flows
<1>15. QED  BY <1>11, <1>12, <1>13, <1>14 DEF RelayInv

LEMMA SendPendingInputKeeps == ASSUME RelayInv, SendPendingInput PROVE RelayInv'
<1>1. /\ at = "send" /\ UNCHANGED <<socket, tty, ready, session, stdin, stdout, history>>
  BY DEF SendPendingInput
<1>2. CASE ~channel.up /\ Fails("restore") /\ UNCHANGED <<channel, relay>>
  <2>1. /\ at' = "restore" /\ outcome' = "error" /\ UNCHANGED <<channel, relay>>
    BY <1>2 DEF Fails
  <2>2. Typed' /\ Fresher' /\ Handled' /\ Ending'
    BY <1>1, <2>1, StepNames DEF RelayInv, Typed, RelayTypeOK, Fresher, Handled, Ending,
                                 Starting, Connecting, Handling
  <2>3. Flows'
    BY <1>1, <2>1, StepNames, StreamsStay DEF RelayInv
  <2>4. QED  BY <2>2, <2>3 DEF RelayInv
<1>3. ASSUME NEW n \in 1 .. Least(Len(relay.in), ChannelRoom - Len(channel.to)),
             channel' = [channel EXCEPT !.to = @ \o Take(n, relay.in)],
             relay' = [relay EXCEPT !.in = Drop(n, @)],
             at' = Following(2, ready), UNCHANGED outcome
      PROVE  RelayInv'
  <2>1. n \in Nat /\ n \in 0 .. Len(relay.in) /\ n <= Len(relay.in)
    <3>1. Len(relay.in) \in Nat /\ ChannelRoom - Len(channel.to) \in Int
      BY Sizes
    <3>2. QED  BY <1>3, <3>1, AtMost
  <2>2. PICK sent : sent = Pair(channel.to, Take(n, relay.in))
    OBVIOUS
  <2>3. PICK left : left = Drop(n, relay.in)
    OBVIOUS
  <2>4. sent \in Bytes /\ left \in Bytes /\ Len(left) = Len(relay.in) - n
    <3>1. Take(n, relay.in) \in Bytes /\ left \in Bytes /\ Len(left) = Len(relay.in) - n
      BY <2>1, <2>3, Streams, Parted
    <3>2. QED  BY <2>2, <3>1, Streams, Joined
  <2>5. channel' = [channel EXCEPT !.to = sent] /\ relay' = [relay EXCEPT !.in = left]
    BY <1>3, <2>2, <2>3 DEF Pair
  <2>6. /\ channel'.to = sent /\ channel'.from = channel.from /\ relay'.in = left
        /\ relay'.out = relay.out /\ relay'.initial = relay.initial
    BY <2>5 DEF RelayInv, Typed
  <2>7. at' = "poll" \/ (at' \in Handling /\ at' \in ready)
    BY <1>3, FollowingIsReady
  <2>8. Typed'
    BY <1>1, <1>3, <2>4, <2>5, <2>7, StepNames DEF RelayInv, Typed, RelayTypeOK
  <2>9. Fresher' /\ Handled' /\ Ending'
    BY <1>1, <1>3, <2>6, <2>7 DEF RelayInv, Fresher, Handled, Ending, Starting, Connecting,
       Handling
  <2>10. InputFlows'
    <3>1. Line(history.heard, Pair(channel.to, Take(n, relay.in)), Drop(n, relay.in), stdin.bytes)
            = Line(history.heard, channel.to, relay.in, stdin.bytes)
      BY <2>1, Streams, MovedToSecond
    <3>2. QED  BY <1>1, <2>2, <2>3, <2>6, <3>1 DEF RelayInv, Flows, InputFlows
  <2>11. Relaying /\ Relaying'
    BY <1>1, <2>7, <2>8, StepNames DEF Relaying, Handling, Typed, RelayTypeOK
  <2>12. Bounded' /\ OutputFlows'
    <3>1. Len(left) <= MaxPending
      BY <2>1, <2>4, Sizes
    <3>2. QED  BY <1>1, <2>6, <2>11, <3>1 DEF RelayInv, Flows, Bounded, OutputFlows
  <2>13. QED  BY <2>8, <2>9, <2>10, <2>11, <2>12 DEF RelayInv, Flows
<1>4. QED  BY <1>2, <1>3 DEF SendPendingInput

\* A read from the channel goes to an empty buffer.
LEMMA Received ==
  ASSUME NEW shown \in Bytes, NEW s \in Bytes, NEW n \in 0 .. Len(s)
  PROVE  /\ Line(shown, << >>, Take(n, s), Drop(n, s)) = Line(shown, << >>, << >>, s)
         /\ Line(shown, Take(n, s), << >>, Drop(n, s)) = Line(shown, << >>, << >>, s)
<1>1. Take(n, s) \in Bytes /\ Drop(n, s) \in Bytes /\ << >> \in Bytes
  BY Parted, Alone
<1>2. /\ Pair(<< >>, Take(n, s)) = Take(n, s)
      /\ Line(shown, << >>, Pair(<< >>, Take(n, s)), Drop(n, s)) = Line(shown, << >>, << >>, s)
  BY <1>1, Alone, MovedToThird
<1>3. Line(shown, Pair(<< >>, Take(n, s)), << >>, Drop(n, s))
        = Line(shown, << >>, Take(n, s), Drop(n, s))
  BY <1>1, MovedWhole
<1>4. QED  BY <1>2, <1>3

LEMMA ReceiveOutputKeeps == ASSUME RelayInv, ReceiveOutput PROVE RelayInv'
<1>1. /\ at = "recv" /\ UNCHANGED <<socket, tty, ready, session, stdin, stdout, history>>
  BY DEF ReceiveOutput
<1>2. relay.out = << >> /\ relay.initial = << >>
  BY <1>1 DEF RelayInv, Handled, Fresher, Handling
<1>3. CASE at' = "restore" /\ outcome' \in {"result", "error"} /\ UNCHANGED <<channel, relay>>
  <2>1. tty # "broken" /\ socket # "stuck"
    BY <1>1, <1>3 DEF RelayInv, Ending
  <2>2. Typed' /\ Fresher' /\ Handled' /\ Ending'
    BY <1>1, <1>3, <2>1, StepNames DEF RelayInv, Typed, RelayTypeOK, Fresher, Handled, Ending,
                                 Starting, Connecting, Handling
  <2>3. Flows'
    BY <1>1, <1>3, <2>1, StepNames, StreamsStay DEF RelayInv
  <2>4. QED  BY <2>2, <2>3 DEF RelayInv
<1>4. ASSUME NEW n \in 1 .. Least(Chunk, Len(channel.from)),
             relay' = [relay EXCEPT !.out = @ \o Take(n, channel.from)],
             channel' = [channel EXCEPT !.from = Drop(n, @)],
             at' = "poll", UNCHANGED outcome
      PROVE  RelayInv'
  <2>1. n \in 0 .. Len(channel.from) /\ n <= Chunk
    BY <1>4, Sizes DEF Least
  <2>2. PICK taken : taken = Take(n, channel.from)
    OBVIOUS
  <2>3. PICK left : left = Drop(n, channel.from)
    OBVIOUS
  <2>4. taken \in Bytes /\ left \in Bytes /\ Len(taken) = n
    BY <2>1, <2>2, <2>3, Streams, Parted
  <2>5. relay.out \o taken = taken /\ Pair(taken, << >>) = taken
    BY <1>2, <2>4, Alone DEF Pair
  <2>6. channel' = [channel EXCEPT !.from = left] /\ relay' = [relay EXCEPT !.out = taken]
    BY <1>4, <2>2, <2>3, <2>5
  <2>7. /\ channel'.from = left /\ channel'.to = channel.to /\ relay'.out = taken
        /\ relay'.in = relay.in /\ relay'.initial = << >>
    BY <1>2, <2>6 DEF RelayInv, Typed
  <2>8. Typed'
    BY <1>1, <1>4, <2>4, <2>6, StepNames DEF RelayInv, Typed, RelayTypeOK
  <2>9. Fresher' /\ Handled' /\ Ending'
    BY <1>1, <1>4, <2>7 DEF RelayInv, Fresher, Handled, Ending, Starting, Connecting,
       Handling
  <2>10. Relaying /\ Relaying'
    BY <1>1, <1>4, <2>8, StepNames DEF Relaying, Handling, Typed, RelayTypeOK
  <2>11. OutputFlows'
    <3>1. Line(history.shown, taken, << >>, left)
            = Line(history.shown, << >>, << >>, channel.from)
      BY <2>1, <2>2, <2>3, Streams, Received
    <3>2. QED  BY <1>1, <1>2, <2>7, <2>10, <3>1 DEF RelayInv, Flows, OutputFlows
  <2>12. Bounded' /\ InputFlows'
    BY <1>1, <2>1, <2>4, <2>5, <2>7 DEF RelayInv, Flows, Bounded, InputFlows
  <2>13. QED  BY <2>8, <2>9, <2>10, <2>11, <2>12 DEF RelayInv, Flows
<1>5. QED  BY <1>3, <1>4 DEF ReceiveOutput, Fails

LEMMA InitialOutputKeeps == ASSUME RelayInv, InitialOutput PROVE RelayInv'
<1>1. /\ at = "grace" /\ UNCHANGED <<socket, tty, ready, session, stdin, stdout, history>>
      /\ tty = "cooked" /\ socket # "stuck"
  BY DEF InitialOutput, RelayInv, Ending, Starting
<1>2. /\ relay.out = << >> /\ relay.in = << >> /\ channel.to = << >> /\ history.heard = << >>
      /\ relay.initial = << >>
  BY <1>1 DEF RelayInv, Fresher, Starting
<1>3. ASSUME at' \in {"close", "terminal"}, UNCHANGED <<relay, channel>>,
             outcome' \in {outcome, "error"}
      PROVE  RelayInv'
  <2>1. Typed' /\ Fresher' /\ Handled' /\ Ending'
    BY <1>1, <1>2, <1>3, StepNames DEF RelayInv, Typed, RelayTypeOK, Fresher, Handled,
       Ending,
                                       Starting, Connecting, Handling
  <2>2. Flows'
    BY <1>1, <1>3, StepNames, StreamsStay DEF RelayInv
  <2>3. QED  BY <2>1, <2>2 DEF RelayInv
<1>4. ASSUME channel.from = << >>, at' = "failed", channel' = Fresh, UNCHANGED <<outcome, relay>>
      PROVE  RelayInv'
  <2>1. << >> \in Bytes
    BY Alone, Streams
  <2>2. channel'.to = << >> /\ channel'.from = << >>
    BY <1>4 DEF Fresh
  <2>3. Typed'
    BY <1>1, <1>4, <2>1, StepNames DEF RelayInv, Typed, RelayTypeOK, Fresh, Connecting
  <2>4. Fresher' /\ Handled' /\ Ending'
    BY <1>1, <1>2, <1>4, <2>2 DEF RelayInv, Fresher, Handled, Ending, Starting, Connecting,
       Handling
  <2>5. Relaying /\ Relaying'
    BY <1>1, <1>4, <2>3, StepNames DEF Relaying, Typed, RelayTypeOK, Connecting
  <2>6. Flows'
    BY <1>1, <1>2, <1>4, <2>2, <2>5 DEF RelayInv, Flows, Bounded, OutputFlows, InputFlows
  <2>7. QED  BY <2>3, <2>4, <2>6 DEF RelayInv
<1>5. ASSUME NEW n \in 1 .. Least(Chunk, Len(channel.from)),
             relay' = [relay EXCEPT !.initial = Take(n, channel.from)],
             channel' = [channel EXCEPT !.from = Drop(n, @)],
             at' = "terminal", UNCHANGED outcome
      PROVE  RelayInv'
  <2>1. n \in 0 .. Len(channel.from) /\ n <= Chunk
    BY <1>5, Sizes, SMTT(20) DEF Least
  <2>2. PICK taken : taken = Take(n, channel.from)
    OBVIOUS
  <2>3. PICK left : left = Drop(n, channel.from)
    OBVIOUS
  <2>4. taken \in Bytes /\ left \in Bytes /\ Len(taken) = n
    BY <2>1, <2>2, <2>3, Streams, Parted
  <2>5. Pair(<< >>, taken) = taken
    BY <2>4, Alone
  <2>6. channel' = [channel EXCEPT !.from = left] /\ relay' = [relay EXCEPT !.initial = taken]
    BY <1>5, <2>2, <2>3
  <2>7. /\ channel'.from = left /\ channel'.to = channel.to /\ relay'.out = << >>
        /\ relay'.in = relay.in /\ relay'.initial = taken
    BY <1>2, <2>6 DEF RelayInv, Typed
  <2>8. Typed'
    BY <1>1, <1>5, <2>4, <2>6, StepNames DEF RelayInv, Typed, RelayTypeOK
  <2>9. Fresher' /\ Handled' /\ Ending'
    BY <1>1, <1>2, <1>5, <2>7 DEF RelayInv, Fresher, Handled, Ending, Starting, Connecting,
       Handling
  <2>10. Relaying /\ Relaying'
    BY <1>1, <1>5, <2>8, StepNames DEF Relaying, Typed, RelayTypeOK
  <2>11. OutputFlows'
    <3>1. Line(history.shown, << >>, taken, left)
            = Line(history.shown, << >>, << >>, channel.from)
      BY <2>1, <2>2, <2>3, Streams, Received
    <3>2. QED  BY <1>1, <1>2, <2>7, <2>10, <3>1 DEF RelayInv, Flows, OutputFlows
  <2>12. Bounded' /\ InputFlows'
    BY <1>1, <2>1, <2>4, <2>5, <2>7 DEF RelayInv, Flows, Bounded, InputFlows
  <2>13. QED  BY <2>8, <2>9, <2>10, <2>11, <2>12 DEF RelayInv, Flows
<1>6. QED  BY <1>3, <1>4, <1>5 DEF InitialOutput, Cancelled, Fails

\* What a write to standard output does, complete or not.
LEMMA Delivered ==
  ASSUME RelayInv, Deliver, UNCHANGED <<channel, stdin>>, relay.initial = << >>, Relaying
  PROVE  /\ relay' \in [open : BOOLEAN, in : Bytes, out : Bytes, initial : Bytes]
         /\ history' \in [output : Nat, typed : Nat, printed : Nat, shown : Bytes, heard : Bytes]
         /\ stdout' \in 0 .. StdoutRoom
         /\ history'.output \in Nat /\ history'.shown \in Bytes
         /\ relay'.in = relay.in /\ relay'.initial = << >> /\ history'.heard = history.heard
         /\ OutputFlows' /\ InputFlows' /\ Bounded'
         /\ Len(relay.out) <= PipeBuf => relay'.out = << >>
<1>1. PICK n : n = Least(PipeBuf, Len(relay.out))
  OBVIOUS
<1>2. /\ n \in Nat /\ n \in 0 .. Len(relay.out) /\ n <= Len(relay.out)
      /\ Len(relay.out) <= PipeBuf => n = Len(relay.out)
  BY <1>1, Sizes DEF Least
<1>3. PICK written : written = Pair(history.shown, Take(n, relay.out))
  OBVIOUS
<1>4. PICK left : left = Drop(n, relay.out)
  OBVIOUS
<1>5. /\ left \in Bytes /\ Len(left) = Len(relay.out) - n
      /\ Len(relay.out) <= PipeBuf => left = << >>
  BY <1>2, <1>4, Streams, Parted
<1>6. written \in Bytes
  <2>1. Take(n, relay.out) \in Bytes
    BY <1>2, Streams, Parted
  <2>2. QED  BY <1>3, <2>1, Streams, Joined
<1>7. /\ StdoutRoom - stdout >= n /\ stdout' = stdout + n
      /\ history' = [history EXCEPT !.shown = written]
      /\ relay' = [relay EXCEPT !.out = left]
  BY <1>1, <1>3, <1>4 DEF Deliver, Pair
<1>8. /\ relay'.out = left /\ relay'.in = relay.in /\ relay'.initial = << >>
      /\ history'.shown = written /\ history'.heard = history.heard
      /\ history'.output = history.output /\ history'.typed = history.typed
  BY <1>7 DEF RelayInv, Typed
<1>9. stdout' \in 0 .. StdoutRoom
  <2>1. stdout \in Nat /\ StdoutRoom \in Nat
    BY Sizes
  <2>2. QED  BY <1>2, <1>7, <2>1
<1>10. OutputFlows'
  <2>1. Line(Pair(history.shown, Take(n, relay.out)), Drop(n, relay.out), << >>, channel.from)
          = Line(history.shown, relay.out, << >>, channel.from)
    BY <1>2, Streams, Alone, MovedToFirst
  <2>2. QED  BY <1>3, <1>4, <1>8, <2>1 DEF RelayInv, Flows, OutputFlows
<1>11. InputFlows' /\ Bounded'
  <2>1. Pair(left, << >>) = left /\ Pair(relay.out, << >>) = relay.out
    BY <1>5, Streams, Alone
  <2>2. Len(left) <= Chunk
    <3>1. Len(relay.out) <= Chunk
      BY <1>2, <2>1 DEF RelayInv, Flows, Bounded
    <3>2. QED  BY <1>2, <1>5, <3>1, Sizes, SMTT(20)
  <2>3. QED  BY <1>8, <2>1, <2>2 DEF RelayInv, Flows, Bounded, InputFlows
<1>12. /\ relay' \in [open : BOOLEAN, in : Bytes, out : Bytes, initial : Bytes]
       /\ history' \in [output : Nat, typed : Nat, printed : Nat, shown : Bytes, heard : Bytes]
  BY <1>5, <1>6, <1>7 DEF RelayInv, Typed
<1>13. history'.output \in Nat
  BY <1>8, Sizes
<1>14. QED  BY <1>5, <1>6, <1>8, <1>9, <1>10, <1>11, <1>12, <1>13

LEMMA DeliverOutputKeeps == ASSUME RelayInv, DeliverOutput PROVE RelayInv'
<1>1. /\ at = "stdout" /\ Deliver /\ at' = Following(3, ready)
      /\ UNCHANGED <<outcome, socket, tty, ready, session, channel, stdin>>
  BY DEF DeliverOutput
<1>2. relay.initial = << >> /\ Relaying
  BY <1>1, StepNames DEF RelayInv, Fresher, Handling
<1>3. at' = "poll" \/ (at' \in Handling /\ at' \in ready)
  BY <1>1, FollowingIsReady
<1>4. /\ relay' \in [open : BOOLEAN, in : Bytes, out : Bytes, initial : Bytes]
      /\ history' \in [output : Nat, typed : Nat, printed : Nat, shown : Bytes, heard : Bytes]
      /\ stdout' \in 0 .. StdoutRoom /\ relay'.initial = << >>
  BY <1>1, <1>2, Delivered
<1>5. Typed'
  BY <1>1, <1>3, <1>4, StepNames DEF RelayInv, Typed, RelayTypeOK
<1>6. Fresher' /\ Ending'
  <2>1. Fresher'
    BY <1>3, <1>4 DEF Fresher, Starting, Connecting, Handling
  <2>2. Ending'
    BY <1>1, <1>3 DEF RelayInv, Ending, Starting, Connecting, Handling
  <2>3. QED  BY <2>1, <2>2
<1>7. Handled'
  <2>1. relay.out = << >> => relay'.out = << >>
    <3>1. Len(<< >>) = 0
      OBVIOUS
    <3>2. QED  BY <1>1, <1>2, <3>1, Delivered, Sizes
  <2>2. QED  BY <1>1, <1>3, <2>1 DEF RelayInv, Handled, Handling
<1>8. Relaying'
  BY <1>3, <1>5, StepNames DEF Relaying, Handling, Typed, RelayTypeOK
<1>9. QED  BY <1>1, <1>2, <1>5, <1>6, <1>7, <1>8, Delivered DEF RelayInv, Flows

LEMMA LastWriteKeeps == ASSUME RelayInv, LastWrite PROVE RelayInv'
<1>1. /\ at = "last write" /\ Deliver /\ at' = "restore"
      /\ UNCHANGED <<outcome, socket, tty, ready, session, channel, stdin>>
  BY DEF LastWrite
<1>2. relay.initial = << >> /\ Relaying
  BY <1>1, StepNames DEF RelayInv, Fresher
<1>3. /\ relay' \in [open : BOOLEAN, in : Bytes, out : Bytes, initial : Bytes]
      /\ history' \in [output : Nat, typed : Nat, printed : Nat, shown : Bytes, heard : Bytes]
      /\ stdout' \in 0 .. StdoutRoom /\ relay'.initial = << >>
  BY <1>1, <1>2, Delivered
<1>4. Typed' /\ Fresher' /\ Ending' /\ Handled'
  <2>1. Typed'
    BY <1>1, <1>3, StepNames DEF RelayInv, Typed, RelayTypeOK
  <2>2. Fresher' /\ Ending' /\ Handled'
    BY <1>1, <1>2, <1>3 DEF RelayInv, Fresher, Ending, Handled, Starting, Connecting, Handling
  <2>3. QED  BY <2>1, <2>2
<1>5. \E n \in 0 .. history'.output : history'.shown = Numbers(n)
  <2>1. OutputFlows' /\ history'.output \in Nat
    BY <1>1, <1>2, Delivered
  <2>2. /\ history'.shown \in Bytes /\ relay'.out \in Bytes /\ relay'.initial \in Bytes
        /\ channel'.from \in Bytes
    BY <1>4 DEF Typed
  <2>3. QED  BY <2>1, <2>2, OutputBegins DEF OutputFlows
<1>6. ~Relaying'
  BY <1>1 DEF Relaying
<1>7. QED  BY <1>1, <1>2, <1>3, <1>4, <1>5, <1>6, Delivered DEF RelayInv, Flows

----------------------------------------------------------------------------
\* The steps of the target and the typist that move bytes.

LEMMA TargetWritesKeeps == ASSUME RelayInv, TargetWrites PROVE RelayInv'
<1>1. /\ at \notin Connecting /\ UNCHANGED <<local, session, stdin, stdout>>
      /\ channel' = [channel EXCEPT !.from = Append(channel.from, history.output + 1)]
      /\ history' = [history EXCEPT !.output = history.output + 1]
  BY DEF TargetWrites
<1>2. PICK made \in Nat : made = history.output + 1
  BY Sizes
<1>3. Append(channel.from, made) \in Bytes
  BY Streams, Ended
<1>4. /\ channel'.from = Append(channel.from, made) /\ channel'.to = channel.to
      /\ history'.output = made /\ history'.typed = history.typed
      /\ history'.shown = history.shown /\ history'.heard = history.heard
  BY <1>1, <1>2 DEF RelayInv, Typed
<1>5. Typed'
  BY <1>1, <1>2, <1>3 DEF RelayInv, Typed, RelayTypeOK, local
<1>6. Fresher' /\ Handled' /\ Ending'
  BY <1>1, <1>4 DEF RelayInv, Fresher, Handled, Ending, local
<1>7. Bounded' /\ InputFlows'
  BY <1>1, <1>4 DEF RelayInv, Flows, Bounded, InputFlows, local
<1>8. Relaying' <=> Relaying
  BY <1>1 DEF Relaying, local
<1>9. OutputFlows => OutputFlows'
  <2>1. ASSUME OutputFlows
        PROVE  Line(history.shown, relay.out, relay.initial, Append(channel.from, history.output + 1))
                 = Numbers(history.output + 1)
    <3>1. history.output \in Nat
      BY Sizes
    <3>2. QED  BY <2>1, <3>1, Streams, Extended, SMTT(20) DEF OutputFlows
  <2>2. QED  BY <1>1, <1>2, <1>4, <2>1 DEF OutputFlows, local
<1>10. ASSUME NEW n \in 0 .. history.output, history.shown = Numbers(n)
       PROVE  \E k \in 0 .. history'.output : history'.shown = Numbers(k)
  <2>1. history.output \in Nat
    BY Sizes
  <2>2. n \in 0 .. made
    BY <1>2, <2>1
  <2>3. QED  BY <1>4, <1>10, <2>2
<1>11. QED  BY <1>5, <1>6, <1>7, <1>8, <1>9, <1>10 DEF RelayInv, Flows

LEMMA TargetReadsKeeps == ASSUME RelayInv, TargetReads PROVE RelayInv'
<1>1. /\ channel.to # << >> /\ UNCHANGED <<local, session, stdin, stdout>>
      /\ channel' = [channel EXCEPT !.to = Tail(channel.to)]
      /\ history' = [history EXCEPT !.heard = Append(history.heard, Head(channel.to))]
  BY DEF TargetReads
<1>2. Tail(channel.to) \in Bytes /\ Append(history.heard, Head(channel.to)) \in Bytes
  <2>1. Tail(channel.to) \in Bytes /\ Head(channel.to) \in Nat
    BY <1>1, Streams, Begun
  <2>2. QED  BY <2>1, Streams, Ended
<1>3. /\ channel'.to = Tail(channel.to) /\ channel'.from = channel.from
      /\ history'.heard = Append(history.heard, Head(channel.to))
      /\ history'.output = history.output /\ history'.typed = history.typed
      /\ history'.shown = history.shown
  BY <1>1 DEF RelayInv, Typed
<1>4. Typed'
  BY <1>1, <1>2 DEF RelayInv, Typed, RelayTypeOK, local
<1>5. at \notin Starting
  BY <1>1 DEF RelayInv, Fresher
<1>6. Fresher' /\ Handled' /\ Ending'
  BY <1>1, <1>3, <1>5 DEF RelayInv, Fresher, Handled, Ending, local, Starting
<1>7. InputFlows'
  BY <1>1, <1>3, Streams, Arrived DEF RelayInv, Flows, InputFlows, local
<1>8. (Relaying' <=> Relaying) /\ Bounded' /\ (OutputFlows' <=> OutputFlows)
  BY <1>1, <1>3 DEF RelayInv, Flows, Bounded, OutputFlows, Relaying, local
<1>9. QED  BY <1>3, <1>4, <1>6, <1>7, <1>8 DEF RelayInv, Flows

LEMMA TypeKeeps == ASSUME RelayInv, Type PROVE RelayInv'
<1>1. /\ UNCHANGED <<local, session, channel, stdout>>
      /\ stdin' = [stdin EXCEPT !.bytes = Append(stdin.bytes, history.typed + 1)]
      /\ history' = [history EXCEPT !.typed = history.typed + 1]
  BY DEF Type
<1>2. PICK made \in Nat : made = history.typed + 1
  BY Sizes
<1>3. Append(stdin.bytes, made) \in Bytes
  BY Streams, Ended
<1>4. /\ stdin'.bytes = Append(stdin.bytes, made)
      /\ history'.output = history.output /\ history'.typed = made
      /\ history'.shown = history.shown /\ history'.heard = history.heard
  BY <1>1, <1>2 DEF RelayInv, Typed
<1>5. Typed'
  BY <1>1, <1>2, <1>3 DEF RelayInv, Typed, RelayTypeOK, local
<1>6. Fresher' /\ Handled' /\ Ending'
  BY <1>1, <1>4 DEF RelayInv, Fresher, Handled, Ending, local
<1>7. InputFlows'
  <2>1. InputFlows /\ history.typed \in Nat
    BY Sizes DEF RelayInv, Flows
  <2>2. Line(history.heard, channel.to, relay.in, Append(stdin.bytes, history.typed + 1))
          = Numbers(history.typed + 1)
    BY <2>1, Streams, Extended DEF InputFlows
  <2>3. QED  BY <1>1, <1>2, <1>4, <2>2 DEF InputFlows, local
<1>8. (Relaying' <=> Relaying) /\ Bounded' /\ (OutputFlows' <=> OutputFlows)
  BY <1>1, <1>4 DEF RelayInv, Flows, Bounded, OutputFlows, Relaying, local
<1>9. QED  BY <1>4, <1>5, <1>6, <1>7, <1>8 DEF RelayInv, Flows

----------------------------------------------------------------------------
LEMMA InitRelay == Init => RelayInv
<1> SUFFICES ASSUME Init PROVE RelayInv
  OBVIOUS
<1>1. << >> \in Bytes /\ Len(<< >>) = 0 /\ Pair(<< >>, << >>) = << >> /\ Numbers(0) = << >>
  <2>1. << >> \in Bytes /\ Pair(<< >>, << >>) = << >>
    BY EmptySeq, ConcatEmptySeq DEF Bytes, Pair
  <2>2. Numbers(0) \in Bytes /\ Len(Numbers(0)) = 0
    BY Numbered
  <2>3. QED  BY <2>1, <2>2, EmptySeq DEF Bytes
<1>2. /\ history.shown = << >> /\ history.heard = << >> /\ history.output = 0 /\ history.typed = 0
      /\ relay.in = << >> /\ relay.out = << >> /\ relay.initial = << >>
      /\ channel.to = << >> /\ channel.from = << >> /\ stdin.bytes = << >>
  BY DEF Init, Fresh
<1>3. Typed
  <2>1. stdout \in 0 .. StdoutRoom
    BY RelayConstants DEF Init
  <2>2. QED  BY <1>1, <2>1, StepNames DEF Init, Fresh, Typed, RelayTypeOK, Connecting
<1>4. Fresher /\ Handled /\ Ending
  BY <1>2 DEF Init, Fresher, Handled, Ending, Handling, Starting
<1>5. InputFlows /\ OutputFlows
  BY <1>1, <1>2 DEF InputFlows, OutputFlows, Line
<1>6. Bounded
  BY <1>1, <1>2, RelayConstants DEF Bounded
<1>7. Relaying
  BY StepNames DEF Init, Connecting
<1>8. QED  BY <1>3, <1>4, <1>5, <1>6, <1>7 DEF RelayInv, Flows

LEMMA StillRelay == ASSUME RelayInv, UNCHANGED vars PROVE RelayInv'
<1>1. /\ UNCHANGED <<at, outcome, socket, expired, tty, relay, ready>>
      /\ UNCHANGED <<session, pressed, channel, stdin, stdout, history, world>>
  BY DEF vars
<1>2. Typed' /\ Fresher' /\ Handled' /\ Ending'
  BY <1>1 DEF RelayInv, Typed, RelayTypeOK, Fresher, Handled, Ending
<1>3. Flows'
  BY <1>1 DEF RelayInv, Flows, Bounded, InputFlows, OutputFlows, Relaying
<1>4. QED  BY <1>2, <1>3 DEF RelayInv

LEMMA StepRelay == RelayInv /\ [Next]_vars => RelayInv'
<1> SUFFICES ASSUME RelayInv, [Next]_vars PROVE RelayInv'
  OBVIOUS
<1>1. CASE Client
  BY <1>1, ConnectKeeps, ConnectedKeeps, InitialOutputKeeps, ReleaseAttemptKeeps,
     RetryKeeps,
     EnterTerminalKeeps, PollSessionKeeps, WaitKeeps, ReadInputKeeps, SendPendingInputKeeps,
     DeliverOutputKeeps, ReceiveOutputKeeps, FinishOutputKeeps, LastWriteKeeps,
     RestoreTerminalKeeps, CloseSocketKeeps DEF Client
<1>2. CASE StartupExpires
  BY <1>2, StartupExpiresKeeps
<1>3. CASE Outside
  BY <1>3, TargetWritesKeeps, TargetReadsKeeps, ChannelClosesKeeps, TypeKeeps,
     TypingEndsKeeps,
     ConsumerTakesKeeps, PrintsKeeps, SessionEndsKeeps, CtrlCKeeps DEF Outside
<1>4. CASE Done \/ UNCHANGED vars
  BY <1>4, StillRelay DEF Done
<1>5. QED  BY <1>1, <1>2, <1>3, <1>4 DEF Next

LEMMA AlwaysRelay == Spec => []RelayInv
BY InitRelay, StepRelay, PTL DEF Spec

\* No byte of either direction is lost, doubled or reordered between the
\* channel and the terminal, and the relay's buffers keep their bounds
\* (RttRelay._receive_output, _deliver_output, _send_pending_input).
THEOREM RelayedStreamsAreWhole == Spec => []StreamsAreWhole
<1>1. RelayInv => StreamsAreWhole
  BY DEF RelayInv, Flows, Bounded, InputFlows, OutputFlows, Line, Pair, StreamsAreWhole
<1>2. QED  BY <1>1, AlwaysRelay, PTL

\* However the client ends, it ends with the terminal restored and the socket
\* closed, or with the error that says it could not be (_terminal_mode,
\* RttConnection.close).
THEOREM EndsLeaveNothing == Spec => []LeavesNothingBehind
<1>1. RelayInv => LeavesNothingBehind
  BY DEF RelayInv, Ending, LeavesNothingBehind
<1>2. QED  BY <1>1, AlwaysRelay, PTL

\* A client that ends with the session's result has written all the output it
\* received, or found no room for it, at its last chance (_finish_output).
THEOREM ResultsKeepOutput == Spec => ResultKeepsOutput
<1>1. ASSUME RelayInv, [Next]_vars, at # "restore", at' = "restore", outcome' = "result"
      PROVE  relay'.out = << >> \/ ~Writable
  <2>1. CASE ReceiveOutput
    <3>1. relay.out = << >>
      BY <1>1, <2>1 DEF ReceiveOutput, RelayInv, Handled, Handling
    <3>2. UNCHANGED relay
      BY <1>1, <2>1 DEF ReceiveOutput
    <3>3. QED  BY <3>1, <3>2
  <2>2. CASE LastWrite
    <3>1. /\ at = "last write" /\ Deliver /\ UNCHANGED <<channel, stdin>>
          /\ relay.initial = << >> /\ Relaying
      BY <1>1, <2>2, StepNames DEF LastWrite, RelayInv, Fresher
    <3>2. Len(relay.out) <= PipeBuf
      <4>1. Pair(relay.out, << >>) = relay.out
        BY <1>1, Streams, Alone
      <4>2. Len(relay.out) <= Chunk
        BY <1>1, <3>1, <4>1 DEF RelayInv, Flows, Bounded
      <4>3. QED  BY <1>1, <4>2, Sizes
    <3>3. QED  BY <1>1, <3>1, <3>2, Delivered
  <2>3. CASE FinishOutput
    BY <1>1, <2>3 DEF FinishOutput, Cancelled, Fails
  <2>4. QED
    <3>1. ~UNCHANGED vars
      BY <1>1 DEF vars
    <3>2. ~(Outside \/ StartupExpires \/ Done)
      BY <1>1 DEF Outside, StartupExpires, Done, vars, local, TargetWrites, TargetReads,
                  ChannelCloses, Type, TypingEnds, ConsumerTakes, Prints, SessionEnds, CtrlC
    <3>3. ~(Connect \/ Connected \/ InitialOutput \/ ReleaseAttempt \/ Retry)
      BY <1>1 DEF Connect, Connected, InitialOutput, ReleaseAttempt, Retry, Cancelled, Fails
    <3>4. ~(EnterTerminal \/ PollSession \/ Wait)
      <4>1. Following(0, ready') # "restore"
        BY FollowingIsReady DEF Handling
      <4>2. QED  BY <1>1, <4>1 DEF EnterTerminal, PollSession, Wait, Cancelled, Fails,
            RelayInv,
                                   Typed, RelayTypeOK
    <3>5. ~(ReadInput \/ SendPendingInput \/ DeliverOutput)
      <4>1. /\ Following(1, ready) # "restore" /\ Following(2, ready) # "restore"
            /\ Following(3, ready) # "restore"
        BY FollowingIsReady DEF Handling
      <4>2. QED  BY <1>1, <4>1 DEF ReadInput, SendPendingInput, DeliverOutput, Fails
    <3>6. ~(RestoreTerminal \/ CloseSocket)
      BY <1>1 DEF RestoreTerminal, CloseSocket
    <3>7. QED  BY <1>1, <2>1, <2>2, <2>3, <3>1, <3>2, <3>3, <3>4, <3>5, <3>6 DEF Next,
          Client
<1>2. RelayInv /\ [Next]_vars =>
        [at # "restore" /\ at' = "restore" /\ outcome' = "result" =>
           relay'.out = << >> \/ ~Writable]_vars
  BY <1>1
<1>3. QED  BY <1>2, AlwaysRelay, PTL DEF Spec, ResultKeepsOutput

=============================================================================
