--------------------------- MODULE Handshake_proofs ---------------------------
(***************************************************************************)
(* Two things about the exchange, for any number of ETST:ARGS lines and of *)
(* damaged lines.                                                          *)
(*                                                                         *)
(* ArgsTail, whatever is damaged and however late the host answers: of the *)
(* configuration only the first lines can be missing.  The lines to the    *)
(* device are whole answers one after the other, and what the device holds *)
(* is always followed by the line that comes next (Stream).                *)
(*                                                                         *)
(* One execution, and no command repeated that was not lost: as long as    *)
(* only READY and the command are damaged and the host answers before the  *)
(* device repeats READY (Quiet); the runs DamagedArgs and ReadyRace show   *)
(* why.  The idea: one request is in progress at a time.  It is a READY    *)
(* that the host has still to read, or one that it is about to answer, or  *)
(* the lines of an answer on their way; each excludes the others.          *)
(***************************************************************************)
EXTENDS Handshake, ReadyRunProtocol_proofs, SequenceTheorems, TLAPS

Quiet == Timely /\ Fragile \subseteq {Command}

Whole == [n \in 1..NArgs |-> n]

\* Of the lines a host has still to look at.
Announcement == {Msg("READY"), [Msg("READY") EXCEPT !.ok = FALSE]}
Harmless(line)  == ~line.ok \/ line.tag = "CASE"
IsDone(line)    == line.ok /\ line.tag = "DONE"
ReadyOnly(s)    == \A i \in 1..Len(s) : s[i] \in Announcement
NoReady(s)      == \A i \in 1..Len(s) : s[i] # Msg("READY")
OneReady(s)     ==
  \A i, j \in 1..Len(s) : s[i] = Msg("READY") /\ s[j] = Msg("READY") => i = j
AllDamaged(s)   == \A i \in 1..Len(s) : ~s[i].ok
AllHarmless(s)  == \A i \in 1..Len(s) : Harmless(s[i])
DoneFirst(s)    ==
  \E d \in 1..Len(s) : IsDone(s[d]) /\ \A i \in 1..(d - 1) : Harmless(s[i])

\* The device has the first lines of the host's answer and the others are on
\* their way, in order; only the command can be damaged.
Batch ==
  /\ args = [n \in 1..Len(args) |-> n]
  /\ \A i \in 1..Len(toDevice) :
       /\ toDevice[i].line = Len(args) + i
       /\ toDevice[i].line # Command => Valid(toDevice[i])

\* Nothing is in progress, but perhaps one READY on its way.
Idle ==
  /\ proto.state # "READY" /\ host # "send" /\ toDevice = <<>> /\ args = <<>>
  /\ rushed => NoReady(chunk) /\ NoReady(toHost)
  /\ \/ NoReady(chunk) /\ OneReady(toHost)
     \/ OneReady(chunk) /\ NoReady(toHost)

\* The host has read a READY.
Asked ==
  /\ proto.state = "READY" /\ host = "lines" /\ toDevice = <<>> /\ args = <<>>
  /\ ~rushed /\ NoReady(chunk) /\ NoReady(toHost)

Sending ==
  /\ proto.state = "READY" /\ host = "send" /\ ~rushed /\ NoReady(chunk) /\ NoReady(toHost)
  /\ Batch /\ Len(args) + Len(toDevice) = next - 1

Sent ==
  /\ proto.state = "RUNNING" /\ host # "send" /\ ~rushed /\ NoReady(chunk) /\ NoReady(toHost)
  /\ Batch /\ toDevice # <<>> /\ Len(args) + Len(toDevice) = Command

Before ==
  /\ dev = "wait" /\ host \in {"read", "lines", "send"}
  /\ proto.state \in {"WAITING_FOR_READY", "READY", "RUNNING"}
  /\ ReadyOnly(chunk) /\ ReadyOnly(toHost)
  /\ Idle \/ Asked \/ Sending \/ Sent

\* The command has been executed: the host reads on until it sees the DONE,
\* and no READY comes before that.
After ==
  /\ host # "send" /\ proto.state \in {"RUNNING", "FINISHED"}
  /\ host \in {"post", "closed"} => proto.state = "FINISHED"
  /\ \A i \in 1..Len(toDevice) : toDevice[i].line = OnDone
  /\ dev = "run" => proto.state = "RUNNING" /\ AllDamaged(chunk) /\ AllDamaged(toHost)
  /\ dev # "run" /\ proto.state = "RUNNING" =>
       \/ DoneFirst(chunk)
       \/ AllHarmless(chunk) /\ DoneFirst(toHost)

Delivery ==
  /\ host # "lines" => chunk = <<>>
  /\ runs \in {<<>>, <<Whole>>}
  /\ runs = <<>> => Before
  /\ runs # <<>> => After

IInv == TypeOK /\ Delivery
-----------------------------------------------------------------------------
(* What the steps do to the lines under way.                               *)

\* Feeding the first line.
LEMMA Taken ==
  ASSUME NEW s \in Seq(Line), s # <<>>
  PROVE  /\ Head(s) \in Line /\ Tail(s) \in Seq(Line)
         /\ ReadyOnly(s) => Head(s) \in Announcement /\ ReadyOnly(Tail(s))
         /\ NoReady(s) => Head(s) # Msg("READY") /\ NoReady(Tail(s))
         /\ OneReady(s) => /\ OneReady(Tail(s))
                           /\ Head(s) = Msg("READY") => NoReady(Tail(s))
         /\ AllDamaged(s) => ~Head(s).ok /\ AllDamaged(Tail(s))
         /\ AllHarmless(s) => Harmless(Head(s)) /\ AllHarmless(Tail(s))
         /\ DoneFirst(s) => \/ IsDone(Head(s))
                            \/ Harmless(Head(s)) /\ DoneFirst(Tail(s))
<1> DEFINE t == Tail(s)
<1>1. /\ Head(s) \in Line /\ t \in Seq(Line) /\ Len(t) = Len(s) - 1
      /\ \A i \in 1..Len(t) : t[i] = s[i + 1]
  BY HeadTailProperties
<1>2. Len(s) \in Nat \ {0} /\ Head(s) = s[1]
  BY EmptySeq
<1> HIDE DEF t
<1>3. \A i \in 1..Len(t) : i + 1 \in 1..Len(s) /\ i + 1 # 1
  BY <1>1, <1>2
<1>4. ReadyOnly(s) => Head(s) \in Announcement /\ ReadyOnly(t)
  BY <1>1, <1>2, <1>3 DEF ReadyOnly
<1>5. NoReady(s) => Head(s) # Msg("READY") /\ NoReady(t)
  BY <1>1, <1>2, <1>3 DEF NoReady
<1>6. OneReady(s) => OneReady(t) /\ (Head(s) = Msg("READY") => NoReady(t))
  <2> SUFFICES ASSUME OneReady(s)
               PROVE  OneReady(t) /\ (Head(s) = Msg("READY") => NoReady(t))
    OBVIOUS
  <2>1. 1 \in 1..Len(s)
    BY <1>2
  <2>2. OneReady(t)
    BY <1>1, <1>2, <1>3 DEF OneReady
  <2>3. Head(s) = Msg("READY") => NoReady(t)
    BY <1>1, <1>2, <1>3, <2>1 DEF OneReady, NoReady
  <2> QED BY <2>2, <2>3
<1>7. AllDamaged(s) => ~Head(s).ok /\ AllDamaged(t)
  BY <1>1, <1>2, <1>3 DEF AllDamaged
<1>8. AllHarmless(s) => Harmless(Head(s)) /\ AllHarmless(t)
  BY <1>1, <1>2, <1>3 DEF AllHarmless
<1>9. DoneFirst(s) => IsDone(Head(s)) \/ (Harmless(Head(s)) /\ DoneFirst(t))
  <2> SUFFICES ASSUME NEW d \in 1..Len(s), IsDone(s[d]), d # 1,
                      \A i \in 1..(d - 1) : Harmless(s[i])
               PROVE  Harmless(Head(s)) /\ DoneFirst(t)
    BY <1>2, Zenon DEF DoneFirst
  <2>1. d - 1 \in 1..Len(t) /\ t[d - 1] = s[d] /\ 1 \in 1..(d - 1)
    BY <1>1, <1>2
  <2>2. \A i \in 1..((d - 1) - 1) : Harmless(t[i])
    BY <1>1, <1>2
  <2> QED BY <1>2, <2>1, <2>2 DEF DoneFirst
<1> QED BY <1>1, <1>4, <1>5, <1>6, <1>7, <1>8, <1>9 DEF t

\* Reading what has arrived, or the first part of it: a is read, b is left.
SplitInto(s, a, b) ==
  /\ a \in Seq(Line) /\ b \in Seq(Line)
  /\ ReadyOnly(s) => ReadyOnly(a) /\ ReadyOnly(b)
  /\ NoReady(s) => NoReady(a) /\ NoReady(b)
  /\ OneReady(s) => (NoReady(a) /\ OneReady(b)) \/ (OneReady(a) /\ NoReady(b))
  /\ AllDamaged(s) => AllDamaged(a) /\ AllDamaged(b)
  /\ DoneFirst(s) => DoneFirst(a) \/ (AllHarmless(a) /\ DoneFirst(b))

\* A read is such a split, wherever it ends.
LEMMA Split ==
  ASSUME NEW s \in Seq(Line), NEW n \in 1..Len(s)
  PROVE  SplitInto(s, SubSeq(s, 1, n), SubSeq(s, n + 1, Len(s)))
<1> DEFINE a == SubSeq(s, 1, n)
           b == SubSeq(s, n + 1, Len(s))
<1>1. Len(s) \in Nat /\ \A i \in 1..Len(s) : s[i] \in Line
  BY ElementOfSeq, LenProperties
<1>2. /\ a \in Seq(Line) /\ Len(a) = n
      /\ \A i \in 1..n : a[i] = s[i]
  <2>1. \A i \in 1..n : s[i] \in Line
    BY <1>1
  <2>2. 1 \in Int /\ n \in Int /\ 1 <= n
    BY <1>1
  <2>3. /\ a \in Seq(Line) /\ Len(a) = n - 1 + 1
        /\ \A i \in 1..(n - 1 + 1) : a[i] = s[1 + i - 1]
    BY <2>1, <2>2, SubSeqProperties
  <2> QED BY <2>2, <2>3
<1>3. /\ b \in Seq(Line) /\ Len(b) = Len(s) - n
      /\ \A i \in 1..Len(b) : b[i] = s[n + i]
  <2>1. \A i \in (n + 1)..Len(s) : s[i] \in Line
    BY <1>1
  <2>2. n + 1 \in Int /\ Len(s) \in Int /\ n <= Len(s)
    BY <1>1
  <2>3. /\ b \in Seq(Line)
        /\ Len(b) = IF n + 1 <= Len(s) THEN Len(s) - (n + 1) + 1 ELSE 0
        /\ \A i \in 1..(Len(s) - (n + 1) + 1) : b[i] = s[n + 1 + i - 1]
    BY <2>1, <2>2, SubSeqProperties
  <2> QED BY <1>1, <2>2, <2>3
<1> HIDE DEF a, b
<1>4. \A i \in 1..Len(a) : i \in 1..Len(s) /\ a[i] = s[i] /\ i <= n
  BY <1>1, <1>2
<1>5. \A i \in 1..Len(b) : n + i \in 1..Len(s) /\ b[i] = s[n + i] /\ n + i > n
  BY <1>1, <1>3
<1>6. ReadyOnly(s) => ReadyOnly(a) /\ ReadyOnly(b)
  BY <1>4, <1>5 DEF ReadyOnly
<1>7. NoReady(s) => NoReady(a) /\ NoReady(b)
  BY <1>4, <1>5 DEF NoReady
<1>8. AllDamaged(s) => AllDamaged(a) /\ AllDamaged(b)
  BY <1>4, <1>5 DEF AllDamaged
<1>9. ASSUME OneReady(s)
      PROVE  (NoReady(a) /\ OneReady(b)) \/ (OneReady(a) /\ NoReady(b))
  <2>1. OneReady(a)
    BY <1>4, <1>9 DEF OneReady
  <2>2. OneReady(b)
    <3> SUFFICES ASSUME NEW i \in 1..Len(b), NEW j \in 1..Len(b),
                        b[i] = Msg("READY"), b[j] = Msg("READY")
                 PROVE  i = j
      BY DEF OneReady
    <3>1. n + i = n + j
      BY <1>5, <1>9 DEF OneReady
    <3> QED BY <3>1, <1>3, <1>1
  <2>3. NoReady(a) \/ NoReady(b)
    <3> SUFFICES ASSUME NEW i \in 1..Len(a), a[i] = Msg("READY"),
                        NEW j \in 1..Len(b), b[j] = Msg("READY")
                 PROVE  FALSE
      BY DEF NoReady
    <3>1. i = n + j
      BY <1>4, <1>5, <1>9 DEF OneReady
    <3> QED BY <1>1, <1>2, <1>3, <3>1
  <2> QED BY <2>1, <2>2, <2>3
<1>10. ASSUME DoneFirst(s)
       PROVE  DoneFirst(a) \/ (AllHarmless(a) /\ DoneFirst(b))
  <2> PICK d \in 1..Len(s) : IsDone(s[d]) /\ \A i \in 1..(d - 1) : Harmless(s[i])
    BY <1>10 DEF DoneFirst
  <2>1. CASE d <= n
    <3>1. d \in 1..Len(a) /\ a[d] = s[d]
      BY <1>1, <1>2, <2>1
    <3>2. \A i \in 1..(d - 1) : Harmless(a[i])
      BY <1>1, <1>2, <2>1
    <3> QED BY <3>1, <3>2 DEF DoneFirst
  <2>2. CASE n < d
    <3>1. AllHarmless(a)
      BY <1>1, <1>2, <2>2 DEF AllHarmless
    <3>2. d - n \in 1..Len(b) /\ b[d - n] = s[d]
      BY <1>1, <1>3, <2>2
    <3>3. \A i \in 1..((d - n) - 1) : Harmless(b[i])
      <4> SUFFICES ASSUME NEW i \in 1..((d - n) - 1) PROVE Harmless(b[i])
        OBVIOUS
      <4>1. i \in 1..Len(b) /\ n + i \in 1..(d - 1)
        BY <1>1, <1>3, <2>2
      <4> QED BY <1>5, <4>1
    <3> QED BY <3>1, <3>2, <3>3 DEF DoneFirst
  <2> QED BY <1>1, <2>1, <2>2
<1>11. SplitInto(s, a, b)
  BY <1>2, <1>3, <1>6, <1>7, <1>8, <1>9, <1>10 DEF SplitInto
<1> QED BY <1>11 DEF a, b

\* Writing more lines.
LEMMA Joined ==
  ASSUME NEW s \in Seq(Line), NEW t \in Seq(Line)
  PROVE  /\ s \o t \in Seq(Line)
         /\ ReadyOnly(s) /\ ReadyOnly(t) => ReadyOnly(s \o t)
         /\ NoReady(s) /\ Len(t) = 1 => OneReady(s \o t)
         /\ DoneFirst(s) => DoneFirst(s \o t)
         /\ AllDamaged(s) /\ DoneFirst(t) => DoneFirst(s \o t)
<1> DEFINE u == s \o t
<1>1. /\ u \in Seq(Line) /\ Len(u) = Len(s) + Len(t)
      /\ \A i \in 1..(Len(s) + Len(t)) :
           u[i] = IF i <= Len(s) THEN s[i] ELSE t[i - Len(s)]
  BY ConcatProperties
<1>2. Len(s) \in Nat /\ Len(t) \in Nat
  BY LenProperties
<1> HIDE DEF u
<1>3. \A i \in 1..Len(u) : \/ i \in 1..Len(s) /\ u[i] = s[i]
                           \/ /\ i - Len(s) \in 1..Len(t)
                              /\ u[i] = t[i - Len(s)]
  BY <1>1, <1>2
<1>4. ReadyOnly(s) /\ ReadyOnly(t) => ReadyOnly(u)
  BY <1>3 DEF ReadyOnly
<1>5. NoReady(s) /\ Len(t) = 1 => OneReady(u)
  <2> SUFFICES ASSUME NoReady(s), Len(t) = 1,
                      NEW i \in 1..Len(u), NEW j \in 1..Len(u),
                      u[i] = Msg("READY"), u[j] = Msg("READY")
               PROVE  i = j
    BY DEF OneReady
  <2>1. i - Len(s) \in 1..Len(t) /\ j - Len(s) \in 1..Len(t)
    BY <1>3 DEF NoReady
  <2> QED BY <1>1, <1>2, <2>1
<1>6. DoneFirst(s) => DoneFirst(u)
  <2> SUFFICES ASSUME NEW d \in 1..Len(s), IsDone(s[d]),
                      \A i \in 1..(d - 1) : Harmless(s[i])
               PROVE  DoneFirst(u)
    BY DEF DoneFirst
  <2>1. d \in 1..Len(u) /\ u[d] = s[d]
    BY <1>1, <1>2
  <2>2. \A i \in 1..(d - 1) : u[i] = s[i]
    BY <1>1, <1>2
  <2> QED BY <2>1, <2>2 DEF DoneFirst
<1>7. AllDamaged(s) /\ DoneFirst(t) => DoneFirst(u)
  <2> SUFFICES ASSUME AllDamaged(s), NEW d \in 1..Len(t), IsDone(t[d]),
                      \A i \in 1..(d - 1) : Harmless(t[i])
               PROVE  DoneFirst(u)
    BY DEF DoneFirst
  <2> DEFINE e == Len(s) + d
  <2>1. e \in 1..Len(u) /\ u[e] = t[d]
    <3>1. e \in 1..(Len(s) + Len(t)) /\ ~(e <= Len(s)) /\ e - Len(s) = d
      BY <1>2
    <3> HIDE DEF e
    <3> QED BY <1>1, <3>1
  <2>2. ASSUME NEW i \in 1..(e - 1)
        PROVE  Harmless(u[i])
    <3>1. i \in 1..Len(u) /\ i - Len(s) <= d - 1
      BY <1>1, <1>2
    <3>2. CASE i \in 1..Len(s) /\ u[i] = s[i]
      BY <3>2 DEF AllDamaged, Harmless
    <3>3. CASE i - Len(s) \in 1..Len(t) /\ u[i] = t[i - Len(s)]
      <4>1. i - Len(s) \in 1..(d - 1)
        BY <1>2, <3>1, <3>3
      <4> QED BY <3>3, <4>1
    <3> QED BY <1>3, <3>1, <3>2, <3>3
  <2> QED BY <2>1, <2>2 DEF DoneFirst
<1> QED BY <1>1, <1>4, <1>5, <1>6, <1>7 DEF u
-----------------------------------------------------------------------------
(* Type correctness.                                                       *)

\* The lines either side writes.
LEMMA LineType ==
  /\ \A suite \in SuiteNames, name \in TestNames :
       <<CaseLine(suite, name), Msg("DONE")>> \in Seq(Line)
  /\ \A line \in Announcement : line \in Line /\ <<line>> \in Seq(Line)
<1>1. Msg("DONE") \in Line /\ Msg("READY") \in Line
  BY DEF Msg, Line, Tag
<1>2. \A suite \in SuiteNames, name \in TestNames : CaseLine(suite, name) \in Line
  BY DEF CaseLine, Line, Tag
<1>3. \A ok \in BOOLEAN : [Msg("READY") EXCEPT !.ok = ok] \in Line
  BY DEF Msg, Line, Tag
<1>4. \A a, b \in Line : <<a, b>> \in Seq(Line) /\ <<a>> \in Seq(Line)
  OBVIOUS
<1>5. Announcement \subseteq Line
  BY <1>1, <1>3 DEF Announcement
<1> QED BY <1>1, <1>2, <1>4, <1>5

\* READY goes out sound or damaged.
LEMMA ReadyStep ==
  ASSUME SignalReady
  PROVE  /\ \E line \in Announcement : Output(<<line>>)
         /\ dev = "wait" /\ (rushed \/ (Timely => ~Answering))
         /\ args' = <<>> /\ rushed' = FALSE
         /\ noise' \in {noise, noise + 1} /\ (noise' = noise \/ noise < MaxNoise)
         /\ UNCHANGED <<proto, host, chunk, next, dev, runs, toDevice>>
<1>1. \A quality \in {"good", "bad"} :
        [Msg("READY") EXCEPT !.ok = (quality = "good")] \in Announcement
  <2>1. [Msg("READY") EXCEPT !.ok = TRUE] = Msg("READY")
    <3>1. \A m \in Line : m.ok = TRUE => [m EXCEPT !.ok = TRUE] = m
      BY DEF Line
    <3>2. Msg("READY") \in Line /\ Msg("READY").ok = TRUE
      BY DEF Msg, Line, Tag
    <3> QED BY <3>1, <3>2, Zenon
  <2>2. \A ok \in {TRUE, FALSE} : [Msg("READY") EXCEPT !.ok = ok] \in Announcement
    BY <2>1, Zenon DEF Announcement
  <2>3. \A quality : (quality = "good") \in {TRUE, FALSE}
    BY Zenon
  <2> QED BY <2>2, <2>3, Zenon
<1>2. PICK quality \in {"good", "bad"} :
        /\ Arrives(quality, TRUE)
        /\ Output(<<[Msg("READY") EXCEPT !.ok = (quality = "good")]>>)
  BY Zenon DEF SignalReady
<1>3. \E line \in Announcement : Output(<<line>>)
  BY <1>1, <1>2, Zenon
<1>4. noise' \in {noise, noise + 1} /\ (noise' = noise \/ noise < MaxNoise)
  BY <1>2 DEF Arrives
<1>5. dev = "wait" /\ (rushed \/ (Timely => ~Answering)) /\ args' = <<>> /\ rushed' = FALSE
  BY Zenon DEF SignalReady
<1>6. UNCHANGED <<proto, host, chunk, next, dev, runs, toDevice>>
  BY Zenon DEF SignalReady, hostVars
<1> QED BY <1>3, <1>4, <1>5, <1>6

\* Every step keeps the types.
LEMMA TypeStep ==
  ASSUME TypeOK, [Next]_vars
  PROVE  TypeOK'
<1> USE HandshakeAssumption DEF TypeOK, Command, OnDone
<1>1. CASE ReadLines
  <2> PICK n \in 1..Len(toHost) : /\ chunk' = SubSeq(toHost, 1, n)
                                 /\ toHost' = SubSeq(toHost, n + 1, Len(toHost))
    BY <1>1 DEF ReadLines
  <2>1. chunk' \in Seq(Line) /\ toHost' \in Seq(Line)
    BY Split DEF SplitInto
  <2> QED BY <1>1, <2>1 DEF ReadLines, deviceVars
<1>2. CASE FeedLine
  <2>1. Head(chunk) \in Line /\ Tail(chunk) \in Seq(Line)
    BY <1>2, Taken DEF FeedLine
  <2>2. proto' \in Protocol
    BY <1>2, <2>1, FeedType DEF FeedLine
  <2> QED BY <1>2, <2>1, <2>2 DEF FeedLine, deviceVars
<1>3. CASE TurnLoop
  BY <1>3 DEF TurnLoop, deviceVars
<1>4. CASE SendLine
  <2>1. /\ toDevice' \in Seq(Wire) /\ noise' \in 0..MaxNoise
    <3> PICK quality \in {"good", "stray", "bad"} :
               /\ Arrives(quality, next \in Fragile)
               /\ toDevice' = Append(toDevice, [line |-> next, crc |-> quality])
      BY <1>4 DEF SendLine
    <3>1. [line |-> next, crc |-> quality] \in Wire
      BY DEF Wire
    <3>2. toDevice' \in Seq(Wire)
      BY <3>1
    <3>3. noise' \in 0..MaxNoise
      BY DEF Arrives
    <3> QED BY <3>2, <3>3
  <2>2. CommandSent(proto) \in Protocol
    BY MethodType
  <2>3. proto' \in Protocol /\ host' \in {"read", "send"} /\ next' \in 1..Command
    BY <1>4, <2>2 DEF SendLine
  <2> QED BY <1>4, <2>1, <2>3 DEF SendLine, deviceVars
<1>5. CASE PostTest
  <2>1. [line |-> OnDone, crc |-> "none"] \in Wire
    BY DEF Wire
  <2>2. toDevice' \in Seq(Wire)
    BY <1>5, <2>1 DEF PostTest
  <2> QED BY <1>5, <2>2 DEF PostTest, deviceVars
<1>6. CASE SignalReady
  <2> PICK line \in Announcement : Output(<<line>>)
    BY <1>6, ReadyStep
  <2>1. <<line>> \in Seq(Line)
    BY LineType
  <2>2. toHost' \in Seq(Line)
    BY <2>1, ConcatProperties DEF Output
  <2> QED BY <1>6, <2>2, ReadyStep
<1>7. CASE ReadLine
  <2>1. Head(toDevice) \in Wire /\ toDevice' \in Seq(Wire)
    BY <1>7, HeadTailProperties DEF ReadLine
  <2>2. args' \in Seq(1..NArgs) /\ rushed' \in BOOLEAN
    <3>1. rushed' \in BOOLEAN
      BY <1>7 DEF ReadLine, Valid
    <3>2. Head(toDevice).line < Command => Head(toDevice).line \in 1..NArgs
      BY <2>1 DEF Wire
    <3>3. \/ args' \in {<<>>, args}
          \/ /\ args' = Append(args, Head(toDevice).line)
             /\ Head(toDevice).line < Command
      BY <1>7 DEF ReadLine
    <3> DEFINE line == Head(toDevice).line
    <3>4. line < Command => Append(args, line) \in Seq(1..NArgs)
      <4>1. \A n \in 1..NArgs : Append(args, n) \in Seq(1..NArgs)
        BY AppendProperties
      <4> QED BY <3>2, <4>1
    <3> HIDE DEF line
    <3>5. <<>> \in Seq(1..NArgs) /\ args \in Seq(1..NArgs)
      BY EmptySeq
    <3>6. args' \in Seq(1..NArgs)
      BY <3>3, <3>4, <3>5, Zenon DEF line
    <3> QED BY <3>1, <3>6
  <2>3. runs' \in Seq(Seq(1..NArgs)) /\ dev' \in {"wait", "run", "asleep"}
    <3>1. \/ dev' = "run" /\ runs' = Append(runs, args)
          \/ dev' \in {"wait", "asleep"} /\ runs' = runs
      BY <1>7 DEF ReadLine
    <3>2. Append(runs, args) \in Seq(Seq(1..NArgs))
      BY AppendProperties
    <3> QED BY <3>1, <3>2
  <2> QED BY <1>7, <2>1, <2>2, <2>3 DEF ReadLine, hostVars
<1>8. CASE RunTests
  <2>1. toHost' \in Seq(Line)
    <3> PICK suite \in SuiteNames, name \in TestNames :
               Output(<<CaseLine(suite, name), Msg("DONE")>>)
      BY <1>8 DEF RunTests
    <3> DEFINE lines == <<CaseLine(suite, name), Msg("DONE")>>
    <3>1. lines \in Seq(Line)
      BY LineType
    <3> HIDE DEF lines
    <3>2. toHost \o lines \in Seq(Line)
      BY <3>1, ConcatProperties
    <3> QED BY <3>2 DEF Output, lines
  <2> QED BY <1>8, <2>1 DEF RunTests, hostVars
<1>9. CASE UNCHANGED vars
  BY <1>9 DEF vars, hostVars, deviceVars
<1> QED BY <1>1, <1>2, <1>3, <1>4, <1>5, <1>6, <1>7, <1>8, <1>9
    DEF Next, HostNext, DeviceNext

\* The first state is well formed.
LEMMA TypeInit == Init => TypeOK
BY HandshakeAssumption
   DEF Init, TypeOK, NewProtocol, Protocol, ProtocolState, Command

\* TypeOK of every instance, also one whose lines may all be damaged: what
\* the two sides hold and send stays well formed.
THEOREM TypeCorrect == Spec => []TypeOK
BY TypeInit, TypeStep, PTL DEF Spec
-----------------------------------------------------------------------------
(* The order of what the device is sent and holds.                         *)

\* Whole answers follow one another; the post-test command comes after them.
Follows(s) ==
  \A i \in 1..(Len(s) - 1) :
    IF s[i].line < Command THEN s[i + 1].line = s[i].line + 1
    ELSE s[i + 1].line \in {1, OnDone}

\* The last line of s is the one before next, or the end of an answer.
EndsAt(s, sending) ==
  s # <<>> => IF sending THEN s[Len(s)].line = next - 1 ELSE s[Len(s)].line >= Command

\* Lines up to last, one after the other.
Run(s, last) == \A i \in 1..Len(s) : s[i] = last - Len(s) + i

\* What the device holds ends where the next line to arrive goes on.
Held ==
  dev = "wait" /\ args # <<>> =>
    /\ Run(args, args[Len(args)])
    /\ IF toDevice = <<>> THEN host = "send" /\ next = args[Len(args)] + 1
       ELSE toDevice[1].line = args[Len(args)] + 1

Stream ==
  /\ Follows(toDevice)
  /\ EndsAt(toDevice, host = "send" /\ next > 1)
  /\ Held /\ ArgsTail

\* One line more, as the host writes it.
LEMMA Followed ==
  ASSUME NEW s \in Seq(Wire), NEW w \in Wire, Follows(s),
         s # <<>> => IF s[Len(s)].line < Command THEN w.line = s[Len(s)].line + 1
                     ELSE w.line \in {1, OnDone}
  PROVE  /\ Follows(Append(s, w))
         /\ Append(s, w) # <<>> /\ Append(s, w)[Len(Append(s, w))] = w
         /\ Append(s, w)[1] = IF s = <<>> THEN w ELSE s[1]
<1> DEFINE t == Append(s, w)
<1>1. /\ Len(s) \in Nat /\ Len(t) = Len(s) + 1 /\ t[Len(s) + 1] = w
      /\ \A i \in 1..Len(s) : t[i] = s[i]
      /\ s = <<>> <=> Len(s) = 0
  BY AppendProperties, EmptySeq, LenProperties
<1>2. t \in Seq(Wire) /\ t # <<>>
  BY AppendProperties
<1> HIDE DEF t
<1>3. ASSUME NEW i \in 1..(Len(t) - 1)
      PROVE  IF t[i].line < Command THEN t[i + 1].line = t[i].line + 1
             ELSE t[i + 1].line \in {1, OnDone}
  <2>1. CASE i < Len(s)
    <3>1. i \in 1..(Len(s) - 1) /\ t[i] = s[i] /\ t[i + 1] = s[i + 1]
      BY <1>1, <2>1
    <3> QED BY <3>1 DEF Follows
  <2>2. CASE i = Len(s)
    <3>1. s # <<>> /\ t[i] = s[Len(s)] /\ t[i + 1] = w
      BY <1>1, <2>2
    <3> QED BY <3>1
  <2> QED BY <1>1, <2>1, <2>2
<1>4. Follows(t)
  BY <1>3, Zenon DEF Follows
<1>5. t[Len(t)] = w /\ t[1] = IF s = <<>> THEN w ELSE s[1]
  BY <1>1
<1> QED BY <1>2, <1>4, <1>5 DEF t

\* One line less, as the device takes it.
LEMMA Taking ==
  ASSUME NEW s \in Seq(Wire), s # <<>>, Follows(s)
  PROVE  /\ s[1] = Head(s) /\ Head(s) \in Wire /\ Tail(s) \in Seq(Wire) /\ Follows(Tail(s))
         /\ Tail(s) # <<>> =>
              /\ Tail(s)[Len(Tail(s))] = s[Len(s)]
              /\ IF Head(s).line < Command THEN Tail(s)[1].line = Head(s).line + 1
                 ELSE Tail(s)[1].line \in {1, OnDone}
         /\ Tail(s) = <<>> => Head(s) = s[Len(s)]
<1> DEFINE t == Tail(s)
<1>1. /\ Head(s) \in Wire /\ t \in Seq(Wire) /\ Len(t) = Len(s) - 1 /\ Head(s) = s[1]
      /\ \A i \in 1..Len(t) : t[i] = s[i + 1]
  BY HeadTailProperties
<1>2. Len(s) \in Nat \ {0} /\ Len(t) \in Nat /\ (t = <<>> <=> Len(t) = 0)
  BY <1>1, EmptySeq, LenProperties
<1> HIDE DEF t
<1>3. ASSUME NEW i \in 1..(Len(t) - 1)
      PROVE  IF t[i].line < Command THEN t[i + 1].line = t[i].line + 1
             ELSE t[i + 1].line \in {1, OnDone}
  <2>1. i + 1 \in 1..(Len(s) - 1) /\ t[i] = s[i + 1] /\ t[i + 1] = s[(i + 1) + 1]
    BY <1>1, <1>2
  <2> QED BY <2>1 DEF Follows
<1>4. Follows(t)
  BY <1>3, Zenon DEF Follows
<1>5. t # <<>> => t[Len(t)] = s[Len(s)] /\ t[1] = s[1 + 1] /\ 1 \in 1..(Len(s) - 1)
  BY <1>1, <1>2
<1>6. t # <<>> => IF Head(s).line < Command THEN t[1].line = Head(s).line + 1
                  ELSE t[1].line \in {1, OnDone}
  BY <1>1, <1>5 DEF Follows
<1>7. t = <<>> => Head(s) = s[Len(s)]
  <2>1. t = <<>> => Len(s) = 1
    BY <1>1, <1>2
  <2> QED BY <1>1, <2>1, Zenon
<1>8. /\ s[1] = Head(s) /\ Head(s) \in Wire /\ t \in Seq(Wire) /\ Follows(t)
      /\ t # <<>> => /\ t[Len(t)] = s[Len(s)]
                     /\ IF Head(s).line < Command THEN t[1].line = Head(s).line + 1
                        ELSE t[1].line \in {1, OnDone}
      /\ t = <<>> => Head(s) = s[Len(s)]
  BY <1>1, <1>4, <1>5, <1>6, <1>7
<1> QED BY <1>8, Zenon DEF t

\* The first state.
LEMMA StreamInit == Init => Stream
BY DEF Init, Stream, Follows, EndsAt, Held, ArgsTail

\* The steps in which the host writes and the device does not read.
LEMMA StreamSent ==
  ASSUME TypeOK, Stream, SendLine
  PROVE  Stream'
<1> PICK quality \in {"good", "stray", "bad"} :
           toDevice' = Append(toDevice, [line |-> next, crc |-> quality])
  BY DEF SendLine
<1> DEFINE w == [line |-> next, crc |-> quality]
<1>1. /\ host = "send" /\ UNCHANGED <<dev, args, runs>>
      /\ next = Command => host' = "read"
      /\ next # Command => host' = "send" /\ next' = next + 1
  BY DEF SendLine, deviceVars
<1>2. /\ NArgs \in Nat /\ Command = NArgs + 1 /\ OnDone = NArgs + 2
      /\ next \in 1..Command /\ toDevice \in Seq(Wire)
  BY HandshakeAssumption DEF TypeOK, Command, OnDone
<1>3. w \in Wire /\ w.line = next
  BY <1>2 DEF Wire
<1> HIDE DEF w
<1>4. toDevice # <<>> => IF next > 1 THEN toDevice[Len(toDevice)].line = next - 1
                         ELSE toDevice[Len(toDevice)].line >= Command
  BY <1>1 DEF Stream, EndsAt
<1>5. toDevice # <<>> => toDevice[Len(toDevice)] \in Wire
  BY <1>2, EmptySeq, ElementOfSeq, LenProperties
<1>6. toDevice # <<>> =>
        IF toDevice[Len(toDevice)].line < Command
        THEN w.line = toDevice[Len(toDevice)].line + 1 ELSE w.line \in {1, OnDone}
  BY <1>2, <1>3, <1>4, <1>5 DEF Wire
<1>7. /\ Follows(toDevice)' /\ toDevice' # <<>> /\ toDevice'[Len(toDevice')] = w
      /\ toDevice'[1] = IF toDevice = <<>> THEN w ELSE toDevice[1]
  <2>1. Follows(toDevice) /\ toDevice' = Append(toDevice, w)
    BY DEF Stream, w
  <2> QED BY <1>2, <1>3, <1>6, <2>1, Followed
<1>8. EndsAt(toDevice, host = "send" /\ next > 1)'
  BY <1>1, <1>2, <1>3, <1>7 DEF EndsAt
<1>9. Held'
  BY <1>1, <1>3, <1>7 DEF Stream, Held
<1>10. ArgsTail'
  BY <1>1 DEF Stream, ArgsTail
<1> QED BY <1>7, <1>8, <1>9, <1>10 DEF Stream

LEMMA StreamPost ==
  ASSUME TypeOK, Stream, PostTest
  PROVE  Stream'
<1> DEFINE w == [line |-> OnDone, crc |-> "none"]
<1>1. /\ host = "post" /\ host' = "closed" /\ UNCHANGED <<dev, args, runs, next>>
      /\ toDevice' = Append(toDevice, w)
  BY DEF PostTest, deviceVars
<1>2. NArgs \in Nat /\ Command = NArgs + 1 /\ OnDone = NArgs + 2 /\ toDevice \in Seq(Wire)
  BY HandshakeAssumption DEF TypeOK, Command, OnDone
<1>3. w \in Wire /\ w.line = OnDone
  BY <1>2 DEF Wire
<1> HIDE DEF w
<1>4. toDevice # <<>> => toDevice[Len(toDevice)].line >= Command
  BY <1>1 DEF Stream, EndsAt
<1>5. toDevice # <<>> => toDevice[Len(toDevice)] \in Wire
  BY <1>2, EmptySeq, ElementOfSeq, LenProperties
<1>6. toDevice # <<>> =>
        IF toDevice[Len(toDevice)].line < Command
        THEN w.line = toDevice[Len(toDevice)].line + 1 ELSE w.line \in {1, OnDone}
  BY <1>2, <1>3, <1>4, <1>5 DEF Wire
<1>7. /\ Follows(toDevice)' /\ toDevice' # <<>> /\ toDevice'[Len(toDevice')] = w
      /\ toDevice'[1] = IF toDevice = <<>> THEN w ELSE toDevice[1]
  BY <1>1, <1>2, <1>3, <1>6, Followed DEF Stream
<1>8. EndsAt(toDevice, host = "send" /\ next > 1)'
  BY <1>1, <1>2, <1>3, <1>7 DEF EndsAt
<1>9. Held'
  BY <1>1, <1>7 DEF Stream, Held
<1>10. ArgsTail'
  BY <1>1 DEF Stream, ArgsTail
<1> QED BY <1>7, <1>8, <1>9, <1>10 DEF Stream

\* The device takes a line: what it held goes on with it, or is dropped, or is
\* what the tests are run with.
LEMMA StreamRead ==
  ASSUME TypeOK, Stream, ReadLine
  PROVE  Stream'
<1> DEFINE received == Head(toDevice)
           last     == args[Len(args)]
<1>1. /\ dev = "wait" /\ toDevice # <<>> /\ toDevice' = Tail(toDevice)
      /\ args' = IF ~Valid(received) THEN <<>>
                 ELSE IF received.line < Command THEN Append(args, received.line)
                 ELSE args
      /\ IF Valid(received) /\ received.line = Command
         THEN dev' = "run" /\ runs' = Append(runs, args)
         ELSE runs' = runs
      /\ dev' = "wait" => ~(Valid(received) /\ received.line >= Command)
      /\ UNCHANGED <<host, next>>
  <2>1. received \in Wire
    BY HeadTailProperties DEF ReadLine, TypeOK
  <2>2. received.line >= Command => received.line \in {Command, OnDone}
    BY <2>1, HandshakeAssumption DEF Wire, Command, OnDone
  <2>3. dev' = "wait" => ~(Valid(received) /\ received.line >= Command)
    BY <2>2 DEF ReadLine
  <2> QED BY <2>3 DEF ReadLine, hostVars
<1>2. /\ NArgs \in Nat /\ Command = NArgs + 1 /\ OnDone = NArgs + 2 /\ next \in 1..Command
      /\ args \in Seq(1..NArgs) /\ Len(args) \in Nat /\ (args = <<>> <=> Len(args) = 0)
      /\ runs \in Seq(Seq(1..NArgs)) /\ toDevice \in Seq(Wire)
  BY HandshakeAssumption, EmptySeq, LenProperties DEF TypeOK, Command, OnDone
<1>3. /\ toDevice[1] = received /\ received.line \in 1..OnDone /\ Follows(toDevice)'
      /\ toDevice' # <<>> =>
           /\ toDevice'[Len(toDevice')] = toDevice[Len(toDevice)]
           /\ IF received.line < Command THEN toDevice'[1].line = received.line + 1
              ELSE toDevice'[1].line \in {1, OnDone}
      /\ toDevice' = <<>> => received = toDevice[Len(toDevice)]
  BY <1>1, <1>2, Taking DEF Stream, Wire
<1>4. args # <<>> => Run(args, last) /\ received.line = last + 1
  BY <1>1, <1>3 DEF Stream, Held
<1>5. args # <<>> => last \in 1..NArgs
  BY <1>2, ElementOfSeq
<1> HIDE DEF received, last
<1>6. EndsAt(toDevice, host = "send" /\ next > 1)'
  BY <1>1, <1>3 DEF Stream, EndsAt
<1>7. Held'
  <2> SUFFICES ASSUME dev' = "wait", args' # <<>>
               PROVE  /\ Run(args', args'[Len(args')])
                      /\ IF toDevice' = <<>>
                         THEN host' = "send" /\ next' = args'[Len(args')] + 1
                         ELSE toDevice'[1].line = args'[Len(args')] + 1
    BY DEF Held
  <2>1. Valid(received) /\ received.line < Command /\ args' = Append(args, received.line)
    BY <1>1, <1>2, <1>3
  <2>2. /\ Len(args') = Len(args) + 1 /\ args'[Len(args) + 1] = received.line
        /\ \A i \in 1..Len(args) : args'[i] = args[i]
    <3>1. received.line \in 1..NArgs
      BY <1>2, <1>3, <2>1
    <3> QED BY <1>2, <2>1, <3>1, AppendProperties
  <2>3. Run(args', received.line)
    <3> SUFFICES ASSUME NEW i \in 1..Len(args')
                 PROVE  args'[i] = received.line - Len(args') + i
      BY DEF Run
    <3>1. CASE i = Len(args) + 1
      BY <1>2, <1>3, <2>2, <3>1
    <3>2. CASE i \in 1..Len(args)
      <4>1. args # <<>>
        BY <1>2, <3>2
      <4>2. args[i] = last - Len(args) + i /\ received.line = last + 1
        BY <1>4, <3>2, <4>1 DEF Run
      <4> QED BY <1>2, <1>5, <2>2, <3>2, <4>1, <4>2
    <3> QED BY <1>2, <2>2, <3>1, <3>2
  <2>4. IF toDevice' = <<>> THEN host' = "send" /\ next' = received.line + 1
        ELSE toDevice'[1].line = received.line + 1
    <3>1. CASE toDevice' = <<>>
      <4>1. received = toDevice[Len(toDevice)]
        BY <1>3, <3>1
      <4>2. IF host = "send" /\ next > 1 THEN received.line = next - 1
            ELSE received.line >= Command
        BY <1>1, <4>1 DEF Stream, EndsAt
      <4> QED BY <1>1, <1>2, <1>3, <2>1, <3>1, <4>2
    <3>2. CASE toDevice' # <<>>
      BY <1>3, <2>1, <3>2
    <3> QED BY <3>1, <3>2
  <2> QED BY <2>2, <2>3, <2>4
<1>8. ArgsTail'
  <2>1. CASE runs' = runs
    BY <2>1 DEF Stream, ArgsTail
  <2>2. CASE runs' = Append(runs, args) /\ received.line = Command
    <3> DEFINE lost == NArgs - Len(args)
    <3>1. args # <<>> => last = NArgs
      BY <1>2, <1>4, <1>5, <2>2
    <3>2. \A i \in 1..Len(args) : args[i] = i + lost
      <4> SUFFICES ASSUME NEW i \in 1..Len(args) PROVE args[i] = i + lost
        OBVIOUS
      <4>1. args # <<>>
        BY <1>2
      <4>2. args[i] = last - Len(args) + i
        BY <1>4, <4>1 DEF Run
      <4> QED BY <1>2, <3>1, <4>1, <4>2
    <3>3. lost \in 0..NArgs
      <4>1. CASE args = <<>>
        BY <1>2, <4>1
      <4>2. CASE args # <<>>
        <5>1. 1 \in 1..Len(args)
          BY <1>2, <4>2
        <5>2. args[1] \in 1..NArgs
          BY <1>2, <5>1, ElementOfSeq
        <5> QED BY <1>2, <3>2, <5>1, <5>2
      <4> QED BY <4>1, <4>2
    <3>4. args = [n \in 1..(NArgs - lost) |-> n + lost]
      <4>1. NArgs - lost = Len(args)
        BY <1>2
      <4>2. args \in [1..Len(args) -> 1..NArgs]
        BY <1>2, LenProperties
      <4> HIDE DEF lost
      <4> QED BY <3>2, <4>1, <4>2
    <3>5. \A i \in DOMAIN runs' :
            (i \in DOMAIN runs /\ runs'[i] = runs[i]) \/ runs'[i] = args
      <4>1. /\ Len(runs) \in Nat /\ DOMAIN runs = 1..Len(runs)
            /\ DOMAIN runs' = 1..(Len(runs) + 1) /\ runs'[Len(runs) + 1] = args
            /\ \A i \in 1..Len(runs) : runs'[i] = runs[i]
        <5>1. args \in Seq(1..NArgs)
          BY <1>2
        <5>2. runs' \in Seq(Seq(1..NArgs)) /\ Len(runs') = Len(runs) + 1
              /\ runs'[Len(runs) + 1] = args
              /\ \A i \in 1..Len(runs) : runs'[i] = runs[i]
          BY <1>2, <2>2, <5>1, AppendProperties
        <5> QED BY <1>2, <5>2, LenProperties
      <4> QED BY <4>1
    <3> HIDE DEF lost
    <3> QED BY <3>3, <3>4, <3>5 DEF Stream, ArgsTail
  <2> QED BY <1>1, <2>1, <2>2
<1> QED BY <1>3, <1>6, <1>7, <1>8 DEF Stream

\* Every step keeps the order.
LEMMA StreamStep ==
  ASSUME TypeOK, Stream, [Next]_vars
  PROVE  Stream'
<1>1. CASE ReadLines \/ FeedLine
  <2>1. UNCHANGED <<toDevice, dev, args, runs, next>> /\ host # "send" /\ host' # "send"
    BY <1>1 DEF ReadLines, FeedLine, deviceVars
  <2> QED BY <2>1 DEF Stream, EndsAt, Held, Follows, ArgsTail
<1>2. CASE TurnLoop
  <2>1. UNCHANGED <<toDevice, dev, args, runs>> /\ host = "lines" /\ next' = 1
    BY <1>2 DEF TurnLoop, deviceVars
  <2>2. EndsAt(toDevice, host = "send" /\ next > 1)' /\ Held'
    BY <2>1 DEF Stream, EndsAt, Held
  <2> QED BY <2>1, <2>2 DEF Stream, Follows, ArgsTail
<1>3. CASE SignalReady
  <2>1. UNCHANGED <<toDevice, runs, next, host>> /\ args' = <<>>
    BY <1>3, ReadyStep
  <2> QED BY <2>1 DEF Stream, EndsAt, Held, Follows, ArgsTail
<1>4. CASE RunTests
  <2>1. UNCHANGED <<toDevice, runs, next, host>> /\ args' = <<>>
    BY <1>4 DEF RunTests, hostVars
  <2> QED BY <2>1 DEF Stream, EndsAt, Held, Follows, ArgsTail
<1>5. CASE UNCHANGED vars
  BY <1>5 DEF vars, hostVars, deviceVars, Stream, EndsAt, Held, Follows, ArgsTail
<1> QED BY <1>1, <1>2, <1>3, <1>4, <1>5, StreamSent, StreamPost, StreamRead
       DEF Next, HostNext, DeviceNext

\* Whatever noise does to the lines and whenever READY is repeated, what an
\* execution is given is the end of the configuration, whole and in order: the
\* host answers a READY from the first line on, and wait_for_command holds
\* nothing back across a READY or a line that fails its CRC.
THEOREM OnlyTheHeadIsLost == Spec => []ArgsTail
<1>1. Init => TypeOK /\ Stream
  BY TypeInit, StreamInit
<1>2. TypeOK /\ Stream /\ [Next]_vars => (TypeOK /\ Stream)'
  BY TypeStep, StreamStep
<1>3. Stream => ArgsTail
  BY DEF Stream
<1> QED BY <1>1, <1>2, <1>3, PTL DEF Spec

-----------------------------------------------------------------------------
(* Delivery.                                                               *)

\* What feed() does with the lines of the exchange.
LEMMA Feeding ==
  ASSUME NEW p \in Protocol, NEW line \in Line
  PROVE  /\ p.state = "FINISHED" => Feed(p, line) = p
         /\ p.state = "RUNNING" /\ ~line.ok => Feed(p, line) = p
         /\ p.state = "RUNNING" /\ Harmless(line) => Feed(p, line).state = "RUNNING"
         /\ p.state = "RUNNING" /\ IsDone(line) => Feed(p, line).state = "FINISHED"
         /\ p.state \in {"WAITING_FOR_READY", "READY", "RUNNING"} /\ ~line.ok
              => Feed(p, line) = p
         /\ p.state \in {"WAITING_FOR_READY", "RUNNING"} /\ line = Msg("READY")
              => Feed(p, line).state \in {"READY", "RUNNING"}
<1>1. p.state = "FINISHED" => Feed(p, line) = p
  BY DEF Feed
<1>2. p.state \in {"WAITING_FOR_READY", "READY", "RUNNING"} /\ ~line.ok
        => Feed(p, line) = p
  BY DEF Feed, FeedWaiting, FeedReady, FeedRunning
<1>3. p.state = "RUNNING" => Feed(p, line) = FeedRunning(p, line)
  BY DEF Feed
<1>4. p.state = "RUNNING" /\ line.ok /\ line.tag = "CASE"
        => FeedRunning(p, line).state = "RUNNING"
  <2>1. line.ok /\ line.tag = "CASE" => FeedRunning(p, line) = CaseStart(p, line)
    BY DEF FeedRunning, CommandLost
  <2>2. CaseStart(p, line).state = p.state
    BY DEF CaseStart, Protocol
  <2> QED BY <2>1, <2>2
<1>5. p.state = "RUNNING" /\ IsDone(line) => FeedRunning(p, line).state = "FINISHED"
  BY DEF FeedRunning, CommandLost, IsDone, Protocol
<1>6. p.state = "WAITING_FOR_READY" /\ line = Msg("READY")
        => Feed(p, line).state = "READY"
  BY DEF Feed, FeedWaiting, Msg, Protocol
<1>7. p.state = "RUNNING" /\ line = Msg("READY")
        => FeedRunning(p, line).state \in {"READY", "RUNNING"}
  BY DEF FeedRunning, CommandLost, Msg, Protocol
<1> QED BY <1>1, <1>2, <1>3, <1>4, <1>5, <1>6, <1>7 DEF Harmless

\* An announcement is a READY, or damaged.
LEMMA Announced ==
  /\ \A line \in Announcement : line # Msg("READY") => ~line.ok
  /\ \A s \in Seq(Line) : ReadyOnly(s) /\ NoReady(s) => AllDamaged(s)
  /\ \A s \in Seq(Line) : AllDamaged(s) => AllHarmless(s)
  /\ \A s \in Seq(Line) : NoReady(s) => OneReady(s)
  /\ ReadyOnly(<<>>) /\ NoReady(<<>>) /\ AllDamaged(<<>>) /\ ~DoneFirst(<<>>)
  /\ \A x : <<x>> # <<>>
<1>1. \A line \in Announcement : line # Msg("READY") => ~line.ok
  <2>1. ~[Msg("READY") EXCEPT !.ok = FALSE].ok
    BY DEF Msg
  <2> QED BY <2>1, Zenon DEF Announcement
<1>2. \A s \in Seq(Line) : ReadyOnly(s) /\ NoReady(s) => AllDamaged(s)
  BY <1>1 DEF ReadyOnly, NoReady, AllDamaged
<1>3. \A s \in Seq(Line) : AllDamaged(s) => AllHarmless(s)
  BY DEF AllDamaged, AllHarmless, Harmless
<1>4. \A s \in Seq(Line) : NoReady(s) => OneReady(s)
  BY DEF NoReady, OneReady
<1>5. ReadyOnly(<<>>) /\ NoReady(<<>>) /\ AllDamaged(<<>>) /\ ~DoneFirst(<<>>)
  BY DEF ReadyOnly, NoReady, AllDamaged, DoneFirst
<1> QED BY <1>1, <1>2, <1>3, <1>4, <1>5

\* At first nothing is in progress.
LEMMA DeliveryInit == Init => Delivery
<1> SUFFICES ASSUME Init PROVE Delivery
  OBVIOUS
<1>1. Idle
  BY Announced, EmptySeq DEF Init, Idle, NewProtocol
<1>2. Before
  BY <1>1, Announced DEF Init, Before, NewProtocol
<1> QED BY <1>2 DEF Init, Delivery

\* A READY read leaves none behind; a DONE is read or still to come.
LEMMA DeliveryReadLines ==
  ASSUME IInv, ReadLines
  PROVE  Delivery'
<1> USE DEF IInv
<1> PICK n \in 1..Len(toHost) :
      chunk' = SubSeq(toHost, 1, n) /\ toHost' = SubSeq(toHost, n + 1, Len(toHost))
  BY DEF ReadLines
<1>1. /\ host = "read" /\ host' = "lines" /\ proto.state # "FINISHED"
      /\ UNCHANGED <<proto, next, toDevice, dev, args, rushed, runs>>
  BY DEF ReadLines, deviceVars
<1>2. toHost \in Seq(Line) /\ chunk = <<>>
  BY <1>1 DEF TypeOK, Delivery
<1>3. SplitInto(toHost, chunk', toHost')
  BY <1>2, Split
<1>4. CASE runs = <<>>
  <2>1. Before /\ ReadyOnly(chunk)' /\ ReadyOnly(toHost)'
    BY <1>3, <1>4 DEF Delivery, Before, SplitInto
  <2>2. CASE Idle
    <3>1. NoReady(toHost) => OneReady(toHost)
      BY <1>2, Announced
    <3>2. Idle'
      BY <1>1, <1>2, <1>3, <2>2, <3>1 DEF Idle, SplitInto
    <3> QED BY <1>1, <1>4, <2>1, <3>2 DEF Delivery, Before
  <2>3. CASE Sent
    <3>1. Batch'
      BY <1>1, <2>3 DEF Sent, Batch
    <3>2. Sent'
      BY <1>1, <1>3, <2>3, <3>1 DEF Sent, SplitInto
    <3> QED BY <1>1, <1>4, <2>1, <3>2 DEF Delivery, Before
  <2> QED BY <1>1, <2>1, <2>2, <2>3 DEF Before, Asked, Sending
<1>5. CASE runs # <<>>
  <2>1. After
    BY <1>5 DEF Delivery
  <2>2. dev = "run" => AllDamaged(chunk)' /\ AllDamaged(toHost)'
    BY <1>3, <2>1 DEF After, SplitInto
  <2>3. dev # "run" => DoneFirst(chunk)' \/ (AllHarmless(chunk)' /\ DoneFirst(toHost)')
    BY <1>1, <1>2, <1>3, <2>1, Announced DEF After, SplitInto
  <2>4. After'
    BY <1>1, <2>1, <2>2, <2>3 DEF After
  <2> QED BY <1>1, <1>5, <2>4 DEF Delivery
<1> QED BY <1>4, <1>5

\* The READY in a read makes the host answer; other lines change nothing until
\* the DONE.
LEMMA DeliveryFeedLine ==
  ASSUME IInv, FeedLine
  PROVE  Delivery'
<1> USE DEF IInv
<1> DEFINE line == Head(chunk)
<1>1. /\ host = "lines" /\ chunk # <<>> /\ proto' = Feed(proto, line)
      /\ chunk' = Tail(chunk)
      /\ UNCHANGED <<host, next, toDevice, toHost, dev, args, rushed, runs>>
  BY DEF FeedLine, deviceVars
<1>2. chunk \in Seq(Line) /\ toHost \in Seq(Line) /\ proto \in Protocol
  BY DEF TypeOK
<1>3. /\ line \in Line /\ chunk' \in Seq(Line)
      /\ ReadyOnly(chunk) => line \in Announcement /\ ReadyOnly(chunk)'
      /\ NoReady(chunk) => line # Msg("READY") /\ NoReady(chunk)'
      /\ OneReady(chunk) => OneReady(chunk)' /\ (line = Msg("READY") => NoReady(chunk)')
      /\ AllDamaged(chunk) => ~line.ok /\ AllDamaged(chunk)'
      /\ AllHarmless(chunk) => Harmless(line) /\ AllHarmless(chunk)'
      /\ DoneFirst(chunk) => IsDone(line) \/ (Harmless(line) /\ DoneFirst(chunk)')
  BY <1>1, <1>2, Taken
<1> HIDE DEF line
<1>4. CASE runs = <<>>
  <2>1. Before /\ ReadyOnly(chunk)' /\ ReadyOnly(toHost)' /\ line \in Announcement
    BY <1>1, <1>3, <1>4 DEF Delivery, Before
  <2>2. CASE line # Msg("READY")
    <3>1. proto' = proto
      BY <1>1, <1>2, <1>3, <2>1, <2>2, Announced, Feeding DEF Before
    <3>2. Idle => Idle'
      BY <1>1, <1>3, <3>1 DEF Idle
    <3>3. Asked => Asked'
      BY <1>1, <1>3, <3>1 DEF Asked
    <3>4. Sent => Sent'
      <4>1. Batch => Batch'
        BY <1>1 DEF Batch
      <4> QED BY <1>1, <1>3, <3>1, <4>1 DEF Sent
    <3>5. ~Sending
      BY <1>1 DEF Sending
    <3> QED BY <1>1, <1>4, <2>1, <3>1, <3>2, <3>3, <3>4, <3>5 DEF Delivery, Before
  <2>3. CASE line = Msg("READY")
    <3>1. ~NoReady(chunk)
      BY <1>3, <2>3
    <3>2. Idle /\ OneReady(chunk) /\ NoReady(toHost) /\ ~rushed
      BY <2>1, <3>1 DEF Before, Idle, Asked, Sending, Sent
    <3>3. NoReady(chunk)' /\ NoReady(toHost)'
      BY <1>1, <1>3, <2>3, <3>2
    <3>4. proto.state \in {"WAITING_FOR_READY", "RUNNING"}
      BY <2>1, <3>2 DEF Before, Idle
    <3>5. proto'.state \in {"READY", "RUNNING"}
      BY <1>1, <1>2, <1>3, <2>3, <3>4, Feeding
    <3>6. CASE proto'.state = "READY"
      <4>1. Asked'
        BY <1>1, <3>2, <3>3, <3>6 DEF Idle, Asked
      <4> QED BY <1>1, <1>4, <2>1, <3>6, <4>1 DEF Delivery, Before
    <3>7. CASE proto'.state = "RUNNING"
      <4>1. OneReady(toHost)'
        BY <1>1, <1>2, <3>3, Announced
      <4>2. Idle'
        BY <1>1, <3>2, <3>3, <3>7, <4>1 DEF Idle
      <4> QED BY <1>1, <1>4, <2>1, <3>7, <4>2 DEF Delivery, Before
    <3> QED BY <3>5, <3>6, <3>7
  <2> QED BY <2>2, <2>3
<1>5. CASE runs # <<>>
  <2>1. After
    BY <1>5 DEF Delivery
  <2>2. CASE proto.state = "FINISHED"
    <3>1. proto' = proto
      BY <1>1, <1>2, <1>3, <2>2, Feeding
    <3>2. After'
      BY <1>1, <2>1, <2>2, <3>1 DEF After
    <3> QED BY <1>1, <1>5, <3>2 DEF Delivery
  <2>3. CASE proto.state = "RUNNING" /\ dev = "run"
    <3>1. proto' = proto /\ AllDamaged(chunk)' /\ AllDamaged(toHost)'
      BY <1>1, <1>2, <1>3, <2>1, <2>3, Feeding DEF After
    <3>2. After'
      BY <1>1, <2>1, <2>3, <3>1 DEF After
    <3> QED BY <1>1, <1>5, <3>2 DEF Delivery
  <2>4. CASE proto.state = "RUNNING" /\ dev # "run"
    <3>1. \/ IsDone(line)
          \/ Harmless(line) /\ DoneFirst(chunk)'
          \/ Harmless(line) /\ AllHarmless(chunk)' /\ DoneFirst(toHost)'
      BY <1>1, <1>3, <2>1, <2>4 DEF After
    <3>2. \/ proto'.state = "FINISHED"
          \/ /\ proto'.state = "RUNNING"
             /\ DoneFirst(chunk)' \/ (AllHarmless(chunk)' /\ DoneFirst(toHost)')
      BY <1>1, <1>2, <1>3, <2>4, <3>1, Feeding
    <3>3. After'
      BY <1>1, <2>1, <2>4, <3>2 DEF After
    <3> QED BY <1>1, <1>5, <3>3 DEF Delivery
  <2> QED BY <2>1, <2>2, <2>3, <2>4 DEF After
<1> QED BY <1>4, <1>5

\* The answer to a READY starts with the first ETST:ARGS line.
LEMMA DeliveryTurnLoop ==
  ASSUME IInv, TurnLoop
  PROVE  Delivery'
<1> USE DEF IInv
<1>1. /\ host = "lines" /\ chunk = <<>> /\ next' = 1
      /\ proto.state = "READY" => host' = "send"
      /\ proto.state = "FINISHED" => host' = "post"
      /\ proto.state \notin {"READY", "FINISHED"} => host' = "read"
      /\ UNCHANGED <<proto, chunk, toDevice, toHost, dev, args, rushed, runs>>
  BY DEF TurnLoop, deviceVars
<1>2. CASE runs = <<>>
  <2>1. Before
    BY <1>2 DEF Delivery
  <2>2. CASE Asked
    <3>1. Len(args) = 0 /\ Len(toDevice) = 0
      BY <2>2 DEF Asked
    <3>2. Batch'
      <4>1. args' = <<>> /\ toDevice' = <<>>
        BY <1>1, <2>2 DEF Asked
      <4>2. Len(args') = 0 /\ Len(toDevice') = 0 /\ args' = [n \in 1..0 |-> n]
        BY <4>1
      <4>3. 1..0 = {}
        OBVIOUS
      <4>4. \A i \in 1..Len(toDevice') : FALSE
        BY <4>2, <4>3
      <4> QED BY <4>2, <4>4 DEF Batch
    <3>3. Sending'
      BY <1>1, <2>2, <3>1, <3>2 DEF Asked, Sending
    <3> QED BY <1>1, <1>2, <2>1, <2>2, <3>3 DEF Delivery, Before, Asked
  <2>3. CASE Idle
    <3>1. Idle' /\ host' = "read"
      BY <1>1, <2>1, <2>3 DEF Before, Idle
    <3> QED BY <1>1, <1>2, <2>1, <3>1 DEF Delivery, Before
  <2>4. CASE Sent
    <3>1. Batch'
      BY <1>1, <2>4 DEF Sent, Batch
    <3>2. Sent' /\ host' = "read"
      BY <1>1, <2>4, <3>1 DEF Sent
    <3> QED BY <1>1, <1>2, <2>1, <3>2 DEF Delivery, Before
  <2> QED BY <1>1, <2>1, <2>2, <2>3, <2>4 DEF Before, Sending
<1>3. CASE runs # <<>>
  <2>1. After
    BY <1>3 DEF Delivery
  <2>2. host' \in {"read", "post"} /\ (host' = "post" => proto.state = "FINISHED")
    BY <1>1, <2>1 DEF After
  <2>3. After'
    BY <1>1, <2>1, <2>2 DEF After
  <2> QED BY <1>1, <1>3, <2>3 DEF Delivery
<1> QED BY <1>2, <1>3

\* The next line of the answer follows the others.
LEMMA DeliverySendLine ==
  ASSUME IInv, Quiet, SendLine
  PROVE  Delivery'
<1> USE DEF IInv
<1> PICK quality \in {"good", "stray", "bad"} :
      /\ Arrives(quality, next \in Fragile)
      /\ toDevice' = Append(toDevice, [line |-> next, crc |-> quality])
  BY DEF SendLine
<1> DEFINE wire == [line |-> next, crc |-> quality]
<1>1. /\ host = "send" /\ UNCHANGED <<chunk, dev, args, rushed, runs, toHost>>
      /\ next = Command => /\ host' = "read" /\ proto' = CommandSent(proto)
                           /\ next' = next
      /\ next # Command => next' = next + 1 /\ UNCHANGED <<host, proto>>
  BY DEF SendLine, deviceVars
<1>2. next # Command => Valid(wire)
  <2>1. next # Command => next \notin Fragile
    BY DEF Quiet
  <2> QED BY <2>1 DEF Arrives, Valid
<1>3. runs = <<>> /\ Before /\ Sending
  BY <1>1 DEF Delivery, Before, After, Idle, Asked, Sent
<1>4. /\ toDevice \in Seq(Wire) /\ wire \in Wire /\ Len(args) \in Nat
      /\ next \in 1..Command /\ Command \in Nat /\ proto \in Protocol
  <2>1. Command \in Nat
    BY HandshakeAssumption DEF Command
  <2>2. wire \in Wire
    BY HandshakeAssumption DEF TypeOK, Wire, Command, OnDone
  <2> QED BY <2>1, <2>2, LenProperties DEF TypeOK
<1>5. /\ wire.line = next /\ toDevice' = Append(toDevice, wire)
  OBVIOUS
<1> HIDE DEF wire
<1>6. /\ Len(toDevice) \in Nat /\ Len(toDevice') = Len(toDevice) + 1
      /\ \A i \in 1..Len(toDevice) : toDevice'[i] = toDevice[i]
      /\ toDevice'[Len(toDevice) + 1] = wire /\ toDevice' # <<>>
  BY <1>4, <1>5, AppendProperties, LenProperties
<1>7. Batch'
  <2>1. args' = [n \in 1..Len(args') |-> n]
    BY <1>1, <1>3 DEF Sending, Batch
  <2>2. ASSUME NEW i \in 1..Len(toDevice')
        PROVE  /\ toDevice'[i].line = Len(args') + i
               /\ toDevice'[i].line # Command => Valid(toDevice'[i])
    <3>1. CASE i \in 1..Len(toDevice)
      BY <1>1, <1>3, <1>6, <3>1 DEF Sending, Batch
    <3>2. CASE i = Len(toDevice) + 1
      <4>1. next = Len(args) + i
        BY <1>3, <1>4, <1>6, <3>2 DEF Sending
      <4>2. toDevice'[i] = wire
        BY <1>6, <3>2
      <4> QED BY <1>1, <1>2, <1>5, <4>1, <4>2
    <3> QED BY <1>6, <3>1, <3>2
  <2> QED BY <2>1, <2>2 DEF Batch
<1>8. Len(args) + Len(toDevice') = next
  BY <1>3, <1>4, <1>6 DEF Sending
<1>9. CASE next = Command
  <2>1. host' = "read" /\ proto'.state = "RUNNING"
    BY <1>1, <1>3, <1>4, <1>9 DEF Sending, CommandSent, Protocol
  <2>2. Sent'
    BY <1>1, <1>3, <1>6, <1>7, <1>8, <1>9, <2>1 DEF Sending, Sent, Command
  <2> QED BY <1>1, <1>3, <2>1, <2>2 DEF Delivery, Before
<1>10. CASE next # Command
  <2>1. Sending'
    BY <1>1, <1>3, <1>4, <1>7, <1>8, <1>10 DEF Sending
  <2> QED BY <1>1, <1>3, <1>10, <2>1 DEF Delivery, Before
<1> QED BY <1>9, <1>10

\* The on-done command comes after the DONE.
LEMMA DeliveryPostTest ==
  ASSUME IInv, PostTest
  PROVE  Delivery'
<1> USE DEF IInv
<1>1. /\ host = "post" /\ host' = "closed"
      /\ UNCHANGED <<proto, chunk, dev, args, rushed, runs, toHost>>
  BY DEF PostTest, deviceVars
<1>2. runs # <<>> /\ After
  BY <1>1 DEF Delivery, Before
<1>3. \A i \in 1..Len(toDevice') : toDevice'[i].line = OnDone
  <2> DEFINE wire == [line |-> OnDone, crc |-> "none"]
  <2>1. toDevice' = Append(toDevice, wire) /\ wire.line = OnDone
    BY DEF PostTest
  <2>2. wire \in Wire /\ toDevice \in Seq(Wire)
    BY HandshakeAssumption DEF TypeOK, Wire, OnDone
  <2> HIDE DEF wire
  <2>3. \A i \in 1..Len(toDevice') :
          toDevice'[i] = wire \/ (i \in 1..Len(toDevice) /\ toDevice'[i] = toDevice[i])
    BY <2>1, <2>2, AppendProperties, LenProperties
  <2> QED BY <1>2, <2>1, <2>3 DEF After
<1>4. After'
  BY <1>1, <1>2, <1>3 DEF After
<1> QED BY <1>1, <1>2, <1>4 DEF Delivery

\* A READY is only repeated when none is on its way or being answered.
LEMMA DeliverySignalReady ==
  ASSUME IInv, Quiet, SignalReady
  PROVE  Delivery'
<1> USE DEF IInv
<1>1. /\ dev = "wait" /\ (rushed \/ ~Answering) /\ args' = <<>> /\ rushed' = FALSE
      /\ UNCHANGED <<proto, host, chunk, next, dev, runs, toDevice>>
  BY ReadyStep DEF Quiet
<1> PICK line \in Announcement : Output(<<line>>)
  BY ReadyStep
<1>2. chunk \in Seq(Line) /\ toHost \in Seq(Line)
  BY DEF TypeOK
<1>3. /\ <<line>> \in Seq(Line) /\ ReadyOnly(<<line>>) /\ Len(<<line>>) = 1
  BY LineType DEF ReadyOnly
<1>4. /\ ReadyOnly(toHost) => ReadyOnly(toHost)'
      /\ NoReady(toHost) /\ host # "closed" => OneReady(toHost)'
      /\ DoneFirst(toHost) => DoneFirst(toHost)'
  BY <1>2, <1>3, Joined DEF Output
<1>5. CASE runs = <<>>
  <2>1. Before /\ host # "closed"
    BY <1>5 DEF Delivery, Before
  <2>2. NoReady(chunk) /\ NoReady(toHost) /\ toDevice = <<>>
        /\ host # "send" /\ proto.state # "READY"
    <3>1. CASE rushed
      BY <2>1, <3>1 DEF Before, Idle, Asked, Sending, Sent
    <3>2. CASE ~Answering
      <4>1. /\ Msg("READY") \notin {toHost[i] : i \in DOMAIN toHost}
            /\ Msg("READY") \notin {chunk[i] : i \in DOMAIN chunk}
            /\ toDevice = <<>> /\ host # "send" /\ proto.state # "READY"
        BY <2>1, <3>2, Zenon DEF Answering
      <4>2. DOMAIN toHost = 1..Len(toHost) /\ DOMAIN chunk = 1..Len(chunk)
        BY <1>2, LenProperties
      <4> QED BY <4>1, <4>2 DEF NoReady
    <3> QED BY <1>1, <3>1, <3>2
  <2>3. Idle'
    BY <1>1, <1>4, <2>1, <2>2 DEF Idle
  <2>4. Before'
    BY <1>1, <1>4, <2>1, <2>3 DEF Before
  <2> QED BY <1>1, <1>5, <2>1, <2>4 DEF Delivery
<1>6. CASE runs # <<>>
  <2>1. After
    BY <1>6 DEF Delivery
  <2>2. After'
    BY <1>1, <1>4, <2>1 DEF After
  <2> QED BY <1>1, <1>6, <2>2 DEF Delivery
<1> QED BY <1>5, <1>6

\* The device takes one line: an ETST:ARGS line, the command, or noise.
LEMMA DeliveryReadLine ==
  ASSUME IInv, ReadLine
  PROVE  Delivery'
<1> USE DEF IInv
<1> DEFINE received == Head(toDevice)
<1>1. /\ dev = "wait" /\ ~rushed /\ toDevice # <<>> /\ toDevice' = Tail(toDevice)
      /\ rushed' = ~Valid(received)
      /\ args' = IF ~Valid(received) THEN <<>>
                 ELSE IF received.line < Command THEN Append(args, received.line)
                 ELSE args
      /\ IF Valid(received) /\ received.line = Command
         THEN dev' = "run" /\ runs' = Append(runs, args)
         ELSE dev' \in {"wait", "asleep"} /\ runs' = runs
                /\ (dev' = "asleep" => received.line = OnDone)
      /\ UNCHANGED <<proto, host, chunk, next, toHost>>
  BY DEF ReadLine, hostVars
<1>2. /\ received \in Wire /\ toDevice' \in Seq(Wire) /\ received = toDevice[1]
      /\ Len(toDevice) \in Nat \ {0} /\ Len(toDevice') = Len(toDevice) - 1
      /\ \A i \in 1..Len(toDevice') : toDevice'[i] = toDevice[i + 1]
  BY <1>1, HeadTailProperties, EmptySeq DEF TypeOK
<1>3. /\ args \in Seq(1..NArgs) /\ Len(args) \in Nat /\ received.line \in Nat
      /\ chunk \in Seq(Line) /\ toHost \in Seq(Line) /\ runs \in Seq(Seq(1..NArgs))
      /\ NArgs \in Nat /\ Command = NArgs + 1 /\ OnDone = NArgs + 2
  BY <1>2, LenProperties, HandshakeAssumption DEF TypeOK, Wire, Command, OnDone
<1> HIDE DEF received
<1>4. CASE runs = <<>>
  <2>1. Before /\ (Sending \/ Sent)
    BY <1>1, <1>4 DEF Delivery, Before, Idle, Asked
  <2>2. /\ Batch /\ NoReady(chunk) /\ NoReady(toHost) /\ received.line = Len(args) + 1
        /\ received.line # Command => Valid(received)
    BY <1>2, <2>1 DEF Sending, Sent, Batch
  <2>3. /\ Len(args) + Len(toDevice) \in 1..Command
        /\ received.line <= Command
        /\ Sending => received.line < Command
    BY <1>2, <1>3, <2>1, <2>2 DEF Sending, Sent, TypeOK
  <2>4. CASE received.line < Command
    <3>1. /\ Valid(received) /\ args' = Append(args, received.line)
          /\ dev' = "wait" /\ runs' = runs /\ ~rushed'
      <4>1. received.line # Command /\ received.line # OnDone
        BY <1>3, <2>4
      <4>2. Valid(received)
        BY <2>2, <4>1
      <4>3. args' = Append(args, received.line) /\ ~rushed'
        BY <1>1, <2>4, <4>2
      <4>4. dev' = "wait" /\ runs' = runs
        BY <1>1, <4>1
      <4> QED BY <4>2, <4>3, <4>4
    <3>2. /\ Len(args') = Len(args) + 1 /\ args' \in Seq(1..NArgs)
          /\ \A i \in 1..Len(args) : args'[i] = args[i]
          /\ args'[Len(args) + 1] = received.line
      <4>1. received.line \in 1..NArgs
        BY <1>3, <2>2, <2>4
      <4> QED BY <1>3, <3>1, <4>1, AppendProperties
    <3>3. args' = [n \in 1..Len(args') |-> n]
      <4>1. ASSUME NEW i \in 1..Len(args')
            PROVE  args'[i] = i
        <5>1. i \in 1..Len(args) \/ i = Len(args) + 1
          BY <1>3, <3>2
        <5>2. i \in 1..Len(args) => args[i] = i
          BY <2>2 DEF Batch
        <5> QED BY <2>2, <3>2, <5>1, <5>2
      <4>2. args' \in [1..Len(args') -> 1..NArgs]
        BY <3>2, LenProperties
      <4> QED BY <4>1, <4>2
    <3>4. Batch'
      <4>1. ASSUME NEW i \in 1..Len(toDevice')
            PROVE  /\ toDevice'[i].line = Len(args') + i
                   /\ toDevice'[i].line # Command => Valid(toDevice'[i])
        <5>1. i + 1 \in 1..Len(toDevice) /\ toDevice'[i] = toDevice[i + 1]
          BY <1>2
        <5>2. Len(args') + i = Len(args) + (i + 1)
          BY <1>3, <3>2
        <5> QED BY <2>2, <5>1, <5>2 DEF Batch
      <4> QED BY <3>3, <4>1 DEF Batch
    <3>5. Len(args') + Len(toDevice') = Len(args) + Len(toDevice)
      BY <1>2, <1>3, <3>2
    <3>6. Sending => Sending'
      BY <1>1, <3>1, <3>4, <3>5 DEF Sending
    <3>7. Sent => toDevice' # <<>>
      <4>1. Len(args') < Command /\ Len(args') \in Nat /\ Command \in Nat
        BY <1>3, <2>2, <2>4, <3>2
      <4>2. Sent => Len(args') + Len(toDevice') = Command
        BY <3>5 DEF Sent
      <4>3. Sent => Len(toDevice') # 0
        BY <4>1, <4>2
      <4> QED BY <4>3, EmptySeq
    <3>8. Sent => Sent'
      BY <1>1, <3>1, <3>4, <3>5, <3>7 DEF Sent
    <3> QED BY <1>1, <1>4, <2>1, <3>1, <3>6, <3>8 DEF Delivery, Before
  <2>5. CASE received.line = Command
    <3>1. Sent /\ Len(args) = NArgs /\ toDevice' = <<>>
      <4>1. Sent
        BY <1>3, <2>1, <2>3, <2>5
      <4>2. Len(args) = NArgs /\ Len(toDevice') = 0
        BY <1>2, <1>3, <2>2, <2>5, <4>1 DEF Sent
      <4> QED BY <1>2, <4>1, <4>2, EmptySeq
    <3>2. args = Whole
      BY <2>2, <3>1 DEF Batch, Whole
    <3>3. CASE Valid(received)
      <4>1. dev' = "run" /\ runs' = <<Whole>>
        BY <1>1, <1>3, <1>4, <2>5, <3>2, <3>3
      <4>2. AllDamaged(chunk) /\ AllDamaged(toHost)
        BY <1>3, <2>1, <2>2, Announced DEF Before
      <4>3. \A i \in 1..Len(toDevice') : toDevice'[i].line = OnDone
        <5>1. Len(toDevice') = 0
          BY <3>1
        <5> QED BY <5>1
      <4>4. After'
        BY <1>1, <2>1, <3>1, <4>1, <4>2, <4>3 DEF After, Before, Sent
      <4>5. runs' # <<>>
        BY <4>1, Announced
      <4> QED BY <1>1, <2>1, <3>1, <4>1, <4>4, <4>5 DEF Delivery
    <3>4. CASE ~Valid(received)
      <4>1. args' = <<>> /\ dev' = "wait" /\ runs' = runs
        BY <1>1, <1>3, <2>5, <3>4
      <4>2. OneReady(toHost)
        BY <1>3, <2>2, Announced
      <4>3. Idle'
        BY <1>1, <2>2, <3>1, <4>1, <4>2 DEF Idle, Sent
      <4> QED BY <1>1, <1>4, <2>1, <4>1, <4>3 DEF Delivery, Before
    <3> QED BY <3>3, <3>4
  <2> QED BY <1>3, <2>3, <2>4, <2>5
<1>5. CASE runs # <<>>
  <2>1. After /\ received.line = OnDone /\ received.line # Command
    BY <1>2, <1>3, <1>5 DEF Delivery, After
  <2>2. dev' \in {"wait", "asleep"} /\ runs' = runs
    BY <1>1, <2>1
  <2>3. \A i \in 1..Len(toDevice') : toDevice'[i].line = OnDone
    <3>1. \A i \in 1..Len(toDevice') : i + 1 \in 1..Len(toDevice)
      BY <1>2
    <3> QED BY <1>2, <2>1, <3>1 DEF After
  <2>4. After'
    BY <1>1, <2>1, <2>2, <2>3 DEF After
  <2> QED BY <1>1, <1>5, <2>2, <2>4 DEF Delivery
<1> QED BY <1>4, <1>5

\* The cycle ends with a DONE that no READY precedes.
LEMMA DeliveryRunTests ==
  ASSUME IInv, RunTests
  PROVE  Delivery'
<1> USE DEF IInv
<1> PICK suite \in SuiteNames, name \in TestNames :
      Output(<<CaseLine(suite, name), Msg("DONE")>>)
  BY DEF RunTests
<1> DEFINE lines == <<CaseLine(suite, name), Msg("DONE")>>
<1>1. /\ dev = "run" /\ dev' = "wait" /\ args' = <<>> /\ rushed' = TRUE
      /\ UNCHANGED <<proto, host, chunk, next, runs, toDevice>>
  BY DEF RunTests, hostVars
<1>2. lines \in Seq(Line) /\ chunk \in Seq(Line) /\ toHost \in Seq(Line)
  BY LineType DEF TypeOK
<1>3. DoneFirst(lines)
  <2>1. Len(lines) = 2 /\ lines[1] = CaseLine(suite, name) /\ lines[2] = Msg("DONE")
    OBVIOUS
  <2>2. Harmless(lines[1]) /\ IsDone(lines[2])
    BY <2>1 DEF CaseLine, Msg, Harmless, IsDone
  <2> HIDE DEF lines
  <2>3. 2 \in 1..Len(lines) /\ \A i \in 1..(2 - 1) : i = 1
    BY <2>1
  <2> QED BY <2>2, <2>3 DEF DoneFirst
<1>4. runs # <<>> /\ After /\ host # "closed" /\ proto.state = "RUNNING"
  BY <1>1 DEF Delivery, Before, After
<1>5. toHost' = toHost \o lines
  BY <1>4 DEF Output
<1> HIDE DEF lines
<1>6. DoneFirst(toHost)' /\ AllHarmless(chunk)
  BY <1>1, <1>2, <1>3, <1>4, <1>5, Joined, Announced DEF After
<1>7. After'
  BY <1>1, <1>4, <1>6 DEF After
<1> QED BY <1>1, <1>4, <1>7 DEF Delivery
-----------------------------------------------------------------------------
\* Every step keeps the types and the delivery.
LEMMA DeliveryStep ==
  ASSUME IInv, Quiet, [Next]_vars
  PROVE  IInv'
<1>1. TypeOK'
  BY TypeStep DEF IInv
<1>2. CASE UNCHANGED vars
  <2> USE <1>2 DEF vars, hostVars, deviceVars
  <2>1. Batch => Batch'
    BY DEF Batch
  <2>2. (Idle => Idle') /\ (Asked => Asked') /\ (Sending => Sending') /\ (Sent => Sent')
    BY <2>1 DEF Idle, Asked, Sending, Sent
  <2>3. (Before => Before') /\ (After => After')
    BY <2>2 DEF Before, After
  <2> QED BY <1>1, <2>3 DEF IInv, Delivery
<1>3. CASE HostNext
  BY <1>1, <1>3, DeliveryReadLines, DeliveryFeedLine, DeliveryTurnLoop,
     DeliverySendLine, DeliveryPostTest DEF HostNext, IInv
<1>4. CASE DeviceNext
  BY <1>1, <1>4, DeliverySignalReady, DeliveryReadLine, DeliveryRunTests
     DEF DeviceNext, IInv
<1> QED BY <1>2, <1>3, <1>4 DEF Next

\* So both hold throughout.
LEMMA DeliveryInvariant ==
  ASSUME Quiet
  PROVE  Spec => []IInv
<1>1. Init => IInv
  BY TypeInit, DeliveryInit DEF IInv
<1>2. IInv /\ [Next]_vars => IInv'
  BY DeliveryStep
<1> QED BY <1>1, <1>2, PTL DEF Spec

\* However many commands were damaged, the tests of the cycle are executed
\* once.
THEOREM CycleExecutedOnce ==
  ASSUME Quiet
  PROVE  Spec => []ExecutedOnce
<1>1. IInv => ExecutedOnce
  <2> SUFFICES ASSUME IInv PROVE Len(runs) <= 1
    BY DEF ExecutedOnce
  <2>1. runs = <<>> \/ runs = <<Whole>>
    BY DEF IInv, Delivery
  <2>2. Len(<<>>) = 0 /\ Len(<<Whole>>) = 1
    OBVIOUS
  <2>3. Len(runs) \in {0, 1}
    BY <2>1, <2>2
  <2> QED BY <2>3
<1> QED BY <1>1, DeliveryInvariant, PTL

\* feed() takes a READY while RUNNING for a lost command; it is right: none is
\* on its way then, and none has been executed.
THEOREM LostCommandsOnly ==
  ASSUME Quiet
  PROVE  Spec => ResentOnlyIfLost
<1> DEFINE Resent == proto.state = "RUNNING" /\ proto'.state = "READY"
           Lost   == /\ runs = <<>>
                     /\ \A i \in DOMAIN toDevice :
                          toDevice[i].line = Command => ~Valid(toDevice[i])
<1>1. IInv /\ IInv' /\ [Next]_vars => [Resent => Lost]_vars
  <2> SUFFICES ASSUME IInv, IInv', [Next]_vars, Resent
               PROVE  Lost
    OBVIOUS
  <2>1. runs' = <<>> /\ Before'
    BY DEF IInv, Delivery, After
  <2>2. HostNext
    BY DEF Next, DeviceNext, SignalReady, ReadLine, RunTests, vars, hostVars
  <2>3. runs = <<>> /\ Before
    <3>1. runs' = runs
      BY <2>2 DEF HostNext, ReadLines, FeedLine, TurnLoop, SendLine, PostTest, deviceVars
    <3> QED BY <2>1, <3>1 DEF IInv, Delivery
  <2>4. FeedLine
    <3>1. host # "send"
      BY <2>3 DEF Before, Idle, Asked, Sending, Sent
    <3> QED BY <2>2, <3>1 DEF HostNext, ReadLines, TurnLoop, SendLine, PostTest
  <2>5. toDevice = <<>>
    BY <2>1, <2>4 DEF FeedLine, Before, Idle, Asked, Sending, Sent
  <2> QED BY <2>3, <2>5
<1> QED BY <1>1, DeliveryInvariant, PTL DEF Spec, ResentOnlyIfLost
===============================================================================
