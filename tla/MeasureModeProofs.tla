------------------------- MODULE MeasureModeProofs -------------------------
(***************************************************************************)
(* Theorems about MeasureMode, for any number of switches, late requests   *)
(* and faults and any capacity of the queue of mode changes.               *)
(*                                                                         *)
(* CollectorInv is about the gateway alone.  EveryPauseLogged spans the    *)
(* link: HeardInv relates the pauses that the gateway has ended to those   *)
(* that the server has heard of, wherever the server has put them (noted,  *)
(* queued, or in the log).                                                 *)
(***************************************************************************)
EXTENDS MeasureMode, FiniteSetTheorems, SequenceTheorems, TLAPS

-----------------------------------------------------------------------------
One(b) == IF b THEN 1 ELSE 0

(* A pause is counted when its end has been saved. *)
CountInv == pauses + One(pc = "save") <= switches

(* Between the arrival of a command and the saving of the mode, the file   *)
(* and the collector are still those of the old mode.                      *)
CollectorInv ==
    /\ "save" \notin drift => (modeDisk # mode <=> pc = "save")
    /\ pc \in {"cycle", "wait"} /\ mode = "off" /\ "unit" \notin drift => ~collector
    /\ /\ drift = {}
       /\ \/ mode = "on" /\ pc \in {"cycle", "wait"}
          \/ mode = "off" /\ pc = "save"
       => collector

(* Only the request that the gateway waits for must tell the present mode. *)
RequestInv == pc = "wait" => \A r \in reqs : r.cur => r.mode = mode

Alternating(s) == \A i \in 1 .. Len(s) - 1 : s[i] # s[i + 1]

(* The mode queued or logged last, and the mode heard last. *)
LastKept ==
    IF modeq # <<>> THEN Last(modeq)
    ELSE IF modeTx # <<>> THEN Last(modeTx) ELSE "none"

LastHeard == IF hand # "none" THEN hand ELSE LastKept

(* After a restart of the server the queue may begin with the mode that    *)
(* the log ends with; LogMode will skip it.                                *)
Repeated ==
    modeq # <<>> /\ modeTx # <<>> /\ Head(modeq) = "off" /\ Last(modeTx) = "off"

(* The pauses that the server has heard of, and those of them that it has  *)
(* also heard the end of.                                                  *)
Heard ==
    Offs(modeTx) + Offs(modeq) + One(hand = "off" /\ LastKept # "off") - One(Repeated)

Over == Heard - One(LastHeard = "off")

QueueInv ==
    lost = {} =>
        /\ Alternating(modeq)
        /\ seen = "none" => modeq = <<>>
        /\ seen # "none" => LastKept = seen

HeardInv ==
    lost = {} =>
        /\ pauses <= Heard
        /\ mode = "off" => pauses <= Over
        /\ pc = "wait" /\ answered =>
               IF mode = "off" THEN pauses < Heard ELSE pauses <= Over
        /\ mode = "on" /\ (pc = "save" \/ modeDisk = "off") => pauses < Heard

IInv == TypeOK /\ CountInv /\ CollectorInv /\ RequestInv /\ QueueInv /\ HeardInv

-----------------------------------------------------------------------------
(* Counting the pauses in a sequence of modes.                             *)
LEMMA OffsType ==
  ASSUME NEW s \in Seq(Modes)
  PROVE  IsFiniteSet({i \in DOMAIN s : s[i] = "off"}) /\ Offs(s) \in Nat
<1>1. DOMAIN s = 1 .. Len(s) /\ Len(s) \in Nat
  BY LenProperties
<1>2. IsFiniteSet(DOMAIN s)
  BY <1>1, FS_Interval
<1>3. IsFiniteSet({i \in DOMAIN s : s[i] = "off"})
  BY <1>2, FS_Subset
<1> QED
  BY <1>3, FS_CardinalityType DEF Offs

LEMMA OffsEmpty == Offs(<<>>) = 0
<1>1. {i \in DOMAIN <<>> : <<>>[i] = "off"} = {}
  OBVIOUS
<1> QED
  BY <1>1, FS_EmptySet DEF Offs

LEMMA OffsAppend ==
  ASSUME NEW s \in Seq(Modes), NEW m \in Modes
  PROVE  Offs(Append(s, m)) = Offs(s) + One(m = "off")
<1> DEFINE t == Append(s, m)
           n == Len(s) + 1
           S == {i \in DOMAIN s : s[i] = "off"}
           T == {i \in DOMAIN t : t[i] = "off"}
<1>1. /\ t \in Seq(Modes) /\ Len(t) = n /\ Len(s) \in Nat
      /\ DOMAIN t = 1 .. n /\ DOMAIN s = 1 .. Len(s)
      /\ \A i \in 1 .. Len(s) : t[i] = s[i]
      /\ t[n] = m
  BY AppendProperties, LenProperties
<1> HIDE DEF t
<1>2. T = IF m = "off" THEN S \cup {n} ELSE S
  BY <1>1
<1>3. n \notin S
  BY <1>1
<1>4. IsFiniteSet(S) /\ Cardinality(S) \in Nat
  BY OffsType, FS_CardinalityType
<1>5. Cardinality(S \cup {n}) = Cardinality(S) + 1
  BY <1>3, <1>4, FS_AddElement
<1>6. Offs(t) = Cardinality(T) /\ Offs(s) = Cardinality(S)
  BY DEF Offs
<1> HIDE DEF S, T, n
<1>7. CASE m = "off"
  BY <1>2, <1>4, <1>5, <1>6, <1>7 DEF One, t
<1>8. CASE m # "off"
  BY <1>2, <1>4, <1>6, <1>8 DEF One, t
<1> QED
  BY <1>7, <1>8

LEMMA OffsTail ==
  ASSUME NEW s \in Seq(Modes), s # <<>>
  PROVE  Offs(s) = Offs(Tail(s)) + One(Head(s) = "off")
<1> DEFINE t == Tail(s)
           S == {i \in DOMAIN s : s[i] = "off"}
           R == S \ {1}
           T == {i \in DOMAIN t : t[i] = "off"}
           f == [i \in T |-> i + 1]
<1>1. /\ t \in Seq(Modes) /\ Len(t) = Len(s) - 1 /\ Len(s) \in Nat \ {0}
      /\ DOMAIN t = 1 .. Len(t) /\ DOMAIN s = 1 .. Len(s) /\ Head(s) = s[1]
      /\ \A i \in 1 .. Len(t) : t[i] = s[i + 1]
  BY HeadTailProperties, LenProperties, EmptySeq
<1> HIDE DEF t
<1>2. \A i \in T : i \in Nat /\ i + 1 \in R
  BY <1>1
<1>3. \A j \in R : j - 1 \in T /\ (j - 1) + 1 = j
  BY <1>1
<1>4. IsFiniteSet(S) /\ IsFiniteSet(T)
  BY <1>1, OffsType
<1>5. Offs(t) = Cardinality(T) /\ Offs(s) = Cardinality(S)
  BY DEF Offs
<1>6. 1 \in S <=> Head(s) = "off"
  BY <1>1
<1> HIDE DEF R, S, T
<1>7. f \in Bijection(T, R)
  <2>1. f \in Injection(T, R)
    BY <1>2 DEF Injection, IsInjective
  <2>2. f \in Surjection(T, R)
    BY <1>2, <1>3 DEF Surjection
  <2> QED
    BY <2>1, <2>2 DEF Bijection
<1>8. Cardinality(R) = Cardinality(T)
  BY <1>4, <1>7, FS_Bijection DEF ExistsBijection
<1>9. Cardinality(R) = IF 1 \in S THEN Cardinality(S) - 1 ELSE Cardinality(S)
  BY <1>4, FS_RemoveElement DEF R
<1>10. Cardinality(S) \in Nat /\ Cardinality(T) \in Nat
  BY <1>4, FS_CardinalityType
<1> QED
  BY <1>5, <1>6, <1>8, <1>9, <1>10 DEF One, t

LEMMA AppendMode ==
  ASSUME NEW s \in Seq(Modes), NEW m \in Modes
  PROVE  /\ Append(s, m) \in Seq(Modes) /\ Append(s, m) # <<>>
         /\ Len(Append(s, m)) = Len(s) + 1 /\ Last(Append(s, m)) = m
         /\ s # <<>> => Head(Append(s, m)) = Head(s)
         /\ s = <<>> => Head(Append(s, m)) = m
         /\ Alternating(s) /\ (s # <<>> => Last(s) # m) => Alternating(Append(s, m))
<1> DEFINE t == Append(s, m)
<1>1. /\ t \in Seq(Modes) /\ Len(t) = Len(s) + 1 /\ Len(s) \in Nat
      /\ \A i \in 1 .. Len(s) : t[i] = s[i]
      /\ t[Len(s) + 1] = m
      /\ t # <<>> /\ Head(t) = t[1]
      /\ s # <<>> => Head(s) = s[1] /\ Len(s) > 0
      /\ s = <<>> => Len(s) = 0
  BY AppendProperties, LenProperties, HeadTailProperties, EmptySeq
<1> HIDE DEF t
<1>2. Last(t) = m
  BY <1>1 DEF Last
<1>3. ASSUME Alternating(s), s # <<>> => Last(s) # m PROVE Alternating(t)
  <2> SUFFICES ASSUME NEW i \in 1 .. Len(t) - 1 PROVE t[i] # t[i + 1]
    BY DEF Alternating
  <2>1. CASE i = Len(s)
    BY <1>1, <1>3, <2>1 DEF Last
  <2>2. CASE i # Len(s)
    BY <1>1, <1>3, <2>2 DEF Alternating
  <2> QED
    BY <2>1, <2>2
<1> QED
  BY <1>1, <1>2, <1>3 DEF t

LEMMA TailMode ==
  ASSUME NEW s \in Seq(Modes), s # <<>>
  PROVE  /\ Head(s) \in Modes /\ Last(s) \in Modes
         /\ Tail(s) \in Seq(Modes) /\ Len(Tail(s)) = Len(s) - 1
         /\ Tail(s) = <<>> => Last(s) = Head(s)
         /\ Tail(s) # <<>> => Last(Tail(s)) = Last(s)
         /\ Alternating(s) => Alternating(Tail(s))
         /\ Alternating(s) /\ Tail(s) # <<>> => Head(Tail(s)) # Head(s)
<1> DEFINE t == Tail(s)
<1>1. /\ t \in Seq(Modes) /\ Len(t) = Len(s) - 1 /\ Len(s) \in Nat \ {0}
      /\ Head(s) = s[1] /\ \A i \in 1 .. Len(t) : t[i] = s[i + 1]
  BY HeadTailProperties, LenProperties, EmptySeq
<1>2. \A i \in 1 .. Len(s) : s[i] \in Modes
  BY ElementOfSeq
<1>3. t = <<>> => Len(t) = 0
  BY EmptySeq
<1>4. t # <<>> => Len(t) \in Nat \ {0} /\ Head(t) = t[1]
  BY <1>1, EmptySeq, HeadTailProperties
<1> HIDE DEF t
<1>7. Head(s) \in Modes /\ Last(s) \in Modes
  BY <1>1, <1>2 DEF Last
<1>8. t = <<>> => Last(s) = Head(s)
  <2> SUFFICES ASSUME t = <<>> PROVE Len(s) = 1
    BY <1>1 DEF Last
  <2> QED
    BY <1>1, <1>3
<1>9. t # <<>> => Last(t) = Last(s)
  BY <1>1, <1>4 DEF Last
<1>5. Alternating(s) => Alternating(t)
  BY <1>1 DEF Alternating
<1>6. Alternating(s) /\ t # <<>> => Head(t) # Head(s)
  BY <1>1, <1>4 DEF Alternating
<1> QED
  BY <1>1, <1>5, <1>6, <1>7, <1>8, <1>9 DEF t

-----------------------------------------------------------------------------
(* Types and the gateway.                                                  *)
LEMMA Bounds ==
  /\ ModeqMax \in Nat /\ ModeqMax > 0
  /\ MaxSwitches \in Nat /\ MaxDelayed \in Nat /\ MaxFaults \in Nat
BY MeasureAssumption

LEMMA OneFaultType == TypeOK /\ OneFault => faults' \in 0 .. MaxFaults
BY Bounds DEF TypeOK, OneFault

LEMMA InitInv == Init => IInv
<1> SUFFICES ASSUME Init PROVE IInv
  OBVIOUS
<1>1. <<>> \in Seq(Modes) /\ Len(<<>>) = 0
  BY EmptySeq
<1>2. TypeOK
  <2>1. 0 \in 0 .. MaxSwitches /\ 0 \in 0 .. MaxFaults /\ 0 <= ModeqMax
    BY Bounds
  <2> QED
    BY <1>1, <2>1 DEF Init, TypeOK, Modes
<1>3. CountInv /\ CollectorInv /\ RequestInv
  BY DEF Init, CountInv, One, CollectorInv, RequestInv
<1>4. QueueInv
  BY <1>1 DEF Init, QueueInv, Alternating
<1>5. HeardInv
  <2>1. Heard = 0 /\ Over = 0
    BY OffsEmpty DEF Init, Heard, Over, One, Repeated, LastHeard, LastKept
  <2> QED
    BY <2>1 DEF Init, HeardInv
<1> QED
  BY <1>2, <1>3, <1>4, <1>5 DEF IInv

LEMMA CountStep == IInv /\ Next => CountInv'
<1> SUFFICES ASSUME IInv, Next PROVE CountInv'
  OBVIOUS
<1> USE DEF CountInv, One, TypeOK, histVars
<1>1. pauses \in Nat /\ switches \in Nat
  BY Bounds DEF IInv
<1>2. CASE Server
  BY <1>1, <1>2 DEF IInv, Server, Answer, LoseRequest, Note, LogMode, LogModeFails,
     QueueEmpty, Commit, CommitFails, ServerRestart, gwVars
<1>3. CASE SendRequest \/ NoCommand \/ SetCollector \/ SetCollectorFails
  BY <1>1, <1>3 DEF IInv, SendRequest, NoCommand, SetCollector, SetCollectorFails
<1>4. CASE SwitchMode
  BY <1>1, <1>4 DEF IInv, SwitchMode
<1>5. CASE SaveMode \/ SaveModeFails
  BY <1>1, <1>5 DEF IInv, SaveMode, SaveModeFails
<1>6. CASE ClientRestart \/ Reboot
  BY <1>1, <1>6 DEF IInv, ClientRestart, Reboot
<1> QED
  BY <1>2, <1>3, <1>4, <1>5, <1>6 DEF Next, Gateway

LEMMA CollectorStep == IInv /\ Next => CollectorInv'
<1> SUFFICES ASSUME IInv, Next PROVE CollectorInv'
  OBVIOUS
<1> USE DEF CollectorInv, TypeOK, Modes
<1>1. CASE Server
  BY <1>1 DEF IInv, Server, Answer, LoseRequest, Note, LogMode, LogModeFails,
     QueueEmpty, Commit, CommitFails, ServerRestart, gwVars, histVars
<1>2. CASE SendRequest \/ NoCommand
  BY <1>2 DEF IInv, SendRequest, NoCommand, histVars
<1>3. CASE SwitchMode
  BY <1>3 DEF IInv, SwitchMode
<1>4. CASE SaveMode
  BY <1>4 DEF IInv, SaveMode
<1>5. CASE SaveModeFails
  BY <1>5 DEF IInv, SaveModeFails
<1>6. CASE SetCollector
  BY <1>6 DEF IInv, SetCollector, UnitWanted
<1>7. CASE SetCollectorFails
  BY <1>7 DEF IInv, SetCollectorFails
<1>8. CASE ClientRestart
  BY <1>8 DEF IInv, ClientRestart, StopsAtStart, DriftAfterRestart
<1>9. CASE Reboot
  BY <1>9 DEF IInv, Reboot
<1> QED
  BY <1>1, <1>2, <1>3, <1>4, <1>5, <1>6, <1>7, <1>8, <1>9 DEF Next, Gateway

LEMMA RequestStep == IInv /\ Next => RequestInv'
<1> SUFFICES ASSUME IInv, Next PROVE RequestInv'
  OBVIOUS
<1> USE DEF RequestInv
<1>1. CASE SendRequest
  BY <1>1 DEF IInv, TypeOK, SendRequest
<1>2. CASE Gateway /\ ~SendRequest
  BY <1>2 DEF IInv, Gateway, NoCommand, SwitchMode, SaveMode, SaveModeFails,
     SetCollector, SetCollectorFails, ClientRestart, Reboot
<1>3. CASE Server
  BY <1>3 DEF IInv, Server, Answer, LoseRequest, Note, LogMode, LogModeFails,
     QueueEmpty, Commit, CommitFails, ServerRestart, gwVars, linkVars
<1> QED
  BY <1>1, <1>2, <1>3 DEF Next

-----------------------------------------------------------------------------
(* The server's record of what it has heard.                               *)
LEMMA LastKeptType == TypeOK => LastKept \in Modes \cup {"none"}
<1> SUFFICES ASSUME TypeOK PROVE LastKept \in Modes \cup {"none"}
  OBVIOUS
<1>1. \A s \in Seq(Modes) : s # <<>> => Last(s) \in Modes
  BY TailMode
<1> QED
  BY <1>1 DEF TypeOK, LastKept

LEMMA HeardType ==
  ASSUME TypeOK
  PROVE  Heard \in Int /\ Over \in Int /\ Over <= Heard /\ Heard <= Over + 1
<1>1. Offs(modeTx) \in Nat /\ Offs(modeq) \in Nat
  BY OffsType DEF TypeOK
<1> QED
  BY <1>1 DEF Heard, Over, One

(* The gateway's steps, and those of the server that touch neither the     *)
(* queue nor the log nor what is noted.                                    *)
LEMMA RecordStays ==
  ASSUME UNCHANGED <<hand, modeq, modeTx>>
  PROVE  UNCHANGED <<Heard, Over, LastKept, LastHeard>>
BY DEF Heard, Over, LastKept, LastHeard, Repeated

LEMMA AnswerRecord ==
  ASSUME IInv, NEW r \in reqs, Answer(r)
  PROVE  /\ UNCHANGED <<LastKept, seen, modeq, lost>>
         /\ Heard' >= Heard /\ Over' >= Over
         /\ Heard' = Over' + One(r.mode = "off")
<1>1. Offs(modeTx) \in Nat /\ Offs(modeq) \in Nat /\ r.mode \in Modes
  BY OffsType DEF IInv, TypeOK
<1>2. UNCHANGED <<LastKept, seen, modeq, modeTx, lost>>
  BY DEF Answer, LastKept, logVars, histVars
<1>3. Repeated' = Repeated /\ LastHeard' = r.mode /\ LastHeard = LastKept
  BY <1>1, <1>2 DEF Answer, Repeated, LastHeard, Modes
<1>4. hand = "none" /\ hand' = r.mode
  BY DEF Answer
<1> HIDE DEF Repeated, LastKept, LastHeard
<1>5. CASE r.mode = "off"
  BY <1>1, <1>2, <1>3, <1>4, <1>5 DEF Heard, Over, One
<1>6. CASE r.mode = "on"
  BY <1>1, <1>2, <1>3, <1>4, <1>6 DEF Heard, Over, One
<1> QED
  BY <1>1, <1>5, <1>6 DEF Modes

LEMMA NoteRecord ==
  ASSUME IInv, Note, lost' = {}
  PROVE  /\ lost = {} /\ UNCHANGED <<Heard, Over>>
         /\ Alternating(modeq)' /\ seen' # "none" /\ LastKept' = seen'
<1>1. /\ modeq \in Seq(Modes) /\ modeTx \in Seq(Modes) /\ hand \in Modes
      /\ modeTx' = modeTx /\ hand' = "none" /\ seen' = hand
  BY DEF IInv, TypeOK, Note, logVars
<1>2. lost = {} /\ QueueInv
  BY DEF IInv, Note
<1>3. LastKept' = hand /\ Alternating(modeq)' /\ UNCHANGED <<Heard, Over>>
  <2>1. CASE IsChange /\ HasRoom /\ modeq' = Append(modeq, hand)
    <3>1. modeq # <<>> => Last(modeq) # hand
      BY <1>2, <2>1 DEF QueueInv, LastKept, IsChange
    <3>2. /\ modeq' # <<>> /\ Last(modeq') = hand /\ Alternating(modeq')
          /\ modeq # <<>> => Head(modeq') = Head(modeq)
          /\ modeq = <<>> => Head(modeq') = hand
      BY <1>1, <1>2, <2>1, <3>1, AppendMode, EmptySeq DEF QueueInv, Alternating
    <3>3. LastKept' = hand
      BY <3>2 DEF LastKept
    <3>4. Offs(modeq') = Offs(modeq) + One(hand = "off")
      BY <1>1, <2>1, OffsAppend
    <3>5. Offs(modeTx) \in Nat /\ Offs(modeq) \in Nat /\ Offs(modeTx') = Offs(modeTx)
      BY <1>1, OffsType
    <3>6. LastKept # "off" \/ hand # "off" \/ (modeq = <<>> /\ seen = "none")
      BY <1>2, <2>1 DEF QueueInv, IsChange
    <3>7. One(hand = "off" /\ LastKept # "off") - One(Repeated)
            = One(hand = "off") - One(Repeated')
      <4>1. CASE modeq # <<>>
        BY <1>1, <3>1, <3>2, <4>1 DEF One, Repeated, LastKept
      <4>2. CASE modeq = <<>>
        BY <1>1, <3>2, <4>2 DEF One, Repeated, LastKept
      <4> QED
        BY <4>1, <4>2
    <3>8. One(hand' = "off" /\ LastKept' # "off") = 0
      BY <1>1 DEF One
    <3>9. Heard' = Heard
      BY <3>4, <3>5, <3>7, <3>8 DEF Heard, One
    <3>10. LastHeard' = LastHeard
      BY <1>1, <3>3 DEF LastHeard, Modes
    <3> QED
      BY <3>2, <3>3, <3>9, <3>10 DEF Over
  <2>2. CASE ~IsChange /\ modeq' = modeq
    <3>1. LastKept = hand /\ LastKept' = LastKept /\ Repeated' = Repeated
      BY <1>1, <1>2, <2>2 DEF QueueInv, IsChange, LastKept, Repeated, Modes
    <3>2. LastHeard' = LastHeard
      BY <1>1, <3>1 DEF LastHeard, Modes
    <3>3. Heard' = Heard
      BY <1>1, <2>2, <3>1 DEF Heard, One
    <3> QED
      BY <1>2, <2>2, <3>1, <3>2, <3>3 DEF Over, QueueInv
  <2> QED
    BY <2>1, <2>2 DEF Note
<1> QED
  BY <1>1, <1>2, <1>3 DEF Modes

LEMMA LogModeRecord ==
  ASSUME IInv, LogMode, lost = {}
  PROVE  UNCHANGED <<Heard, Over, LastKept>> /\ Alternating(modeq)' /\ modeq # <<>>
<1> DEFINE h == Head(modeq)
<1>1. /\ modeq \in Seq(Modes) /\ modeq # <<>> /\ modeTx \in Seq(Modes)
      /\ modeq' = Tail(modeq) /\ hand' = hand /\ Alternating(modeq)
      /\ modeTx' = IF IsNews(h) THEN Append(modeTx, h) ELSE modeTx
  BY DEF IInv, TypeOK, QueueInv, LogMode, hotVars
<1>2. /\ h \in Modes /\ modeq' \in Seq(Modes)
      /\ modeq' = <<>> => Last(modeq) = h
      /\ modeq' # <<>> => Last(modeq') = Last(modeq) /\ Head(modeq') # h
      /\ Alternating(modeq')
  BY <1>1, TailMode
<1>3. modeTx' \in Seq(Modes) /\ modeTx' # <<>> /\ Last(modeTx') = h
  <2>1. CASE IsNews(h)
    BY <1>1, <1>2, <2>1, AppendMode
  <2>2. CASE ~IsNews(h)
    BY <1>1, <2>2 DEF IsNews
  <2> QED
    BY <2>1, <2>2
<1>4. Offs(modeq) = Offs(modeq') + One(h = "off")
  BY <1>1, OffsTail
<1>5. Offs(modeTx') = Offs(modeTx) + One(IsNews(h) /\ h = "off")
  <2>1. CASE IsNews(h)
    BY <1>1, <1>2, <2>1, OffsAppend DEF One
  <2>2. CASE ~IsNews(h)
    <3>1. modeTx' = modeTx /\ Offs(modeTx) \in Nat
      BY <1>1, <2>2, OffsType
    <3>2. One(IsNews(h) /\ h = "off") = 0
      BY <2>2 DEF One
    <3> QED
      BY <3>1, <3>2
  <2> QED
    BY <2>1, <2>2
<1>6. /\ Offs(modeTx) \in Nat /\ Offs(modeTx') \in Nat
      /\ Offs(modeq) \in Nat /\ Offs(modeq') \in Nat
  BY <1>1, <1>2, <1>3, OffsType
<1>7. ~Repeated'
  BY <1>2, <1>3 DEF Repeated
<1>8. Repeated <=> h = "off" /\ ~IsNews(h)
  BY <1>1 DEF Repeated, IsNews
<1>9. LastKept' = LastKept
  BY <1>1, <1>2, <1>3 DEF LastKept
<1>10. LastHeard' = LastHeard
  BY <1>1, <1>9 DEF LastHeard
<1> HIDE DEF h
<1>11. Offs(modeTx') + Offs(modeq') - One(Repeated')
         = Offs(modeTx) + Offs(modeq) - One(Repeated)
  BY <1>4, <1>5, <1>6, <1>7, <1>8 DEF One
<1>12. Heard' = Heard
  <2>1. One(hand' = "off" /\ LastKept' # "off") = One(hand = "off" /\ LastKept # "off")
    BY <1>1, <1>9
  <2>2. /\ One(hand = "off" /\ LastKept # "off") \in Nat
        /\ One(Repeated) \in Nat /\ One(Repeated') \in Nat
    BY DEF One
  <2> QED
    BY <1>6, <1>11, <2>1, <2>2 DEF Heard
<1> QED
  BY <1>1, <1>2, <1>9, <1>10, <1>12 DEF Over

LEMMA ServerRestartRecord ==
  ASSUME IInv, ServerRestart, lost' = {}
  PROVE  /\ lost = {} /\ UNCHANGED <<Heard, Over>>
         /\ Alternating(modeq)' /\ modeq' = <<>> /\ seen' = "none"
<1>1. lost = {} /\ UNCHANGED <<hand, modeq, modeTx>> /\ modeq' = <<>> /\ seen' = "none"
  BY DEF ServerRestart
<1> QED
  BY <1>1, RecordStays DEF IInv, QueueInv

(* Steps that leave the queue and the log as they are, or lose a change.   *)
Unrecorded ==
    \/ Gateway \/ QueueEmpty \/ Commit \/ CommitFails \/ LogModeFails
    \/ \E r \in reqs : LoseRequest(r)

LEMMA UnrecordedStep ==
  ASSUME Unrecorded, lost' = {}
  PROVE  lost = {} /\ UNCHANGED <<hand, seen, modeq, modeTx>>
<1>1. CASE Gateway
  BY <1>1 DEF Gateway, SendRequest, NoCommand, SwitchMode, SaveMode, SaveModeFails,
     SetCollector, SetCollectorFails, ClientRestart, Reboot, hotVars, logVars, histVars
<1>2. CASE ~Gateway
  BY <1>2 DEF Unrecorded, QueueEmpty, Commit, CommitFails, LogModeFails, LoseRequest,
     hotVars, logVars, histVars
<1> QED
  BY <1>1, <1>2

LEMMA ServerCases ==
  Next => \/ Unrecorded \/ (\E r \in reqs : Answer(r)) \/ Note \/ LogMode
          \/ ServerRestart
BY DEF Next, Server, Unrecorded

LEMMA QueueStep == IInv /\ Next => QueueInv'
<1> SUFFICES ASSUME IInv, Next, lost' = {}
             PROVE  /\ Alternating(modeq)' /\ (seen' = "none" => modeq' = <<>>)
                    /\ (seen' # "none" => LastKept' = seen')
  BY DEF QueueInv
<1>1. CASE Unrecorded
  BY <1>1, UnrecordedStep, RecordStays DEF IInv, QueueInv
<1>2. ASSUME NEW r \in reqs, Answer(r)
      PROVE  /\ Alternating(modeq)' /\ (seen' = "none" => modeq' = <<>>)
             /\ (seen' # "none" => LastKept' = seen')
  BY <1>2, AnswerRecord DEF IInv, QueueInv
<1>3. CASE Note
  BY <1>3, NoteRecord
<1>4. CASE LogMode
  BY <1>4, LogModeRecord DEF IInv, QueueInv, LogMode, hotVars, histVars
<1>5. CASE ServerRestart
  BY <1>5, ServerRestartRecord
<1> QED
  BY <1>1, <1>2, <1>3, <1>4, <1>5, ServerCases

(* The server's steps only add to what was heard.                          *)
LEMMA HeardMore ==
  ASSUME IInv, lost = {}, UNCHANGED <<pc, mode, modeDisk, answered, pauses>>,
         Heard' >= Heard, Over' >= Over, Heard' \in Int, Over' \in Int
  PROVE  HeardInv'
<1>1. pauses \in Int
  BY Bounds DEF IInv, TypeOK
<1> QED
  BY <1>1, HeardType DEF IInv, HeardInv

LEMMA HeardStep == IInv /\ Next => HeardInv'
<1> SUFFICES ASSUME IInv, Next, lost' = {} PROVE HeardInv'
  BY DEF HeardInv
<1> DEFINE Kept == UNCHANGED <<pc, mode, modeDisk, answered, pauses>>
<1>1. /\ Heard \in Int /\ Over \in Int /\ Over <= Heard /\ Heard <= Over + 1
      /\ pauses \in Nat
  BY HeardType, Bounds DEF IInv, TypeOK
<1>2. CASE Unrecorded
  <2>1. lost = {} /\ UNCHANGED <<Heard, Over>>
    BY <1>2, UnrecordedStep, RecordStays
  <2>2. /\ pauses <= Heard
        /\ mode = "off" => pauses <= Over
        /\ pc = "wait" /\ answered =>
               IF mode = "off" THEN pauses < Heard ELSE pauses <= Over
        /\ mode = "on" /\ (pc = "save" \/ modeDisk = "off") => pauses < Heard
        /\ mode \in Modes /\ modeDisk \in Modes
    BY <2>1 DEF IInv, TypeOK, HeardInv
  <2> HIDE DEF Heard, Over
  <2> USE DEF HeardInv, Modes
  <2>3. CASE SendRequest \/ NoCommand \/ SetCollector \/ SetCollectorFails
    BY <1>1, <2>1, <2>2, <2>3
       DEF SendRequest, NoCommand, SetCollector, SetCollectorFails, histVars
  <2>4. CASE SwitchMode
    BY <1>1, <2>1, <2>2, <2>4 DEF SwitchMode
  <2>5. CASE SaveMode
    BY <1>1, <2>1, <2>2, <2>5 DEF SaveMode
  <2>6. CASE SaveModeFails
    BY <1>1, <2>1, <2>2, <2>6 DEF SaveModeFails
  <2>7. CASE ClientRestart \/ Reboot
    BY <1>1, <2>1, <2>2, <2>7 DEF ClientRestart, Reboot
  <2>8. CASE ~Gateway
    <3>1. Kept
      BY <1>2, <2>8 DEF Unrecorded, QueueEmpty, Commit, CommitFails, LogModeFails,
         LoseRequest, gwVars, linkVars, histVars
    <3> QED
      BY <1>1, <2>1, <2>2, <3>1
  <2> QED
    BY <2>3, <2>4, <2>5, <2>6, <2>7, <2>8 DEF Gateway
<1>3. ASSUME NEW r \in reqs, Answer(r) PROVE HeardInv'
  <2>1. /\ lost = {} /\ Heard' >= Heard /\ Over' >= Over
        /\ Heard' = Over' + One(r.mode = "off")
    BY <1>3, AnswerRecord
  <2>2. /\ UNCHANGED <<pc, mode, modeDisk, pauses>>
        /\ answered' = (answered \/ (r.cur /\ pc = "wait"))
        /\ r.mode \in Modes
    BY <1>3 DEF IInv, TypeOK, Answer, gwVars, histVars
  <2>3. Heard' \in Int /\ Over' \in Int
    <3>1. Offs(modeTx') \in Nat /\ Offs(modeq') \in Nat
      BY <1>3, OffsType DEF IInv, TypeOK, Answer, logVars
    <3> QED
      BY <3>1 DEF Heard, Over, One
  <2>4. CASE UNCHANGED answered
    BY <2>1, <2>2, <2>3, <2>4, HeardMore
  <2>5. CASE r.cur /\ pc = "wait"
    <3>1. r.mode = mode
      BY <2>5 DEF IInv, RequestInv
    <3>2. /\ pauses <= Heard /\ (mode = "off" => pauses <= Over)
          /\ mode = "on" /\ modeDisk = "off" => pauses < Heard
      BY <2>1 DEF IInv, HeardInv
    <3> HIDE DEF Heard, Over
    <3> QED
      <4>0. /\ Heard' \in Int /\ Over' \in Int /\ pauses \in Int /\ Heard' >= Heard
            /\ Heard' = Over' + One(mode = "off") /\ Over' >= Over
            /\ mode' = mode /\ pc' = pc /\ modeDisk' = modeDisk /\ pauses' = pauses
        BY <1>1, <2>1, <2>2, <2>3, <3>1
      <4>1. CASE mode = "off"
        <5>1. Heard' = Over' + 1
          BY <4>0, <4>1 DEF One
        <5>2. pauses <= Over'
          BY <1>1, <3>2, <4>0, <4>1
        <5>3. pauses < Heard' /\ pauses <= Heard'
          <6>1. \A x, y, z \in Int : x <= y /\ z = y + 1 => x < z /\ x <= z
            OBVIOUS
          <6> QED
            BY <2>3, <4>0, <5>1, <5>2, <6>1
        <5> QED
          BY <4>0, <4>1, <5>2, <5>3 DEF HeardInv
      <4>2. CASE mode = "on"
        <5>1. Heard' = Over'
          <6>1. One(mode = "off") = 0
            BY <4>2 DEF One
          <6> QED
            BY <2>3, <4>0, <6>1
        <5>2. pauses <= Heard' /\ (modeDisk = "off" => pauses < Heard')
          BY <1>1, <3>2, <4>0, <4>2
        <5> QED
          BY <2>5, <4>0, <4>2, <5>1, <5>2 DEF HeardInv
      <4> QED
        BY <4>1, <4>2 DEF IInv, TypeOK, Modes
  <2> QED
    BY <2>2, <2>4, <2>5 DEF IInv, TypeOK
<1>4. CASE Note
  BY <1>1, <1>4, NoteRecord, HeardMore DEF Note, gwVars, linkVars
<1>5. CASE LogMode
  BY <1>1, <1>5, LogModeRecord, HeardMore DEF LogMode, gwVars, linkVars, histVars
<1>6. CASE ServerRestart
  BY <1>1, <1>6, ServerRestartRecord, HeardMore DEF ServerRestart, gwVars, linkVars
<1> QED
  BY <1>2, <1>3, <1>4, <1>5, <1>6, ServerCases

-----------------------------------------------------------------------------
LEMMA TypeStep == IInv /\ Next => TypeOK'
<1> SUFFICES ASSUME IInv, Next PROVE TypeOK'
  OBVIOUS
<1> USE DEF Modes
<1>1. CASE SendRequest
  <2>1. reqs' \subseteq [mode : Modes, cur : BOOLEAN]
    <3>1. ASSUME NEW q \in reqs
          PROVE  [q EXCEPT !.cur = FALSE] \in [mode : Modes, cur : BOOLEAN]
      <4>1. q \in [mode : Modes, cur : BOOLEAN]
        BY DEF IInv, TypeOK
      <4> QED
        BY <4>1
    <3>2. [mode |-> mode, cur |-> TRUE] \in [mode : Modes, cur : BOOLEAN]
      BY DEF IInv, TypeOK
    <3> QED
      BY <1>1, <3>1, <3>2 DEF SendRequest
  <2> QED
    BY <1>1, <2>1 DEF IInv, TypeOK, SendRequest, hotVars, logVars, histVars
<1>2. CASE NoCommand
  BY <1>2 DEF IInv, TypeOK, NoCommand, linkVars, hotVars, logVars, histVars
<1>3. CASE SetCollector
  BY <1>3 DEF IInv, TypeOK, SetCollector, UnitWanted, linkVars, hotVars, logVars
<1>4. CASE SwitchMode
  <2>1. switches' \in 0 .. MaxSwitches
    BY <1>4, Bounds DEF IInv, TypeOK, SwitchMode
  <2> QED
    BY <1>4, <2>1 DEF IInv, TypeOK, SwitchMode, linkVars, hotVars, logVars
<1>5. CASE SaveMode
  <2>1. pauses' \in 0 .. MaxSwitches
    BY <1>5, Bounds DEF IInv, TypeOK, CountInv, One, SaveMode
  <2> QED
    BY <1>5, <2>1 DEF IInv, TypeOK, SaveMode, linkVars, hotVars, logVars
<1>6. CASE SaveModeFails \/ SetCollectorFails
  <2>1. faults' \in 0 .. MaxFaults
    BY <1>6, OneFaultType DEF IInv, SaveModeFails, SetCollectorFails
  <2> QED
    BY <1>6, <2>1 DEF IInv, TypeOK, SaveModeFails, SetCollectorFails, linkVars,
       hotVars, logVars
<1>7. CASE ClientRestart \/ Reboot
  <2>1. faults' \in 0 .. MaxFaults
    BY <1>7, OneFaultType DEF IInv, ClientRestart, Reboot
  <2> QED
    BY <1>7, <2>1 DEF IInv, TypeOK, ClientRestart, Reboot, DriftAfterRestart, hotVars,
       logVars
<1>8. ASSUME NEW r \in reqs, Answer(r) \/ LoseRequest(r) PROVE TypeOK'
  <2>1. reqs' \subseteq reqs /\ r.mode \in Modes
    BY <1>8 DEF IInv, TypeOK, Answer, LoseRequest
  <2>2. CASE Answer(r)
    <3>1. answered' \in BOOLEAN
      BY <2>2 DEF IInv, TypeOK, Answer
    <3> QED
      BY <2>1, <2>2, <3>1 DEF IInv, TypeOK, Answer, gwVars, logVars, histVars
  <2>3. CASE LoseRequest(r)
    BY <2>1, <2>3 DEF IInv, TypeOK, LoseRequest, gwVars, hotVars, logVars, histVars
  <2> QED
    BY <1>8, <2>2, <2>3
<1>9. CASE Note
  <2>1. modeq' \in Seq(Modes) /\ Len(modeq') <= ModeqMax
    <3>1. CASE HasRoom /\ modeq' = Append(modeq, hand)
      <4>1. modeq \in Seq(Modes) /\ hand \in Modes /\ Len(modeq) \in Nat
        BY <1>9, LenProperties DEF IInv, TypeOK, Note
      <4>2. modeq' \in Seq(Modes) /\ Len(modeq') = Len(modeq) + 1
        BY <3>1, <4>1, AppendMode
      <4> QED
        BY <3>1, <4>1, <4>2, Bounds DEF HasRoom
    <3>2. CASE UNCHANGED modeq
      BY <3>2 DEF IInv, TypeOK
    <3> QED
      BY <1>9, <3>1, <3>2 DEF Note
  <2> QED
    BY <1>9, <2>1 DEF IInv, TypeOK, Note, gwVars, linkVars, logVars
<1>10. ASSUME LogMode \/ LogModeFails
      PROVE  modeq' \in Seq(Modes) /\ Len(modeq') <= ModeqMax /\ Head(modeq) \in Modes
  <2>1. modeq \in Seq(Modes) /\ modeq # <<>> /\ Len(modeq) \in Nat /\ modeq' = Tail(modeq)
    BY <1>10, LenProperties DEF IInv, TypeOK, LogMode, LogModeFails
  <2>2. /\ modeq' \in Seq(Modes) /\ Len(modeq') = Len(modeq) - 1
        /\ Head(modeq) \in Modes
    BY <2>1, TailMode
  <2> QED
    BY <2>1, <2>2, Bounds DEF IInv, TypeOK
<1>11. CASE LogMode
  <2>1. modeTx' \in Seq(Modes)
    <3>1. CASE modeTx' = Append(modeTx, Head(modeq))
      BY <1>10, <1>11, <3>1, AppendMode DEF IInv, TypeOK
    <3> QED
      BY <1>11, <3>1 DEF IInv, TypeOK, LogMode
  <2> QED
    BY <1>10, <1>11, <2>1 DEF IInv, TypeOK, LogMode, gwVars, linkVars, hotVars, histVars
<1>12. CASE LogModeFails \/ CommitFails \/ ServerRestart
  <2>1. faults' \in 0 .. MaxFaults
    BY <1>12, OneFaultType DEF IInv, LogModeFails, CommitFails, ServerRestart
  <2>2. <<>> \in Seq(Modes) /\ Len(<<>>) <= ModeqMax
    BY EmptySeq, Bounds
  <2> QED
    <3>1. CASE LogModeFails
      BY <1>10, <2>1, <3>1 DEF IInv, TypeOK, LogModeFails, gwVars, linkVars, hotVars,
         logVars
    <3>2. CASE CommitFails
      BY <2>1, <3>2 DEF IInv, TypeOK, CommitFails, gwVars, linkVars, hotVars
    <3>3. CASE ServerRestart
      BY <2>1, <2>2, <3>3 DEF IInv, TypeOK, ServerRestart, gwVars, linkVars
    <3> QED
      BY <1>12, <3>1, <3>2, <3>3
<1>13. CASE QueueEmpty
  BY <1>13 DEF IInv, TypeOK, QueueEmpty, gwVars, linkVars, hotVars, histVars
<1>14. CASE Commit
  BY <1>14 DEF IInv, TypeOK, Commit, gwVars, linkVars, hotVars, histVars
<1> QED
  BY <1>1, <1>2, <1>3, <1>4, <1>5, <1>6, <1>7, <1>8, <1>9, <1>11, <1>12, <1>13, <1>14
     DEF Next, Gateway, Server

LEMMA StutterInv == IInv /\ UNCHANGED vars => IInv'
<1> SUFFICES ASSUME IInv, UNCHANGED vars PROVE IInv'
  OBVIOUS
<1> USE DEF vars, gwVars, linkVars, hotVars, logVars, histVars
<1>1. TypeOK' /\ CountInv' /\ CollectorInv' /\ RequestInv'
  BY DEF IInv, TypeOK, CountInv, CollectorInv, RequestInv
<1>2. QueueInv' /\ HeardInv'
  BY RecordStays DEF IInv, QueueInv, HeardInv
<1> QED
  BY <1>1, <1>2 DEF IInv

(* What the gateway has switched against what the server has heard, and    *)
(* the collector against the mode, over restarts and failures of both.     *)
THEOREM ModeInvariance == Spec => []IInv
<1>1. IInv /\ [Next]_vars => IInv'
  BY TypeStep, CountStep, CollectorStep, RequestStep, QueueStep, HeardStep,
     StutterInv DEF IInv
<1> QED
  BY <1>1, InitInv, PTL DEF Spec

(* Every variable keeps its type; the queue of changes its limit.          *)
THEOREM ModeTypeCorrect == Spec => []TypeOK
<1>1. IInv => TypeOK
  BY DEF IInv
<1> QED
  BY <1>1, ModeInvariance, PTL

(* While the measurement is off the collector does not run, unless the     *)
(* last attempt to stop it failed.                                         *)
THEOREM QuietWhenOff == Spec => []OffMeansQuiet
<1>1. IInv => OffMeansQuiet
  BY DEF IInv, CollectorInv, OffMeansQuiet
<1> QED
  BY <1>1, ModeInvariance, PTL

(* While it is on the collector runs, unless a step of a switch failed or  *)
(* was interrupted and nothing has repaired it since.                      *)
THEOREM CollectingWhenOn == Spec => []OnMeansCollecting
<1>1. IInv => OnMeansCollecting
  BY DEF IInv, CollectorInv, OnMeansCollecting
<1> QED
  BY <1>1, ModeInvariance, PTL

(* Every pause that the gateway has ended is noted, queued or logged at    *)
(* the server, whichever requests were lost or late, unless a change was   *)
(* dropped by a full queue, an error or a restart of the server.           *)
THEOREM NoPauseMissing == Spec => []EveryPauseLogged
<1>1. IInv => EveryPauseLogged
  <2> SUFFICES ASSUME IInv, lost = {}
               PROVE  pauses <= Offs(modeTx) + Offs(modeq)
                            + (IF hand = "off" /\ seen # "off" THEN 1 ELSE 0)
    BY DEF EveryPauseLogged
  <2>1. Offs(modeTx) \in Nat /\ Offs(modeq) \in Nat
    BY OffsType DEF IInv, TypeOK
  <2>4. pauses \in Nat
    BY Bounds DEF IInv, TypeOK
  <2>2. hand = "off" /\ LastKept # "off" => seen # "off"
    BY DEF IInv, QueueInv
  <2>3. pauses <= Heard
    BY DEF IInv, HeardInv
  <2> HIDE DEF LastKept, Repeated
  <2> QED
    BY <2>1, <2>2, <2>3, <2>4 DEF Heard, One
<1> QED
  BY <1>1, ModeInvariance, PTL
=============================================================================
