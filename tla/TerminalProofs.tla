--------------------------- MODULE TerminalProofs ---------------------------
(***************************************************************************)
(* Proofs about Terminal.                                                  *)
(***************************************************************************)
EXTENDS Terminal, FiniteSums, SequenceTheorems

-----------------------------------------------------------------------------
(* The arrows *)

Sources == {"tty", "inject"}

ArrowsAt(h, dir) == {i \in DOMAIN h : h[i].type = dir}
IsSequence(h) == \E X : h \in Seq(X)

Detectors == [state : {"idle", "waiting", "absorbing"}, dir : Directions \cup {NULL}, age : Nat]
\* What is held back has a direction.
Detecting(d) == d \in Detectors /\ (d.state # "idle" => d.dir \in Directions)
Times == [Directions -> Nat]
Effects == [arrow : Times, wheel : Times, absorbed : Times, turned : Times]

One(dir, at) == IF dir = at THEN 1 ELSE 0
Held(d, dir) == IF d.state = "waiting" /\ d.dir = dir THEN 1 ELSE 0
Balance(e, dir) == e.arrow[dir] + e.wheel[dir] + e.absorbed[dir] + e.turned[dir] - e.turned[Against(dir)]

\* There are two directions.
LEMMA TwoDirections ==
  /\ Against("ARROW_UP") = "ARROW_DOWN" /\ Against("ARROW_DOWN") = "ARROW_UP"
  /\ \A dir \in Directions : Against(dir) \in Directions
<1>1. Against("ARROW_UP") = "ARROW_DOWN"
  BY DEF Against, Directions
<1>2. Against("ARROW_DOWN") = "ARROW_UP"
  BY DEF Against, Directions
<1> QED
  BY <1>1, <1>2 DEF Directions

\* Counting one more in one direction.
LEMMA OnceMore ==
  ASSUME NEW t \in Times, NEW dir \in Directions
  PROVE  /\ Once(t, dir) \in Times
         /\ \A at \in Directions : Once(t, dir)[at] = t[at] + One(dir, at)
  BY DEF Times, Once, One

\* The arrows of a sequence can be counted, and one action more is an arrow
\* more exactly when it is one.
LEMMA ArrowsAppend ==
  ASSUME NEW h, IsSequence(h), NEW a, NEW dir
  PROVE  /\ IsSequence(Append(h, a))
         /\ IsFiniteSet(ArrowsAt(h, dir)) /\ Cardinality(ArrowsAt(h, dir)) \in Nat
         /\ Cardinality(ArrowsAt(Append(h, a), dir)) = Cardinality(ArrowsAt(h, dir)) + One(a.type, dir)
<1>1. PICK X : h \in Seq(X)
  BY DEF IsSequence
<1>2. h \in Seq(X \cup {a})
  BY <1>1
<1>3. Append(h, a) \in Seq(X \cup {a})
  BY <1>2
<1>4. DOMAIN h = 1 .. Len(h) /\ Len(h) \in Nat
  BY <1>1
<1>5. IsFiniteSet(1 .. Len(h))
  BY <1>4, FS_Interval
<1>6. ArrowsAt(h, dir) \in SUBSET (1 .. Len(h))
  BY <1>4 DEF ArrowsAt
<1>7. IsFiniteSet(ArrowsAt(h, dir)) /\ Cardinality(ArrowsAt(h, dir)) \in Nat
  BY <1>5, <1>6, FS_Subset, FS_CardinalityType
<1>8. Len(h) + 1 \notin ArrowsAt(h, dir)
  BY <1>4, <1>6
<1>9. ArrowsAt(Append(h, a), dir) = IF a.type = dir THEN ArrowsAt(h, dir) \cup {Len(h) + 1} ELSE ArrowsAt(h, dir)
  BY <1>2, <1>4 DEF ArrowsAt
<1>10. Cardinality(ArrowsAt(h, dir) \cup {Len(h) + 1}) = Cardinality(ArrowsAt(h, dir)) + 1
  BY <1>7, <1>8, FS_AddElement
<1> QED
  BY <1>3, <1>7, <1>9, <1>10 DEF IsSequence, One

\* What the detector answers to an arrow, and what it then holds.
LEMMA ArrowProcessed ==
  ASSUME NEW d, Detecting(d), NEW dir \in Directions
  PROVE  LET r == ProcessArrow(d, dir) IN
         /\ Detecting(r.d)
         /\ \/ r.result = "NONE" /\ d.state # "waiting" /\ r.d.state = "waiting" /\ r.d.dir = dir
            \/ r.result = "SCROLL" /\ d.state = "waiting" /\ r.d.state = "absorbing"
            \/ r.result = "ARROW" /\ d.state = "waiting" /\ r.d.state = "waiting" /\ r.d.dir = dir
            \/ r.result = "ABSORBED" /\ d.state = "absorbing" /\ r.d.state = "absorbing"
<1>0. /\ d.age \in Nat /\ Threshold \in Nat /\ d.state \in {"idle", "waiting", "absorbing"}
      /\ d \in Detectors /\ d.dir \in Directions \cup {NULL}
      /\ d.state # "idle" => d.dir \in Directions
  BY ThresholdAssumption DEF Detectors, Detecting
<1>1. CASE d.state = "idle" \/ (d.state = "absorbing" /\ d.age > Threshold)
  <2>1. ProcessArrow(d, dir) = [d |-> [state |-> "waiting", dir |-> dir, age |-> 0], result |-> "NONE"]
    BY <1>0, <1>1 DEF ProcessArrow
  <2> QED
    BY <1>1, <2>1 DEF Detectors, Detecting
<1>2. CASE d.state = "waiting" /\ d.age <= Threshold
  <2>1. ProcessArrow(d, dir) = [d |-> [d EXCEPT !.state = "absorbing", !.age = 0], result |-> "SCROLL"]
    BY <1>0, <1>2 DEF ProcessArrow
  <2>2. [d EXCEPT !.state = "absorbing", !.age = 0] \in Detectors /\ [d EXCEPT !.state = "absorbing", !.age = 0].state = "absorbing" /\ [d EXCEPT !.state = "absorbing", !.age = 0].dir = d.dir
    BY <1>0 DEF Detectors
  <2> DEFINE e == [d EXCEPT !.state = "absorbing", !.age = 0]
  <2>3. e \in Detectors /\ e.state = "absorbing" /\ e.dir = d.dir
    BY <2>2
  <2>4. ProcessArrow(d, dir) = [d |-> e, result |-> "SCROLL"]
    BY <2>1
  <2> HIDE DEF e
  <2> QED
    BY <1>0, <1>2, <2>3, <2>4 DEF Detecting
<1>3. CASE d.state = "waiting" /\ d.age > Threshold
  <2>1. ProcessArrow(d, dir) = [d |-> [d EXCEPT !.dir = dir, !.age = 0], result |-> "ARROW"]
    BY <1>0, <1>3 DEF ProcessArrow
  <2>2. [d EXCEPT !.dir = dir, !.age = 0] \in Detectors /\ [d EXCEPT !.dir = dir, !.age = 0].dir = dir /\ [d EXCEPT !.dir = dir, !.age = 0].state = d.state
    BY <1>0 DEF Detectors
  <2> DEFINE e == [d EXCEPT !.dir = dir, !.age = 0]
  <2>3. e \in Detectors /\ e.dir = dir /\ e.state = d.state
    BY <2>2
  <2>4. ProcessArrow(d, dir) = [d |-> e, result |-> "ARROW"]
    BY <2>1
  <2> HIDE DEF e
  <2> QED
    BY <1>0, <1>3, <2>3, <2>4 DEF Detecting
<1>4. CASE d.state = "absorbing" /\ d.age <= Threshold
  <2>1. ProcessArrow(d, dir) = [d |-> [d EXCEPT !.age = 0], result |-> "ABSORBED"]
    BY <1>0, <1>4 DEF ProcessArrow
  <2>2. [d EXCEPT !.age = 0] = [state |-> "absorbing", dir |-> d.dir, age |-> 0]
    BY <1>0, <1>4 DEF Detectors
  <2> QED
    BY <1>0, <1>4, <2>1, <2>2 DEF Detectors, Detecting
<1> QED
  BY <1>0, <1>1, <1>2, <1>3, <1>4

\* A timer that runs out, or another key, gives the held arrow back or leaves it.
LEMMA ArrowReleased ==
  ASSUME NEW d, Detecting(d), NEW r \in {CheckTimeout(d), Flush(d)}
  PROVE  /\ Detecting(r.d)
         /\ r.result = "ARROW" => d.state = "waiting" /\ r.d.state = "idle"
         /\ r.result # "ARROW" => (r.d = d \/ (d.state # "waiting" /\ r.d.state # "waiting"))
<1>1. d = [state |-> d.state, dir |-> d.dir, age |-> d.age] /\ d.state \in {"idle", "waiting", "absorbing"}
  BY DEF Detecting, Detectors
<1>2. [d EXCEPT !.state = "idle"] \in Detectors /\ [d EXCEPT !.state = "idle"].state = "idle"
  BY DEF Detecting, Detectors
<1> QED
  BY <1>1, <1>2 DEF CheckTimeout, Flush, Detecting

ArrowsHeard(h, dir) == Cardinality(ArrowsAt(h["tty"], dir)) + Cardinality(ArrowsAt(h["inject"], dir))

\* What is known of the arrows: every one heard was done or is held back.
Counted ==
  /\ Detecting(det) /\ did \in Effects
  /\ DOMAIN heard = Sources /\ \A s \in Sources : IsSequence(heard[s])
  /\ \A dir \in Directions : ArrowsHeard(heard, dir) = Balance(did, dir) + Held(det, dir)

\* An arrow more is performed.
LEMMA Performed ==
  ASSUME NEW e \in Effects, NEW dir \in Directions
  PROVE  /\ [e EXCEPT !.arrow = Once(@, dir)] \in Effects
         /\ \A at \in Directions : Balance([e EXCEPT !.arrow = Once(@, dir)], at) = Balance(e, at) + One(dir, at)
<1> DEFINE t == Once(e.arrow, dir)
<1>1. e = [arrow |-> e.arrow, wheel |-> e.wheel, absorbed |-> e.absorbed, turned |-> e.turned]
      /\ e.arrow \in Times /\ e.wheel \in Times /\ e.absorbed \in Times /\ e.turned \in Times
  BY DEF Effects
<1>2. t \in Times /\ \A at \in Directions : t[at] = e.arrow[at] + One(dir, at)
  BY <1>1, OnceMore
<1>3. [e EXCEPT !.arrow = Once(@, dir)] = [arrow |-> t, wheel |-> e.wheel, absorbed |-> e.absorbed, turned |-> e.turned]
  BY <1>1
<1> HIDE DEF t
<1>4. \A at \in Directions : /\ One(dir, at) \in Nat /\ e.arrow[at] \in Nat /\ e.wheel[at] \in Nat
                             /\ e.absorbed[at] \in Nat /\ e.turned[at] \in Nat /\ e.turned[Against(at)] \in Nat
  BY <1>1, TwoDirections DEF Times, One
<1> QED
  BY <1>1, <1>2, <1>3, <1>4 DEF Effects, Balance

\* A timer that runs out keeps the account.
LEMMA CountedExpire ==
  ASSUME NEW e, NEW d, Detecting(d), e \in Effects, NEW r \in {CheckTimeout(d), Flush(d)}
  PROVE  LET f == IF r.result = "ARROW" THEN [e EXCEPT !.arrow = Once(@, d.dir)] ELSE e IN
         /\ Detecting(r.d) /\ f \in Effects
         /\ \A dir \in Directions : Balance(f, dir) + Held(r.d, dir) = Balance(e, dir) + Held(d, dir)
<1>0. \A dir \in Directions : Balance(e, dir) \in Int
  BY TwoDirections DEF Effects, Times, Balance
<1>1. CASE r.result = "ARROW"
  <2>1. d.state = "waiting" /\ r.d.state = "idle" /\ Detecting(r.d) /\ d.dir \in Directions
    BY <1>1, ArrowReleased DEF Detecting
  <2>2. /\ [e EXCEPT !.arrow = Once(@, d.dir)] \in Effects
        /\ \A at \in Directions :
             Balance([e EXCEPT !.arrow = Once(@, d.dir)], at) = Balance(e, at) + One(d.dir, at)
    BY <2>1, Performed
  <2>3. \A at \in Directions : Held(r.d, at) = 0 /\ Held(d, at) = One(d.dir, at)
    BY <2>1 DEF Held, One
  <2> DEFINE f == [e EXCEPT !.arrow = Once(@, d.dir)]
  <2>4. f \in Effects /\ \A at \in Directions : Balance(f, at) = Balance(e, at) + One(d.dir, at)
    BY <2>2
  <2>5. f = IF r.result = "ARROW" THEN [e EXCEPT !.arrow = Once(@, d.dir)] ELSE e
    BY <1>1
  <2> HIDE DEF f
  <2>6. \A at \in Directions : One(d.dir, at) \in Nat
    BY DEF One
  <2>7. \A at \in Directions : Balance(f, at) + Held(r.d, at) = Balance(e, at) + Held(d, at)
    BY <1>0, <2>3, <2>4, <2>6
  <2> QED
    BY <2>1, <2>4, <2>5, <2>7
<1>2. CASE r.result # "ARROW"
  <2>1. Detecting(r.d) /\ \A at \in Directions : Held(r.d, at) = Held(d, at)
    BY <1>2, ArrowReleased, ZenonT(40) DEF Held
  <2> QED
    BY <1>2, <2>1
<1> QED
  BY <1>1, <1>2

\* Whatever the detector answers to an arrow, the arrow it was given and the
\* one it held are both accounted for.
LEMMA CountedArrow ==
  ASSUME Detecting(det), did \in Effects, NEW dir \in Directions, ScrollDetection(dir)
  PROVE  /\ Detecting(det)' /\ did' \in Effects
         /\ \A at \in Directions : Balance(did', at) + Held(det', at) = Balance(did, at) + Held(det, at) + One(dir, at)
<1> DEFINE r == ProcessArrow(det, dir)
<1>1. /\ Detecting(r.d)
      /\ \/ r.result = "NONE" /\ det.state # "waiting" /\ r.d.state = "waiting" /\ r.d.dir = dir
         \/ r.result = "SCROLL" /\ det.state = "waiting" /\ r.d.state = "absorbing"
         \/ r.result = "ARROW" /\ det.state = "waiting" /\ r.d.state = "waiting" /\ r.d.dir = dir
         \/ r.result = "ABSORBED" /\ det.state = "absorbing" /\ r.d.state = "absorbing"
  BY ArrowProcessed
<1>2. /\ det' = r.d
      /\ did' = CASE r.result = "SCROLL" ->
                      [did EXCEPT !.wheel = Once(@, det.dir), !.arrow = Once(@, dir)]
                  [] r.result = "ARROW" ->
                      [did EXCEPT !.arrow = Once(@, dir), !.turned = IF det.dir = dir THEN @ ELSE Once(@, det.dir)]
                  [] r.result = "NONE" -> did
                  [] r.result = "ABSORBED" -> [did EXCEPT !.absorbed = Once(@, dir)]
  BY DEF ScrollDetection
<1> HIDE DEF r
<1> DEFINE arr == did.arrow
           whl == did.wheel
           abs == did.absorbed
           trn == did.turned
           one == Once(arr, dir)
<1>3. /\ did = [arrow |-> arr, wheel |-> whl, absorbed |-> abs, turned |-> trn]
      /\ arr \in Times /\ whl \in Times /\ abs \in Times /\ trn \in Times
  BY DEF Effects
<1>4. one \in Times /\ \A at \in Directions : one[at] = arr[at] + One(dir, at)
  BY <1>3, OnceMore
<1>5. \A at \in Directions : /\ One(dir, at) \in Nat /\ arr[at] \in Nat /\ whl[at] \in Nat
                             /\ abs[at] \in Nat /\ trn[at] \in Nat /\ trn[Against(at)] \in Nat
                             /\ Balance(did, at) = arr[at] + whl[at] + abs[at] + trn[at] - trn[Against(at)]
  BY <1>3, TwoDirections DEF Times, One, Balance
<1>6. det.state # "idle" => det.dir \in Directions
  BY DEF Detecting
<1>7. CASE r.result = "NONE"
  <2>1. did' = did /\ \A at \in Directions : Held(det', at) = One(dir, at) /\ Held(det, at) = 0
    BY <1>1, <1>2, <1>7 DEF Held, One
  <2> QED
    BY <1>1, <1>2, <1>5, <2>1
<1>8. CASE r.result = "ABSORBED"
  <2> DEFINE more == Once(abs, dir)
  <2>1. did' = [arrow |-> arr, wheel |-> whl, absorbed |-> more, turned |-> trn]
    BY <1>2, <1>3, <1>8
  <2>2. more \in Times /\ \A at \in Directions : more[at] = abs[at] + One(dir, at)
    BY <1>3, OnceMore
  <2>3. \A at \in Directions : Held(det', at) = 0 /\ Held(det, at) = 0
    BY <1>1, <1>2, <1>8 DEF Held
  <2> HIDE DEF more, arr, whl, abs, trn
  <2>4. did' \in Effects
    BY <1>3, <2>1, <2>2 DEF Effects
  <2>5. \A at \in Directions : Balance(did', at) = arr[at] + whl[at] + more[at] + trn[at] - trn[Against(at)]
    BY <2>1 DEF Balance
  <2> QED
    BY <1>1, <1>2, <1>5, <2>2, <2>3, <2>4, <2>5
<1>9. CASE r.result = "SCROLL"
  <2> DEFINE more == Once(whl, det.dir)
  <2>0. det.dir \in Directions
    BY <1>1, <1>6, <1>9
  <2>1. did' = [arrow |-> one, wheel |-> more, absorbed |-> abs, turned |-> trn]
    BY <1>2, <1>3, <1>9
  <2>2. more \in Times /\ \A at \in Directions : more[at] = whl[at] + One(det.dir, at) /\ One(det.dir, at) \in Nat
    BY <1>3, <2>0, OnceMore, ZenonT(40) DEF One
  <2>3. \A at \in Directions : Held(det', at) = 0 /\ Held(det, at) = One(det.dir, at)
    BY <1>1, <1>2, <1>9 DEF Held, One
  <2> HIDE DEF more, one, arr, whl, abs, trn
  <2>4. did' \in Effects
    BY <1>3, <1>4, <2>1, <2>2 DEF Effects
  <2>5. \A at \in Directions : Balance(did', at) = one[at] + more[at] + abs[at] + trn[at] - trn[Against(at)]
    BY <2>1 DEF Balance
  <2> QED
    BY <1>1, <1>2, <1>4, <1>5, <2>2, <2>3, <2>4, <2>5
<1>10. CASE r.result = "ARROW"
  <2> DEFINE more == IF det.dir = dir THEN trn ELSE Once(trn, det.dir)
  <2>0. det.dir \in Directions
    BY <1>1, <1>6, <1>10
  <2>1. did' = [arrow |-> one, wheel |-> whl, absorbed |-> abs, turned |-> more]
    BY <1>2, <1>3, <1>10
  <2>2. /\ more \in Times
        /\ \A at \in Directions : more[at] = trn[at] + IF det.dir = dir THEN 0 ELSE One(det.dir, at)
    <3>1. CASE det.dir = dir
      <4>1. more = trn
        BY <3>1
      <4> HIDE DEF more
      <4>2. \A at \in Directions : trn[at] = trn[at] + 0
        BY <1>5
      <4> QED
        BY <1>3, <3>1, <4>1, <4>2
    <3>2. CASE det.dir # dir
      <4>1. more = Once(trn, det.dir)
        BY <3>2
      <4> HIDE DEF more, trn
      <4> QED
        BY <1>3, <2>0, <3>2, <4>1, OnceMore
    <3> QED
      BY <3>1, <3>2
  <2>3. \A at \in Directions : Held(det', at) = One(dir, at) /\ Held(det, at) = One(det.dir, at)
    BY <1>1, <1>2, <1>10 DEF Held, One
  <2> HIDE DEF more, one, arr, whl, abs, trn
  <2>4. did' \in Effects
    BY <1>3, <1>4, <2>1, <2>2 DEF Effects
  <2>5. \A at \in Directions : Balance(did', at) = one[at] + whl[at] + abs[at] + more[at] - more[Against(at)]
    BY <2>1 DEF Balance
  <2>6. CASE det.dir = dir
    BY <1>1, <1>2, <1>4, <1>5, <2>2, <2>3, <2>4, <2>5, <2>6, TwoDirections
  <2>7. CASE det.dir # dir
    <3>1. \A at \in Directions : more[at] = trn[at] + One(det.dir, at)
                                 /\ more[Against(at)] = trn[Against(at)] + One(det.dir, Against(at))
      BY <2>2, <2>7, TwoDirections
    <3>2. \A at \in Directions : One(det.dir, at) = 1 - One(dir, at) /\ One(det.dir, Against(at)) = One(dir, at)
      BY <2>0, <2>7, TwoDirections DEF One, Directions
    <3>3. \A at \in Directions : Balance(did', at) = Balance(did, at) + One(det.dir, at)
      BY <1>4, <1>5, <2>5, <3>1, <3>2
    <3> QED
      BY <1>1, <1>2, <1>5, <2>3, <2>4, <3>3
  <2> QED
    BY <2>6, <2>7
<1> QED
  BY <1>1, <1>7, <1>8, <1>9, <1>10

\* So does an action, recorded for its source and then processed.
LEMMA CountedFeed ==
  ASSUME Counted, NEW byte, NEW source \in Sources, Feed(byte, source)
  PROVE  Counted'
<1> DEFINE r == ParseByte(parser, byte)
           a == r.action
<1>1. /\ heard' = IF a.type = "UNKNOWN" THEN heard ELSE [heard EXCEPT ![source] = Append(@, a)]
      /\ ProcessAction(a)
  BY DEF Feed
<1> HIDE DEF r
<1>2. CASE a.type = "UNKNOWN"
  BY <1>1, <1>2 DEF ProcessAction, Counted
<1>3. CASE a.type # "UNKNOWN"
  <2>1. heard' = [heard EXCEPT ![source] = Append(@, a)]
    BY <1>1, <1>3
  <2>2. DOMAIN heard' = Sources /\ \A s \in Sources : IsSequence(heard'[s])
    BY <2>1, ArrowsAppend DEF Counted
  <2>3. \A dir \in Directions : ArrowsHeard(heard', dir) = ArrowsHeard(heard, dir) + One(a.type, dir)
    <3> SUFFICES ASSUME NEW dir \in Directions
                 PROVE  ArrowsHeard(heard', dir) = ArrowsHeard(heard, dir) + One(a.type, dir)
      OBVIOUS
    <3>1. /\ Cardinality(ArrowsAt(heard["tty"], dir)) \in Nat /\ Cardinality(ArrowsAt(heard["inject"], dir)) \in Nat
          /\ Cardinality(ArrowsAt(Append(heard[source], a), dir)) =
               Cardinality(ArrowsAt(heard[source], dir)) + One(a.type, dir)
      BY ArrowsAppend DEF Counted, Sources
    <3>2. One(a.type, dir) \in Nat
      BY DEF One
    <3> QED
      BY <2>1, <3>1, <3>2 DEF ArrowsHeard, Sources, Counted
  <2>4. /\ Detecting(det)' /\ did' \in Effects
        /\ \A at \in Directions : Balance(did', at) + Held(det', at) = Balance(did, at) + Held(det, at) + One(a.type, at)
    <3>1. CASE a.type \in Directions
      <4>1. ScrollDetection(a.type)
        BY <1>1, <3>1 DEF ProcessAction, Directions
      <4> QED
        BY <3>1, <4>1, CountedArrow DEF Counted
    <3>2. CASE a.type \notin Directions
      <4>1. Expire(Flush(det))
        BY <1>1, <1>3, <3>2 DEF ProcessAction, Directions
      <4>2. \A at \in Directions : /\ One(a.type, at) = 0 /\ Balance(did, at) \in Int
                                   /\ Held(det, at) \in Nat
        BY <3>2, TwoDirections DEF One, Held, Counted, Effects, Times, Balance
      <4> DEFINE q == Flush(det)
      <4>3. /\ det' = q.d
            /\ did' = IF q.result = "ARROW" THEN [did EXCEPT !.arrow = Once(@, det.dir)] ELSE did
        BY <4>1 DEF Expire
      <4>4. Detecting(det) /\ did \in Effects /\ q \in {CheckTimeout(det), Flush(det)}
        BY DEF Counted
      <4> HIDE DEF q
      <4>5. /\ Detecting(q.d) /\ did' \in Effects
            /\ \A at \in Directions : Balance(did', at) + Held(q.d, at) = Balance(did, at) + Held(det, at)
        BY <4>3, <4>4, CountedExpire
      <4> QED
        BY <4>2, <4>3, <4>5
    <3> QED
      BY <3>1, <3>2
  <2>5. \A dir \in Directions : ArrowsHeard(heard', dir) = Balance(did', dir) + Held(det', dir)
    BY <2>3, <2>4 DEF Counted
  <2> QED
    BY <2>2, <2>4, <2>5 DEF Counted
<1> QED
  BY <1>2, <1>3

\* Every step keeps the count of arrows.
LEMMA CountedStep ==
  ASSUME Counted, [Next]_vars
  PROVE  Counted'
<1>1. CASE UNCHANGED <<heard, det, did>>
  BY <1>1 DEF Counted
<1>2. CASE KeyInjection
  BY <1>2, CountedFeed DEF KeyInjection, Sources
<1>3. CASE LoopPass
  <2>1. CASE Feed(Head(tty), "tty")
    BY <2>1, CountedFeed DEF Sources
  <2>2. CASE Expire(CheckTimeout(det)) /\ UNCHANGED heard
    <3>1. /\ Detecting(det)' /\ did' \in Effects
          /\ \A dir \in Directions : Balance(did', dir) + Held(det', dir) = Balance(did, dir) + Held(det, dir)
      BY <2>2, CountedExpire DEF Counted, Expire
    <3> QED
      BY <2>2, <3>1 DEF Counted
  <2> QED
    BY <1>1, <1>3, <2>1, <2>2 DEF LoopPass
<1>4. CASE Millisecond
  <2>1. det' = [det EXCEPT !.age = IF det.state = "idle" THEN 0 ELSE IF @ > Threshold THEN @ ELSE @ + 1]
    BY <1>4 DEF Millisecond
  <2>2. Detecting(det)' /\ \A dir \in Directions : Held(det', dir) = Held(det, dir)
    BY <2>1 DEF Counted, Detecting, Detectors, Held
  <2> QED
    BY <1>4, <2>2 DEF Millisecond, Counted
<1>5. CASE Unblock \/ Press \/ AgentTurn \/ Network \/ \E c \in Clients : Ask(c) \/ Connect(c) \/ HangUp(c)
  BY <1>1, <1>5 DEF Unblock, Press, AgentTurn, Network, Ask, Connect, HangUp, input
<1>6. CASE UNCHANGED vars
  BY <1>1, <1>6 DEF vars
<1> QED
  BY <1>2, <1>3, <1>4, <1>5, <1>6 DEF Next

\* No arrow is lost or done twice, in either direction, whatever keys are pressed or
\* injected and in whatever order bursts, timeouts and other keys fall, but for the
\* held arrows that late ones of the other direction turn round.
THEOREM ArrowsDoneOnce == Spec => []EveryArrowOnce
<1>1. Init => Counted
  <2> SUFFICES ASSUME Init PROVE Counted
    OBVIOUS
  <2>1. /\ Detecting(det) /\ did \in Effects
        /\ \A dir \in Directions : Held(det, dir) = 0 /\ Balance(did, dir) = 0
    <3>1. Never \in Times /\ \A dir \in Directions : Never[dir] = 0
      BY DEF Never, Times
    <3> QED
      BY <3>1, TwoDirections DEF Init, Detecting, Detectors, Effects, Held, Balance
  <2>2. DOMAIN heard = Sources /\ \A s \in Sources : heard[s] = <<>>
    BY DEF Init, Sources
  <2>3. \A s \in Sources : IsSequence(heard[s]) /\ \A dir : ArrowsAt(heard[s], dir) = {}
    <3>1. <<>> \in Seq({}) /\ DOMAIN <<>> = {}
      OBVIOUS
    <3> QED
      BY <2>2, <3>1 DEF IsSequence, ArrowsAt
  <2>4. \A dir : Cardinality(ArrowsAt(heard["tty"], dir)) = 0 /\ Cardinality(ArrowsAt(heard["inject"], dir)) = 0
    BY <2>3, FS_EmptySet DEF Sources
  <2> QED
    BY <2>1, <2>2, <2>3, <2>4 DEF Counted, ArrowsHeard
<1>2. Counted => EveryArrowOnce
  <2> SUFFICES ASSUME Counted, NEW dir \in Directions
               PROVE  Heard("tty", dir) + Heard("inject", dir) + did.turned[Against(dir)] =
                        did.arrow[dir] + did.wheel[dir] + did.absorbed[dir] + did.turned[dir]
                          + (IF det.state = "waiting" /\ det.dir = dir THEN 1 ELSE 0)
    BY DEF EveryArrowOnce
  <2>1. \A s : Heard(s, dir) = Cardinality(ArrowsAt(heard[s], dir))
    BY DEF Heard, ArrowsAt
  <2>2. \A s \in Sources : Heard(s, dir) \in Nat
    BY <2>1, ArrowsAppend DEF Counted
  <2>3. /\ did.arrow[dir] \in Nat /\ did.wheel[dir] \in Nat /\ did.absorbed[dir] \in Nat
        /\ did.turned[dir] \in Nat /\ did.turned[Against(dir)] \in Nat
    BY TwoDirections DEF Counted, Effects, Times
  <2>4. Heard("tty", dir) + Heard("inject", dir) = Balance(did, dir) + Held(det, dir)
    BY <2>1 DEF Counted, ArrowsHeard
  <2> QED
    BY <2>2, <2>3, <2>4 DEF Balance, Held, Sources
<1> QED
  BY <1>1, <1>2, CountedStep, PTL DEF Spec

-----------------------------------------------------------------------------
(* The control socket.  R is the set of requests the clients may send. *)

Conns == {"new", "queued", "left", "open", "gone", "closed"}
Answers == {"ok", "idle", "timeout", "error", "other"}
Sockets(R) ==
  [client : Clients \cup {NULL}, pending : BOOLEAN, left : Int, conn : [Clients -> Conns],
   data : [Clients -> Seq(R)], reply : [Clients -> Seq(Answers)],
   inject : Seq(Nat), sent : Seq(Key), stuck : BOOLEAN]

\* The client being served has not been closed.
Sane(R, s) == s \in Sockets(R) /\ (s.client # NULL => s.conn[s.client] \in {"open", "gone"})

\* The keys of at most one request have gone in, with all their bytes.
Injects(R, s, t) ==
  \/ t.inject = s.inject /\ t.sent = s.sent
  \/ \E req \in R : t.inject = s.inject \o BytesOf(req.keys) /\ t.sent = s.sent \o req.keys

Told(s) == {c \in Clients : "ok" \in Range(s.reply[c])}
\* Who was told that his keys went in is served no more.
Promised(s) ==
  /\ IsFiniteSet(Told(s)) /\ Len(s.sent) = Cardinality(Told(s))
  /\ \A c \in Told(s) : s.conn[c] = "closed"

SingleKeys == {r \in Request : r.type = "keys" => Len(r.keys) = 1}

\* The bytes of keys are bytes.
LEMMA BytesType ==
  ASSUME NEW ks \in Seq(Key)
  PROVE  BytesOf(ks) \in Seq(Nat)
<1> DEFINE b == [i \in DOMAIN ks |-> ks[i].bytes]
<1>1. \A k \in Key : k.bytes \in Seq(Nat)
  BY DEF Key
<1>2. DOMAIN ks = 1 .. Len(ks) /\ Len(ks) \in Nat /\ \A i \in DOMAIN ks : ks[i] \in Key
  OBVIOUS
<1>3. b \in [1 .. Len(ks) -> Seq(Nat)]
  BY <1>1, <1>2
<1>4. b \in Seq(Seq(Nat))
  BY <1>2, <1>3, SeqDef
<1> QED
  BY <1>4, FlattenType DEF BytesOf

\* Adding an answer to one client's, and what it makes of the told ones.
LEMMA AnswerType ==
  ASSUME NEW r \in [Clients -> Seq(Answers)], NEW c \in Clients, NEW msg \in Answers
  PROVE  /\ [r EXCEPT ![c] = Append(@, msg)] \in [Clients -> Seq(Answers)]
         /\ \A d \in Clients \ {c} : [r EXCEPT ![c] = Append(@, msg)][d] = r[d]
         /\ Range([r EXCEPT ![c] = Append(@, msg)][c]) = Range(r[c]) \cup {msg}
<1> DEFINE q == [r EXCEPT ![c] = Append(@, msg)]
<1>1. r[c] \in Seq(Answers) /\ q[c] = Append(r[c], msg)
  OBVIOUS
<1>2. Append(r[c], msg) \in Seq(Answers)
  BY <1>1
<1>3. q \in [Clients -> Seq(Answers)]
  BY <1>2
<1>4. Range(Append(r[c], msg)) = Range(r[c]) \cup {msg}
  BY <1>1 DEF Range
<1> QED
  BY <1>1, <1>3, <1>4

\* Closing the connection of the client being served.
LEMMA Closes ==
  ASSUME NEW R \in SUBSET Request, NEW s, Sane(R, s)
  PROVE  /\ Sane(R, Close(s)) /\ Close(s).client = NULL
         /\ Close(s).inject = s.inject /\ Close(s).sent = s.sent /\ Close(s).stuck = s.stuck /\ Close(s).reply = s.reply
         /\ s.client # NULL => Close(s).conn[s.client] = "closed"
         /\ \A c \in Clients : Close(s).conn[c] \in {s.conn[c], "closed"}
         /\ \A c \in Clients : s.client # c => Close(s).conn[c] = s.conn[c]
<1>1. s \in Sockets(R)
  BY DEF Sane
<1> DEFINE u == IF s.client = NULL THEN s.conn ELSE [s.conn EXCEPT ![s.client] = "closed"]
           e == [s EXCEPT !.client = NULL]
<1>2. u \in [Clients -> Conns]
  BY <1>1 DEF Sockets, Conns
<1>3. e \in Sockets(R) /\ e.client = NULL /\ e.conn = s.conn /\ e.reply = s.reply
      /\ e.inject = s.inject /\ e.sent = s.sent /\ e.stuck = s.stuck
  BY <1>1 DEF Sockets
<1>4. Close(s) = [e EXCEPT !.conn = u]
  BY <1>1 DEF Close, Sockets
<1>5. \A c \in Clients : u[c] \in {s.conn[c], "closed"} /\ (s.client # c => u[c] = s.conn[c])
  BY <1>1 DEF Sockets
<1>6. s.client # NULL => u[s.client] = "closed"
  BY <1>1 DEF Sockets
<1> HIDE DEF e, u
<1>7. Close(s) \in Sockets(R) /\ Close(s).client = NULL /\ Close(s).conn = u /\ Close(s).reply = s.reply
      /\ Close(s).inject = s.inject /\ Close(s).sent = s.sent /\ Close(s).stuck = s.stuck
  BY <1>2, <1>3, <1>4 DEF Sockets
<1> QED
  BY <1>5, <1>6, <1>7 DEF Sane

\* Nothing went in, nobody was told that something did, and who was closed
\* stays closed.
Quiet(s, t) ==
  /\ t.inject = s.inject /\ t.sent = s.sent /\ t.stuck = s.stuck /\ Told(t) = Told(s)
  /\ \A c \in Clients : s.conn[c] = "closed" => t.conn[c] = "closed"

\* A step that neither answers ok nor types keeps the promise.
LEMMA QuietPromised ==
  ASSUME NEW s, NEW t, Quiet(s, t), Promised(s)
  PROVE  Promised(t)
  BY DEF Quiet, Promised, Told

\* Closing the client answers and types nothing.
LEMMA QuietCloses ==
  ASSUME NEW R \in SUBSET Request, NEW s, Sane(R, s)
  PROVE  Sane(R, Close(s)) /\ Quiet(s, Close(s)) /\ Close(s).client = NULL
  BY Closes DEF Quiet, Told

\* The waiter and its deadline are forgotten.
LEMMA QuietForgets ==
  ASSUME NEW R \in SUBSET Request, NEW s, Sane(R, s)
  PROVE  /\ Sane(R, [s EXCEPT !.pending = FALSE, !.left = 0])
         /\ Quiet(s, [s EXCEPT !.pending = FALSE, !.left = 0])
         /\ [s EXCEPT !.pending = FALSE, !.left = 0].client = s.client
<1> DEFINE e == [s EXCEPT !.pending = FALSE]
           t == [e EXCEPT !.left = 0]
<1>1. s \in Sockets(R)
  BY DEF Sane
<1>2. /\ e \in Sockets(R) /\ e.client = s.client /\ e.conn = s.conn /\ e.reply = s.reply
      /\ e.inject = s.inject /\ e.sent = s.sent /\ e.stuck = s.stuck
  BY <1>1 DEF Sockets
<1>3. [s EXCEPT !.pending = FALSE, !.left = 0] = t
  BY <1>1 DEF Sockets
<1> HIDE DEF e
<1>4. /\ t \in Sockets(R) /\ t.client = s.client /\ t.conn = s.conn /\ t.reply = s.reply
      /\ t.inject = s.inject /\ t.sent = s.sent /\ t.stuck = s.stuck
  <2>1. 0 \in Int
    OBVIOUS
  <2>2. t \in Sockets(R)
    BY <1>2, <2>1 DEF Sockets
  <2> QED
    BY <1>2, <2>2 DEF Sockets
<1> HIDE DEF t
<1> QED
  BY <1>3, <1>4 DEF Sane, Quiet, Told

\* An answer, to a client that is there, has gone, or was never there.
LEMMA Sends ==
  ASSUME NEW R \in SUBSET Request, NEW s, Sane(R, s), NEW msg \in Answers
  PROVE  LET t == ClientSend(s, msg) IN
         /\ Sane(R, t) /\ t.inject = s.inject /\ t.sent = s.sent /\ t.stuck = s.stuck /\ t.conn = s.conn
         /\ \/ t.client = NULL /\ t.reply = s.reply
            \/ /\ t.client = s.client /\ s.client \in Clients
               /\ t.reply \in [Clients -> Seq(Answers)]
               /\ \A d \in Clients \ {s.client} : t.reply[d] = s.reply[d]
               /\ Range(t.reply[s.client]) = Range(s.reply[s.client]) \cup {msg}
<1> DEFINE t == ClientSend(s, msg)
<1>1. s \in Sockets(R)
  BY DEF Sane
<1>2. CASE s.client = NULL
  BY <1>2 DEF ClientSend
<1>3. CASE s.client # NULL /\ Gone(s, s.client)
  <2> DEFINE e == [s EXCEPT !.client = NULL]
             f == [e EXCEPT !.pending = FALSE]
             g == [f EXCEPT !.left = 0]
  <2>1. t = g
    BY <1>1, <1>3 DEF ClientSend, Sockets
  <2>2. /\ e \in Sockets(R) /\ e.client = NULL /\ e.conn = s.conn /\ e.reply = s.reply
        /\ e.inject = s.inject /\ e.sent = s.sent /\ e.stuck = s.stuck
    BY <1>1 DEF Sockets
  <2> HIDE DEF e
  <2>3. /\ f \in Sockets(R) /\ f.client = NULL /\ f.conn = s.conn /\ f.reply = s.reply
        /\ f.inject = s.inject /\ f.sent = s.sent /\ f.stuck = s.stuck
    BY <2>2 DEF Sockets
  <2> HIDE DEF f
  <2>4. /\ g \in Sockets(R) /\ g.client = NULL /\ g.conn = s.conn /\ g.reply = s.reply
        /\ g.inject = s.inject /\ g.sent = s.sent /\ g.stuck = s.stuck
    <3>1. 0 \in Int
      OBVIOUS
    <3>2. g \in Sockets(R)
      BY <2>3, <3>1 DEF Sockets
    <3> QED
      BY <2>3, <3>2 DEF Sockets
  <2> HIDE DEF g
  <2> QED
    BY <2>1, <2>4 DEF Sane
<1>4. CASE s.client # NULL /\ ~Gone(s, s.client)
  <2> DEFINE q == [s.reply EXCEPT ![s.client] = Append(@, msg)]
  <2>1. s.client \in Clients /\ s.reply \in [Clients -> Seq(Answers)]
    BY <1>1, <1>4 DEF Sockets
  <2>2. /\ q \in [Clients -> Seq(Answers)]
        /\ \A d \in Clients \ {s.client} : q[d] = s.reply[d]
        /\ Range(q[s.client]) = Range(s.reply[s.client]) \cup {msg}
    BY <2>1, AnswerType, ZenonT(40)
  <2>3. t = [s EXCEPT !.reply = q]
    BY <1>1, <1>4 DEF ClientSend, Sockets
  <2> HIDE DEF q
  <2>4. /\ t \in Sockets(R) /\ t.client = s.client /\ t.conn = s.conn /\ t.reply = q
        /\ t.inject = s.inject /\ t.sent = s.sent /\ t.stuck = s.stuck
    BY <1>1, <2>2, <2>3 DEF Sockets
  <2> QED
    BY <2>1, <2>2, <2>4 DEF Sane
<1> QED
  BY <1>2, <1>3, <1>4

\* An answer other than ok promises nothing.
LEMMA QuietSends ==
  ASSUME NEW R \in SUBSET Request, NEW s, Sane(R, s), NEW msg \in Answers \ {"ok"}
  PROVE  Sane(R, ClientSend(s, msg)) /\ Quiet(s, ClientSend(s, msg))
<1> DEFINE t == ClientSend(s, msg)
<1>1. /\ Sane(R, t) /\ t.inject = s.inject /\ t.sent = s.sent /\ t.stuck = s.stuck /\ t.conn = s.conn
      /\ \/ t.client = NULL /\ t.reply = s.reply
         \/ /\ t.client = s.client /\ s.client \in Clients
            /\ t.reply \in [Clients -> Seq(Answers)]
            /\ \A d \in Clients \ {s.client} : t.reply[d] = s.reply[d]
            /\ Range(t.reply[s.client]) = Range(s.reply[s.client]) \cup {msg}
  BY Sends, ZenonT(40)
<1> HIDE DEF t
<1>2. \A c \in Clients : "ok" \in Range(t.reply[c]) <=> "ok" \in Range(s.reply[c])
  BY <1>1
<1>3. Told(t) = Told(s)
  BY <1>2 DEF Told
<1> QED
  BY <1>1, <1>3 DEF Quiet, t

\* Two quiet steps are one.
LEMMA QuietTwice ==
  ASSUME NEW s, NEW t, NEW u, Quiet(s, t), Quiet(t, u)
  PROVE  Quiet(s, u)
  BY DEF Quiet

\* No step at all is quiet.
LEMMA QuietOnce ==
  ASSUME NEW s
  PROVE  Quiet(s, s)
  BY DEF Quiet

\* The answer and the end of the connection.
LEMMA QuietAnswers ==
  ASSUME NEW R \in SUBSET Request, NEW s, Sane(R, s), NEW msg \in Answers \ {"ok"}
  PROVE  Sane(R, Close(ClientSend(s, msg))) /\ Quiet(s, Close(ClientSend(s, msg)))
<1> DEFINE t == ClientSend(s, msg)
<1>1. Sane(R, t) /\ Quiet(s, t)
  BY QuietSends
<1> HIDE DEF t
<1>2. Sane(R, Close(t)) /\ Quiet(t, Close(t))
  BY <1>1, QuietCloses
<1> QED
  BY <1>1, <1>2, QuietTwice DEF t

\* A pass of the wait_idle timer is quiet.
LEMMA QuietTick ==
  ASSUME NEW R \in SUBSET Request, NEW s, Sane(R, s)
  PROVE  Sane(R, Tick(s)) /\ Quiet(s, Tick(s))
<1>1. CASE ~s.pending \/ (busy /\ s.left > 0)
  BY <1>1, QuietOnce DEF Tick
<1>2. CASE ~(~s.pending \/ (busy /\ s.left > 0))
  <2> DEFINE msg == IF busy THEN "timeout" ELSE "idle"
             t == Close(ClientSend(s, msg))
  <2>1. msg \in Answers \ {"ok"}
    BY DEF Answers
  <2> HIDE DEF msg
  <2>2. Sane(R, t) /\ Quiet(s, t)
    BY <2>1, QuietAnswers
  <2>3. Tick(s) = [t EXCEPT !.pending = FALSE, !.left = 0]
    BY <1>2, Zenon DEF Tick, msg
  <2> HIDE DEF t
  <2>4. Sane(R, Tick(s)) /\ Quiet(t, Tick(s))
    BY <2>2, <2>3, QuietForgets
  <2> QED
    BY <2>2, <2>4, QuietTwice
<1> QED
  BY <1>1, <1>2

\* Accepting a client is quiet.
LEMMA QuietAccept ==
  ASSUME NEW R \in SUBSET Request, NEW s, Sane(R, s), NEW c \in Clients, s.conn[c] \in {"queued", "left"}
  PROVE  Sane(R, Accept(s, c)) /\ Quiet(s, Accept(s, c)) /\ Accept(s, c).client = c
<1> DEFINE k == Close(s)
           e == [k EXCEPT !.client = c]
           v == IF k.conn[c] = "left" THEN "gone" ELSE "open"
           u == [k.conn EXCEPT ![c] = v]
           t == [e EXCEPT !.conn = u]
<1>0. c # NULL
  BY InputAssumption
<1>1. Sane(R, k) /\ Quiet(s, k) /\ k \in Sockets(R)
  BY QuietCloses DEF Sane
<1>2. s.client # NULL => s.conn[s.client] \notin {"queued", "left"}
  BY DEF Sane
<1>3. s.client # c
  BY <1>0, <1>2
<1>4. k.conn[c] \in {"queued", "left"} /\ v \in {"open", "gone"}
  BY <1>3, Closes, ZenonT(40)
<1>5. Accept(s, c) = [k EXCEPT !.client = c, !.conn[c] = IF @ = "left" THEN "gone" ELSE "open"]
  BY Zenon DEF Accept
<1> HIDE DEF k
<1>6. Accept(s, c) = t
  BY <1>1, <1>4, <1>5 DEF Sockets
<1>7. /\ e \in Sockets(R) /\ e.client = c /\ e.conn = k.conn /\ e.reply = k.reply
      /\ e.inject = k.inject /\ e.sent = k.sent /\ e.stuck = k.stuck
  BY <1>1 DEF Sockets
<1>8. u \in [Clients -> Conns] /\ u[c] = v /\ \A d \in Clients \ {c} : u[d] = k.conn[d]
  BY <1>1, <1>4 DEF Sockets, Conns
<1> HIDE DEF e, u, v
<1>9. /\ t \in Sockets(R) /\ t.client = c /\ t.conn = u /\ t.reply = k.reply
      /\ t.inject = k.inject /\ t.sent = k.sent /\ t.stuck = k.stuck
  BY <1>7, <1>8 DEF Sockets
<1> HIDE DEF t
<1>10. Quiet(k, t)
  BY <1>4, <1>8, <1>9 DEF Quiet, Told
<1>11. Sane(R, t)
  BY <1>4, <1>8, <1>9 DEF Sane
<1> QED
  BY <1>1, <1>6, <1>9, <1>10, <1>11, QuietTwice

\* Keys go in, all of them, when and only when their sender could be told.
LEMMA KeysGoIn ==
  ASSUME NEW R \in SUBSET Request, NEW s, Sane(R, s), s.client # NULL, NEW req \in R
  PROVE  /\ Sane(R, SendKeys(s, req))
         /\ Injects(R, s, SendKeys(s, req))
         /\ Promised(s) /\ Len(req.keys) = 1 => Promised(SendKeys(s, req))
         /\ SendKeys(s, req).stuck = s.stuck
<1> DEFINE a == ClientSend(s, "ok")
           c == s.client
<1>1. c \in Clients
  BY DEF Sane, Sockets
<1>2. /\ Sane(R, a) /\ a.inject = s.inject /\ a.sent = s.sent /\ a.stuck = s.stuck /\ a.conn = s.conn
      /\ \/ a.client = NULL /\ a.reply = s.reply
         \/ /\ a.client = c
            /\ \A d \in Clients \ {c} : a.reply[d] = s.reply[d]
            /\ Range(a.reply[c]) = Range(s.reply[c]) \cup {"ok"}
  <2>1. "ok" \in Answers
    BY DEF Answers
  <2> QED
    BY <2>1, Sends, ZenonT(40)
<1>3. SendKeys(s, req) = IF a.client = NULL THEN a
                         ELSE Close([a EXCEPT !.inject = @ \o Unescape(req.text), !.sent = @ \o req.keys])
  BY Zenon DEF SendKeys
<1> HIDE DEF a
<1>4. CASE a.client = NULL
  <2>1. SendKeys(s, req) = a
    BY <1>3, <1>4
  <2>2. a.reply = s.reply
    BY <1>2, <1>4
  <2>3. Quiet(s, a)
    BY <1>2, <2>2 DEF Quiet, Told
  <2> QED
    BY <1>2, <2>1, <2>3, QuietPromised DEF Injects
<1>5. CASE a.client # NULL
  <2> DEFINE e == [a EXCEPT !.inject = @ \o Unescape(req.text)]
             f == [e EXCEPT !.sent = @ \o req.keys]
             t == Close(f)
  <2>0. a \in Sockets(R)
    BY <1>2 DEF Sane
  <2>1. req.keys \in Seq(Key) /\ Unescape(req.text) = BytesOf(req.keys) /\ BytesOf(req.keys) \in Seq(Nat)
    <3>1. req.keys \in Seq(Key)
      BY DEF Request
    <3> QED
      BY <3>1, BytesType DEF Request, BytesOf
  <2>2. SendKeys(s, req) = t
    BY <1>3, <1>5, <2>0 DEF Sockets
  <2>3. a.inject \o Unescape(req.text) \in Seq(Nat) /\ a.sent \o req.keys \in Seq(Key)
    BY <2>0, <2>1 DEF Sockets
  <2>4. /\ e \in Sockets(R) /\ e.client = a.client /\ e.conn = a.conn /\ e.reply = a.reply
        /\ e.inject = a.inject \o Unescape(req.text) /\ e.sent = a.sent /\ e.stuck = a.stuck
    BY <2>0, <2>3 DEF Sockets
  <2> HIDE DEF e
  <2>5. /\ f \in Sockets(R) /\ f.client = a.client /\ f.conn = a.conn /\ f.reply = a.reply
        /\ f.inject = a.inject \o Unescape(req.text) /\ f.sent = a.sent \o req.keys /\ f.stuck = a.stuck
    BY <2>3, <2>4 DEF Sockets
  <2> HIDE DEF f
  <2>6. Sane(R, f)
    BY <1>2, <2>5 DEF Sane
  <2>7. /\ Sane(R, t) /\ t.inject = f.inject /\ t.sent = f.sent /\ t.stuck = f.stuck /\ t.reply = f.reply
        /\ t.conn[c] = "closed" /\ \A d \in Clients : t.conn[d] \in {f.conn[d], "closed"}
    <3>1. f.client = c /\ f.client # NULL
      BY <1>2, <1>5, <2>5
    <3>2. /\ Sane(R, t) /\ t.inject = f.inject /\ t.sent = f.sent /\ t.reply = f.reply
          /\ \A d \in Clients : t.conn[d] \in {f.conn[d], "closed"}
      BY <2>6, Closes
    <3>3. t.stuck = f.stuck
      BY <2>6, Closes
    <3>4. t.conn[c] = "closed"
      BY <2>6, <3>1, Closes
    <3> QED
      BY <3>2, <3>3, <3>4
  <2> HIDE DEF t
  <2>8. Injects(R, s, t)
    BY <1>2, <2>1, <2>5, <2>7 DEF Injects
  <2>9. ASSUME Promised(s), Len(req.keys) = 1 PROVE Promised(t)
    <3>1. c \notin Told(s)
      BY <1>1, <2>9 DEF Promised, Sane
    <3>2. Told(t) = Told(s) \cup {c}
      BY <1>1, <1>2, <1>5, <2>5, <2>7 DEF Told
    <3>3. IsFiniteSet(Told(t)) /\ Cardinality(Told(t)) = Cardinality(Told(s)) + 1
      BY <2>9, <3>1, <3>2, FS_AddElement DEF Promised
    <3>4. Len(t.sent) = Len(s.sent) + 1
      <4>1. s.sent \in Seq(Key) /\ t.sent = s.sent \o req.keys
        BY <1>2, <2>5, <2>7 DEF Sane, Sockets
      <4>2. Len(s.sent \o req.keys) = Len(s.sent) + Len(req.keys)
        BY <2>1, <4>1
      <4> QED
        BY <2>9, <4>1, <4>2
    <3>5. \A d \in Told(t) : t.conn[d] = "closed"
      BY <1>2, <2>5, <2>7, <2>9, <3>2 DEF Promised, Told
    <3> QED
      BY <2>9, <3>3, <3>4, <3>5 DEF Promised
  <2> QED
    BY <1>2, <2>2, <2>5, <2>7, <2>8, <2>9
<1> QED
  BY <1>4, <1>5

\* Starting to wait for idle is quiet.
LEMMA QuietWait ==
  ASSUME NEW R \in SUBSET Request, NEW s, Sane(R, s), NEW req \in R
  PROVE  Sane(R, WaitIdle(s, req)) /\ Quiet(s, WaitIdle(s, req))
<1>0. req.timeout \in Int /\ "error" \in Answers \ {"ok"} /\ "idle" \in Answers \ {"ok"}
  BY DEF Request, Answers
<1>1. CASE s.pending \/ req.timeout <= 0
  <2>1. WaitIdle(s, req) = Close(ClientSend(s, "error"))
    BY <1>0, <1>1 DEF WaitIdle
  <2> QED
    BY <1>0, <2>1, QuietAnswers
<1>2. CASE ~s.pending /\ req.timeout > 0 /\ ~busy
  <2>1. WaitIdle(s, req) = Close(ClientSend(s, "idle"))
    BY <1>0, <1>2 DEF WaitIdle
  <2> QED
    BY <1>0, <2>1, QuietAnswers
<1>3. CASE ~s.pending /\ req.timeout > 0 /\ busy
  <2> DEFINE e == [s EXCEPT !.pending = TRUE]
             t == [e EXCEPT !.left = req.timeout]
  <2>1. WaitIdle(s, req) = [s EXCEPT !.pending = TRUE, !.left = req.timeout]
    BY <1>0, <1>3 DEF WaitIdle
  <2>2. s \in Sockets(R)
    BY DEF Sane
  <2>3. /\ e \in Sockets(R) /\ e.client = s.client /\ e.conn = s.conn /\ e.reply = s.reply
        /\ e.inject = s.inject /\ e.sent = s.sent /\ e.stuck = s.stuck
    BY <2>2 DEF Sockets
  <2>4. WaitIdle(s, req) = t
    BY <2>1, <2>2 DEF Sockets
  <2> HIDE DEF e
  <2>5. t \in Sockets(R)
    BY <1>0, <2>3 DEF Sockets
  <2>6. t.client = s.client /\ t.conn = s.conn /\ t.reply = s.reply /\ t.inject = s.inject /\ t.sent = s.sent /\ t.stuck = s.stuck
    BY <2>3, <2>5 DEF Sockets
  <2> HIDE DEF t
  <2> QED
    BY <2>4, <2>5, <2>6 DEF Sane, Quiet, Told
<1> QED
  BY <1>0, <1>1, <1>2, <1>3

\* Serving a client: whatever it sent, if anything.
LEMMA Handles ==
  ASSUME NEW R \in SUBSET Request, NEW s, Sane(R, s), s.client # NULL
  PROVE  /\ Sane(R, HandleClient(s))
         /\ Injects(R, s, HandleClient(s))
         /\ Promised(s) /\ R \subseteq SingleKeys => Promised(HandleClient(s))
         /\ HandleClient(s).client = NULL => HandleClient(s).stuck = s.stuck
<1> DEFINE c == s.client
           req == Head(s.data[c])
           read == [s EXCEPT !.data[c] = <<>>]
           t == HandleClient(s)
<1>0. s \in Sockets(R) /\ c \in Clients /\ s.data[c] \in Seq(R)
  BY DEF Sane, Sockets
<1>1. CASE s.data[c] = <<>> /\ ~Gone(s, c)
  <2>1. t = [s EXCEPT !.stuck = TRUE]
    BY <1>1 DEF HandleClient
  <2>2. /\ t \in Sockets(R) /\ t.client = s.client /\ t.conn = s.conn /\ t.reply = s.reply
        /\ t.inject = s.inject /\ t.sent = s.sent
    BY <1>0, <2>1 DEF Sockets
  <2> HIDE DEF t
  <2>3. Sane(R, t) /\ (Promised(s) => Promised(t))
    BY <2>2 DEF Sane, Promised, Told
  <2> QED
    BY <2>2, <2>3 DEF Injects, t
<1>2. CASE s.data[c] = <<>> /\ Gone(s, c)
  <2>1. t = [Close(s) EXCEPT !.pending = FALSE, !.left = 0]
    BY <1>2 DEF HandleClient
  <2>2. Sane(R, Close(s)) /\ Quiet(s, Close(s))
    BY QuietCloses
  <2>3. Sane(R, t) /\ Quiet(Close(s), t)
    BY <2>1, <2>2, QuietForgets
  <2> QED
    BY <2>2, <2>3, QuietTwice, QuietPromised DEF Injects, Quiet
<1>3. CASE s.data[c] # <<>>
  <2> DEFINE q == [s.data EXCEPT ![c] = <<>>]
  <2>1. req \in R
    BY <1>0, <1>3
  <2>2. q \in [Clients -> Seq(R)]
    BY <1>0 DEF Sockets
  <2>3. read = [s EXCEPT !.data = q]
    BY <1>0 DEF Sockets
  <2> HIDE DEF q
  <2>4. /\ read \in Sockets(R) /\ read.client = s.client /\ read.conn = s.conn /\ read.reply = s.reply
        /\ read.inject = s.inject /\ read.sent = s.sent /\ read.stuck = s.stuck
    BY <1>0, <2>2, <2>3 DEF Sockets
  <2>5. t = CASE req.type = "keys" -> SendKeys(read, req)
              [] req.type = "wait" -> WaitIdle(read, req)
              [] req.type = "other" -> Close(ClientSend(read, "other"))
    BY <1>3 DEF HandleClient
  <2> HIDE DEF read, t, req
  <2>6. Sane(R, read) /\ Quiet(s, read) /\ read.client # NULL
    BY <2>4 DEF Sane, Quiet, Told
  <2>7. CASE req.type = "keys"
    <3>1. t = SendKeys(read, req)
      BY <2>5, <2>7
    <3>2. /\ Sane(R, t) /\ Injects(R, read, t) /\ t.stuck = read.stuck
          /\ Promised(read) /\ Len(req.keys) = 1 => Promised(t)
      BY <2>1, <2>6, <3>1, KeysGoIn
    <3>3. Injects(R, s, t)
      BY <2>4, <3>2 DEF Injects
    <3>4. Promised(s) /\ R \subseteq SingleKeys => Promised(t)
      <4>1. Promised(s) => Promised(read)
        BY <2>6, QuietPromised
      <4>2. R \subseteq SingleKeys => Len(req.keys) = 1
        BY <2>1, <2>7 DEF SingleKeys
      <4> QED
        BY <3>2, <4>1, <4>2
    <3> QED
      BY <2>4, <3>2, <3>3, <3>4 DEF t
  <2>8. CASE req.type # "keys"
    <3>1. Sane(R, t) /\ Quiet(read, t)
      <4>1. CASE req.type = "wait"
        <5>1. t = WaitIdle(read, req)
          BY <2>5, <4>1
        <5> QED
          BY <2>1, <2>6, <5>1, QuietWait
      <4>2. CASE req.type # "wait"
        <5>1. req.type = "other"
          BY <2>1, <2>8, <4>2 DEF Request
        <5>2. t = Close(ClientSend(read, "other"))
          BY <2>5, <5>1
        <5>3. "other" \in Answers \ {"ok"}
          BY DEF Answers
        <5> QED
          BY <2>6, <5>2, <5>3, QuietAnswers
      <4> QED
        BY <4>1, <4>2
    <3>2. Quiet(s, t)
      BY <2>6, <3>1, QuietTwice
    <3> QED
      BY <3>1, <3>2, QuietPromised DEF Injects, Quiet, t
  <2> QED
    BY <2>7, <2>8
<1> QED
  BY <1>1, <1>2, <1>3

\* What is known of the socket and of the requests still to come.
Serves(R) ==
  /\ Sane(R, Socket) /\ script \in [Clients -> Seq(R)]
  /\ stuck => client # NULL

\* What a step of the socket leaves, in the variables.
LEMMA Applied ==
  ASSUME NEW R \in SUBSET Request, NEW s, Sane(R, s), s.client = NULL => ~s.stuck, Apply(s)
  PROVE  /\ Sane(R, Socket)' /\ (stuck => client # NULL)'
         /\ Socket'.inject = s.inject /\ Socket'.sent = s.sent
         /\ Promised(s) => Promised(Socket)'
<1>1. s \in Sockets(R)
  BY DEF Sane
<1>2. /\ client' = s.client /\ pending' = s.pending /\ left' = s.left
      /\ conn' = s.conn /\ data' = s.data /\ reply' = s.reply
      /\ inject' = s.inject /\ sent' = s.sent /\ stuck' = s.stuck
  BY DEF Apply
<1>3. /\ Socket'.client = s.client /\ Socket'.conn = s.conn /\ Socket'.reply = s.reply
      /\ Socket'.inject = s.inject /\ Socket'.sent = s.sent
  BY <1>2 DEF Socket
<1>4. Socket' \in Sockets(R)
  BY <1>1, <1>2 DEF Socket, Sockets
<1>5. Sane(R, Socket)'
  BY <1>3, <1>4 DEF Sane
<1>6. Promised(s) => Promised(Socket')
  <2>1. Told(Socket') = Told(s)
    BY <1>3 DEF Told
  <2> QED
    BY <1>3, <2>1 DEF Promised
<1> QED
  BY <1>2, <1>3, <1>5, <1>6

\* A pass of the socket's part of the loop.
LEMMA Events ==
  ASSUME NEW R \in SUBSET Request, Serves(R), ControlSocketEvents
  PROVE  /\ Sane(R, Socket)' /\ (stuck => client # NULL)'
         /\ Injects(R, Socket, Socket')
         /\ Promised(Socket) /\ R \subseteq SingleKeys => Promised(Socket)'
<1>1. PICK c \in (IF ListenReady THEN Queue ELSE {NULL}), sameFd \in BOOLEAN :
        LET ticked == Tick(Socket)
            accepted == IF c = NULL THEN ticked ELSE Accept(ticked, c)
            ready == ClientReady /\ accepted.client # NULL /\ (c = NULL \/ sameFd) IN
        Apply(IF ready THEN HandleClient(accepted) ELSE accepted)
  BY Zenon DEF ControlSocketEvents
<1> DEFINE ticked == Tick(Socket)
           accepted == IF c = NULL THEN ticked ELSE Accept(ticked, c)
           ready == ClientReady /\ accepted.client # NULL /\ (c = NULL \/ sameFd)
           s == IF ready THEN HandleClient(accepted) ELSE accepted
<1>2. Apply(s)
  BY <1>1
<1>3. Sane(R, Socket) /\ Socket.stuck = FALSE
  BY DEF Serves, Socket
<1>4. Sane(R, ticked) /\ Quiet(Socket, ticked)
  BY <1>3, QuietTick
<1>5. Sane(R, accepted) /\ Quiet(Socket, accepted)
  <2>1. CASE c = NULL
    BY <1>4, <2>1
  <2>2. CASE c # NULL
    <3>1. ListenReady /\ c \in Queue
      BY <2>2
    <3>2. c \in Clients /\ conn[c] \in {"queued", "left"} /\ ~pending
      BY <3>1 DEF ListenReady, Queue
    <3>3. ticked = Socket
      BY <3>2 DEF Tick, Socket
    <3>4. Socket.conn[c] \in {"queued", "left"}
      BY <3>2 DEF Socket
    <3>5. Sane(R, Accept(Socket, c)) /\ Quiet(Socket, Accept(Socket, c))
      BY <1>3, <3>2, <3>4, QuietAccept
    <3> QED
      BY <2>2, <3>3, <3>5
  <2> QED
    BY <2>1, <2>2
<1> HIDE DEF accepted
<1>6. /\ Sane(R, s) /\ (s.client = NULL => s.stuck = accepted.stuck)
      /\ Injects(R, accepted, s)
      /\ Promised(accepted) /\ R \subseteq SingleKeys => Promised(s)
  <2>1. CASE ready
    <3>1. accepted.client # NULL /\ s = HandleClient(accepted)
      BY <2>1
    <3> HIDE DEF s
    <3> QED
      BY <1>5, <3>1, Handles
  <2>2. CASE ~ready
    <3>1. s = accepted
      BY <2>2
    <3> HIDE DEF s
    <3> QED
      BY <1>5, <3>1 DEF Injects
  <2> QED
    BY <2>1, <2>2
<1> HIDE DEF s
<1>7. accepted.stuck = FALSE
  BY <1>3, <1>5 DEF Quiet
<1>8. /\ Sane(R, Socket)' /\ (stuck => client # NULL)'
      /\ Socket'.inject = s.inject /\ Socket'.sent = s.sent
      /\ Promised(s) => Promised(Socket)'
  BY <1>2, <1>6, <1>7, Applied
<1>9. Injects(R, Socket, Socket')
  BY <1>5, <1>6, <1>8 DEF Injects, Quiet
<1> QED
  BY <1>5, <1>6, <1>8, <1>9, QuietPromised

\* A blocked read that goes on.
LEMMA Unblocks ==
  ASSUME NEW R \in SUBSET Request, Serves(R), Unblock
  PROVE  /\ Sane(R, Socket)' /\ (stuck => client # NULL)'
         /\ Injects(R, Socket, Socket')
         /\ Promised(Socket) /\ R \subseteq SingleKeys => Promised(Socket)'
<1> DEFINE s == HandleClient(Socket)
<1>1. stuck /\ Apply(s)
  BY DEF Unblock
<1>2. Sane(R, Socket) /\ Socket.stuck = FALSE /\ Socket.client # NULL
  BY <1>1 DEF Serves, Socket
<1>3. /\ Sane(R, s) /\ (s.client = NULL => s.stuck = Socket.stuck)
      /\ Injects(R, Socket, s)
      /\ Promised(Socket) /\ R \subseteq SingleKeys => Promised(s)
  BY <1>2, Handles
<1> HIDE DEF s
<1>4. /\ Sane(R, Socket)' /\ (stuck => client # NULL)'
      /\ Socket'.inject = s.inject /\ Socket'.sent = s.sent
      /\ Promised(s) => Promised(Socket)'
  BY <1>1, <1>2, <1>3, Applied
<1>5. Injects(R, Socket, Socket')
  BY <1>3, <1>4 DEF Injects
<1> QED
  BY <1>3, <1>4, <1>5

\* What the clients do leaves the promises as they are: only the program closes.
LEMMA ClientsAct ==
  ASSUME NEW R \in SUBSET Request, Serves(R), NEW c \in Clients, Ask(c) \/ Connect(c) \/ HangUp(c)
  PROVE  Serves(R)' /\ (Promised(Socket) => Promised(Socket)')
<1>0. /\ Socket \in Sockets(R) /\ client \in Clients \cup {NULL} /\ conn \in [Clients -> Conns]
      /\ data \in [Clients -> Seq(R)] /\ script \in [Clients -> Seq(R)]
      /\ client # NULL => conn[client] \in {"open", "gone"}
  BY DEF Serves, Sane, Sockets, Socket
<1>1. /\ UNCHANGED <<client, pending, left, reply, inject, sent, stuck>>
      /\ conn[c] # "closed" /\ conn[c] # "gone"
      /\ conn' \in [Clients -> Conns] /\ \A d \in Clients \ {c} : conn'[d] = conn[d]
      /\ conn[c] = "open" => conn'[c] \in {"open", "gone"}
  BY <1>0 DEF Ask, Connect, HangUp, input, Conns
<1>2. data' \in [Clients -> Seq(R)] /\ script' \in [Clients -> Seq(R)]
  <2>1. CASE Ask(c)
    <3>1. script[c] \in Seq(R) /\ script[c] # <<>> /\ data[c] \in Seq(R)
      BY <1>0, <2>1 DEF Ask
    <3>2. Head(script[c]) \in R /\ Tail(script[c]) \in Seq(R)
      BY <3>1
    <3>3. Append(data[c], Head(script[c])) \in Seq(R)
      BY <3>1, <3>2
    <3> QED
      BY <1>0, <2>1, <3>2, <3>3 DEF Ask
  <2>2. CASE Connect(c) \/ HangUp(c)
    BY <1>0, <2>2 DEF Connect, HangUp
  <2> QED
    BY <2>1, <2>2
<1>3. Socket' \in Sockets(R)
  BY <1>0, <1>1, <1>2 DEF Socket, Sockets
<1>4. client' # NULL => conn'[client'] \in {"open", "gone"}
  BY <1>0, <1>1
<1>5. Sane(R, Socket')
  BY <1>3, <1>4 DEF Sane, Socket
<1>6. Serves(R)'
  BY <1>1, <1>2, <1>5 DEF Serves
<1>7. ASSUME Promised(Socket) PROVE Promised(Socket)'
  <2>1. Told(Socket') = Told(Socket) /\ Socket'.sent = Socket.sent
    BY <1>1 DEF Told, Socket
  <2>2. \A d \in Told(Socket) : d \in Clients /\ conn[d] = "closed"
    BY <1>7 DEF Promised, Socket, Told
  <2>3. \A d \in Told(Socket) : conn'[d] = "closed"
    BY <1>1, <2>2
  <2>4. \A d \in Told(Socket') : Socket'.conn[d] = "closed"
    BY <2>1, <2>3 DEF Socket
  <2> QED
    BY <1>7, <2>1, <2>4 DEF Promised
<1> QED
  BY <1>6, <1>7

\* Every step keeps the socket sane and what it promised.
LEMMA ServesStep ==
  ASSUME NEW R \in SUBSET Request, Serves(R), [Next]_vars
  PROVE  Serves(R)' /\ (Promised(Socket) /\ R \subseteq SingleKeys => Promised(Socket)')
<1>1. CASE UNCHANGED <<client, pending, left, conn, data, reply, inject, sent, stuck, script>>
  <2>1. Socket' = Socket
    BY <1>1 DEF Socket
  <2> QED
    BY <1>1, <2>1 DEF Serves
<1>2. CASE KeyInjection
  <2>1. /\ inject # <<>> /\ inject' = Tail(inject)
        /\ UNCHANGED <<client, pending, left, conn, data, reply, sent, stuck, script>>
    BY <1>2 DEF KeyInjection
  <2>2. /\ Socket'.client = Socket.client /\ Socket'.conn = Socket.conn /\ Socket'.reply = Socket.reply
        /\ Socket'.sent = Socket.sent
    BY <2>1 DEF Socket
  <2>3. Socket' \in Sockets(R)
    <3>1. Socket \in Sockets(R)
      BY DEF Serves, Sane
    <3>2. inject \in Seq(Nat)
      BY <3>1 DEF Socket, Sockets
    <3>3. Tail(inject) \in Seq(Nat)
      BY <2>1, <3>2
    <3> QED
      BY <2>1, <3>1, <3>3 DEF Socket, Sockets
  <2>4. Sane(R, Socket')
    BY <2>2, <2>3 DEF Sane, Serves
  <2>5. Promised(Socket) => Promised(Socket')
    <3>1. Told(Socket') = Told(Socket)
      BY <2>2 DEF Told
    <3> QED
      BY <2>2, <3>1 DEF Promised
  <2> QED
    BY <2>1, <2>4, <2>5 DEF Serves
<1>3. CASE LoopPass
  <2>1. ControlSocketEvents /\ UNCHANGED script
    BY <1>3 DEF LoopPass
  <2> QED
    BY <2>1, Events DEF Serves
<1>4. CASE Unblock
  <2>1. UNCHANGED script
    BY <1>4 DEF Unblock
  <2> QED
    BY <1>4, <2>1, Unblocks DEF Serves
<1>5. CASE Millisecond
  <2>1. UNCHANGED <<client, pending, conn, data, reply, inject, sent, stuck, script>>
    BY <1>5 DEF Millisecond, peers
  <2>2. Socket \in Sockets(R) /\ left \in Int /\ left' \in Int
    BY <1>5 DEF Serves, Sane, Millisecond, Socket, Sockets
  <2>3. Socket' \in Sockets(R)
    BY <2>1, <2>2 DEF Socket, Sockets
  <2>4. /\ Socket'.client = Socket.client /\ Socket'.conn = Socket.conn /\ Socket'.reply = Socket.reply
        /\ Socket'.sent = Socket.sent
    BY <2>1 DEF Socket
  <2>5. Sane(R, Socket')
    BY <2>3, <2>4 DEF Sane, Serves
  <2>6. Promised(Socket) => Promised(Socket')
    <3>1. Told(Socket') = Told(Socket)
      BY <2>4 DEF Told
    <3> QED
      BY <2>4, <3>1 DEF Promised
  <2> QED
    BY <2>1, <2>5, <2>6 DEF Serves
<1>6. CASE Press \/ AgentTurn \/ Network \/ UNCHANGED vars
  BY <1>1, <1>6 DEF Press, AgentTurn, Network, vars, input, peers
<1>7. CASE \E c \in Clients : Ask(c) \/ Connect(c) \/ HangUp(c)
  BY <1>7, ClientsAct
<1> QED
  BY <1>2, <1>3, <1>4, <1>5, <1>6, <1>7 DEF Next

\* The socket starts sane, with nothing promised.
LEMMA ServesInit ==
  ASSUME NEW R \in SUBSET Request, Scripts \subseteq [Clients -> Seq(R)], Init
  PROVE  Serves(R) /\ Promised(Socket)
<1>1. /\ client = NULL /\ pending = FALSE /\ left = 0 /\ inject = <<>> /\ sent = <<>> /\ stuck = FALSE
      /\ conn = [c \in Clients |-> "new"] /\ script \in [Clients -> Seq(R)]
      /\ data = [c \in Clients |-> <<>>] /\ reply = [c \in Clients |-> <<>>]
  BY DEF Init
<1>2. /\ conn \in [Clients -> Conns] /\ data \in [Clients -> Seq(R)] /\ reply \in [Clients -> Seq(Answers)]
      /\ left \in Int /\ inject \in Seq(Nat) /\ sent \in Seq(Key)
  BY <1>1 DEF Conns
<1>3. Socket \in Sockets(R)
  BY <1>1, <1>2 DEF Socket, Sockets
<1>4. Serves(R)
  BY <1>1, <1>3 DEF Serves, Sane, Socket
<1>5. Told(Socket) = {}
  BY <1>1 DEF Told, Socket, Range
<1>6. Len(Socket.sent) = 0
  BY <1>1 DEF Socket
<1> QED
  BY <1>4, <1>5, <1>6, FS_EmptySet DEF Promised

\* Keys injected and answers "ok" stay in step, whatever the clients send, in
\* whatever order they connect, wait, hang up and are replaced.
THEOREM PromisesKept ==
  ASSUME Scripts \subseteq [Clients -> Seq(SingleKeys)]
  PROVE  Spec => []KeysAsPromised
<1> DEFINE I == Serves(SingleKeys) /\ Promised(Socket)
<1>0. SingleKeys \in SUBSET Request /\ SingleKeys \subseteq SingleKeys
  BY DEF SingleKeys
<1>1. Init => I
  BY <1>0, ServesInit
<1>2. I /\ [Next]_vars => I'
  BY <1>0, ServesStep
<1>3. I => KeysAsPromised
  BY DEF Promised, Told, Socket, KeysAsPromised
<1> QED
  BY <1>1, <1>2, <1>3, PTL DEF Spec

-----------------------------------------------------------------------------
(* Keys and their meanings *)

InSequence(p) == p.inEscape \/ p.inUtf8

\* The parser on its way through the bytes of a key: from the ground, in a
\* sequence until the last byte, and then back, with the key's action.
Run(k, run) ==
  /\ run[0] = Ground /\ run[Len(k.bytes)] = Ground
  /\ \A i \in 1 .. Len(k.bytes) - 1 : InSequence(run[i])
  /\ \A i \in 0 .. Len(k.bytes) - 1 :
       ParseByte(run[i], k.bytes[i + 1]) = Gives(run[i + 1], IF i + 1 = Len(k.bytes) THEN k.act ELSE UNKNOWN)

\* The keys the parser knows: each, pressed alone, is heard as what it means.
KnownKeys == {k \in Key : k.act.type # "UNKNOWN" /\ k.bytes # <<>> /\ \E run : Run(k, run)}
KnownRequests == {r \in Request : r.keys \in Seq(KnownKeys)}

\* The bytes b end with what is left of the keys ks; cut says where in b each
\* key ends, and is not positive for the ones before b.
Spells(ks, b, cut) ==
  /\ cut \in [0 .. Len(ks) -> Int] /\ cut[Len(ks)] = Len(b)
  /\ \A i \in 1 .. Len(ks) : cut[i] = cut[i - 1] + Len(ks[i].bytes)
  /\ \A i, j \in 0 .. Len(ks) : i < j => cut[i] < cut[j]
  /\ \A i \in 1 .. Len(ks) : \A m \in 1 .. Len(ks[i].bytes) :
       cut[i - 1] + m > 0 => b[cut[i - 1] + m] = ks[i].bytes[m]

\* A key that is known has bytes.
LEMMA KnownKeyType ==
  ASSUME NEW k \in KnownKeys
  PROVE  k \in Key /\ k.bytes \in Seq(Nat) /\ Len(k.bytes) \in Nat /\ Len(k.bytes) > 0
<1>1. k.bytes \in Seq(Nat) /\ k.bytes # <<>>
  BY DEF KnownKeys, Key
<1> QED
  BY <1>1 DEF KnownKeys

\* No keys, no bytes; one key, its bytes.
LEMMA SpellsNone ==
  Spells(<<>>, <<>>, [i \in 0 .. 0 |-> 0])
  BY DEF Spells

\* One key is spelled by its own bytes.
LEMMA SpellsOne ==
  ASSUME NEW k \in KnownKeys
  PROVE  Spells(<<k>>, k.bytes, [i \in 0 .. 1 |-> IF i = 0 THEN 0 ELSE Len(k.bytes)])
<1> DEFINE cut == [i \in 0 .. 1 |-> IF i = 0 THEN 0 ELSE Len(k.bytes)]
<1>1. Len(k.bytes) \in Nat /\ Len(k.bytes) > 0
  BY KnownKeyType
<1>2. Len(<<k>>) = 1 /\ <<k>>[1] = k /\ cut[0] = 0 /\ cut[1] = Len(k.bytes) /\ cut \in [0 .. 1 -> Int]
  BY <1>1
<1> HIDE DEF cut
<1>3. \A i \in 1 .. 1 : cut[i] = cut[i - 1] + Len(<<k>>[i].bytes)
  BY <1>1, <1>2
<1>4. \A i, j \in 0 .. 1 : i < j => cut[i] < cut[j]
  BY <1>1, <1>2
<1>5. \A i \in 1 .. 1 : \A m \in 1 .. Len(<<k>>[i].bytes) :
        cut[i - 1] + m > 0 => k.bytes[cut[i - 1] + m] = <<k>>[i].bytes[m]
  BY <1>1, <1>2
<1> QED
  BY <1>2, <1>3, <1>4, <1>5 DEF Spells, cut

\* The keys ks end in b, the first n of them where cut says.
Prolongs(ks, b, cut, n) == \E d : Spells(ks, b, d) /\ \A i \in 0 .. n : d[i] = cut[i]

\* Where a byte of a key is found.
LEMMA SpellsAt ==
  ASSUME NEW ks \in Seq(KnownKeys), NEW b \in Seq(Nat), NEW cut, Spells(ks, b, cut),
         NEW i \in 1 .. Len(ks), NEW m \in 1 .. Len(ks[i].bytes)
  PROVE  /\ cut[i - 1] \in Int /\ cut[i - 1] + m <= Len(b) /\ (cut[0] = 0 => cut[i - 1] >= 0)
         /\ cut[i - 1] + m > 0 => b[cut[i - 1] + m] = ks[i].bytes[m]
<1>0. Len(ks) \in Nat /\ Len(b) \in Nat /\ Len(ks[i].bytes) \in Nat
  BY KnownKeyType
<1>1. i \in 0 .. Len(ks) /\ i - 1 \in 0 .. Len(ks) /\ 0 \in 0 .. Len(ks) /\ Len(ks) \in 0 .. Len(ks)
  BY <1>0
<1>2. cut[i - 1] \in Int /\ cut[i] \in Int /\ cut[0] \in Int
  BY <1>1 DEF Spells
<1>3. \A j, l \in 0 .. Len(ks) : j < l => cut[j] < cut[l]
  BY DEF Spells
<1>4. cut[i] = cut[i - 1] + Len(ks[i].bytes) /\ cut[Len(ks)] = Len(b)
  BY DEF Spells
<1>5. cut[i] <= Len(b)
  <2>1. CASE i = Len(ks)
    BY <1>0, <1>4, <2>1
  <2>2. CASE i < Len(ks)
    <3>1. cut[i] < cut[Len(ks)]
      BY <1>1, <1>3, <2>2
    <3> QED
      BY <1>0, <1>2, <1>4, <3>1
  <2> QED
    BY <1>0, <2>1, <2>2
<1>6. cut[0] = 0 => cut[i - 1] >= 0
  <2>1. CASE i = 1
    BY <2>1
  <2>2. CASE i > 1
    <3>1. 0 < i - 1
      BY <2>2
    <3>2. cut[0] < cut[i - 1]
      BY <1>1, <1>3, <3>1
    <3> QED
      BY <1>2, <3>2
  <2> QED
    BY <1>0, <2>1, <2>2
<1>7. cut[i - 1] + m > 0 => b[cut[i - 1] + m] = ks[i].bytes[m]
  BY DEF Spells
<1> QED
  BY <1>0, <1>2, <1>4, <1>5, <1>6, <1>7, SMTT(40)

\* Keys that follow keys.
LEMMA SpellsConcat ==
  ASSUME NEW ks \in Seq(KnownKeys), NEW ls \in Seq(KnownKeys), NEW b \in Seq(Nat), NEW c \in Seq(Nat),
         NEW cut, NEW tuc, Spells(ks, b, cut), Spells(ls, c, tuc), tuc[0] = 0
  PROVE  Prolongs(ks \o ls, b \o c, cut, Len(ks))
<1> DEFINE n == Len(ks)
           o == Len(ls)
           d == [i \in 0 .. n + o |-> IF i <= n THEN cut[i] ELSE Len(b) + tuc[i - n]]
           kl == ks \o ls
           bc == b \o c
<1>1. n \in Nat /\ o \in Nat /\ Len(b) \in Nat /\ Len(c) \in Nat
  OBVIOUS
<1>2. Len(kl) = n + o /\ Len(bc) = Len(b) + Len(c)
  OBVIOUS
<1>3. /\ \A i \in 1 .. n : kl[i] = ks[i]
      /\ \A i \in n + 1 .. n + o : kl[i] = ls[i - n]
  OBVIOUS
<1>4. /\ \A i \in 1 .. Len(b) : bc[i] = b[i]
      /\ \A i \in 1 .. Len(c) : bc[Len(b) + i] = c[i]
  OBVIOUS
<1>5. /\ cut \in [0 .. n -> Int] /\ cut[n] = Len(b)
      /\ \A i \in 1 .. n : cut[i] = cut[i - 1] + Len(ks[i].bytes)
      /\ \A i, j \in 0 .. n : i < j => cut[i] < cut[j]
      /\ \A i \in 1 .. n : \A m \in 1 .. Len(ks[i].bytes) :
           cut[i - 1] + m > 0 => b[cut[i - 1] + m] = ks[i].bytes[m]
  BY DEF Spells
<1>6. /\ tuc \in [0 .. o -> Int] /\ tuc[o] = Len(c)
      /\ \A i \in 1 .. o : tuc[i] = tuc[i - 1] + Len(ls[i].bytes)
      /\ \A i, j \in 0 .. o : i < j => tuc[i] < tuc[j]
      /\ \A i \in 1 .. o : \A m \in 1 .. Len(ls[i].bytes) :
           tuc[i - 1] + m > 0 => c[tuc[i - 1] + m] = ls[i].bytes[m]
  BY DEF Spells
<1>7. /\ \A i \in 1 .. n : Len(ks[i].bytes) \in Nat
      /\ \A i \in 1 .. o : Len(ls[i].bytes) \in Nat
  BY KnownKeyType
<1> HIDE DEF kl, bc, n, o
<1>8. /\ d \in [0 .. n + o -> Int]
      /\ \A i \in 0 .. n : d[i] = cut[i]
      /\ \A i \in n .. n + o : d[i] = Len(b) + tuc[i - n]
  <2>1. ASSUME NEW i \in 0 .. n PROVE i \in 0 .. n + o /\ d[i] = cut[i] /\ d[i] \in Int
    <3>1. i \in 0 .. n + o /\ i <= n
      BY <1>1
    <3>2. cut[i] \in Int
      BY <1>5
    <3>3. d[i] = IF i <= n THEN cut[i] ELSE Len(b) + tuc[i - n]
      BY <3>1
    <3> QED
      BY <3>1, <3>2, <3>3
  <2>2. ASSUME NEW i \in n .. n + o PROVE i \in 0 .. n + o /\ d[i] = Len(b) + tuc[i - n] /\ d[i] \in Int
    <3>1. i \in 0 .. n + o /\ i - n \in 0 .. o /\ n - n = 0
      BY <1>1
    <3>2. tuc[i - n] \in Int
      BY <1>6, <3>1
    <3>3. d[i] = IF i <= n THEN cut[i] ELSE Len(b) + tuc[i - n]
      BY <3>1
    <3>4. CASE i = n
      <4>1. d[i] = cut[n] /\ tuc[i - n] = 0
        BY <1>1, <3>1, <3>3, <3>4
      <4> QED
        BY <1>1, <1>5, <3>1, <4>1
    <3>5. CASE i # n
      <4>1. ~(i <= n)
        BY <1>1, <3>5
      <4> QED
        BY <1>1, <3>1, <3>2, <3>3, <4>1
    <3> QED
      BY <3>4, <3>5
  <2>3. \A i \in 0 .. n + o : i \in 0 .. n \/ i \in n .. n + o
    BY <1>1
  <2>4. \A i \in 0 .. n + o : d[i] \in Int
    BY <2>1, <2>2, <2>3
  <2> QED
    BY <2>1, <2>2, <2>4
<1> HIDE DEF d
<1>9. d[n + o] = Len(bc)
  <2>1. n + o \in n .. n + o /\ (n + o) - n = o
    BY <1>1
  <2> QED
    BY <1>1, <1>2, <1>6, <1>8, <2>1
<1>10. ASSUME NEW i \in 1 .. n + o PROVE d[i] = d[i - 1] + Len(kl[i].bytes)
  <2>1. CASE i <= n
    <3>1. i \in 1 .. n /\ i - 1 \in 0 .. n /\ i \in 0 .. n
      BY <1>1, <2>1
    <3> QED
      BY <1>3, <1>5, <1>8, <3>1
  <2>2. CASE i > n
    <3>1. i - n \in 1 .. o /\ i \in n .. n + o /\ i - 1 \in n .. n + o /\ (i - 1) - n = (i - n) - 1 /\ (i - n) - 1 \in 0 .. o
      BY <1>1, <2>2
    <3>2. tuc[i - n] = tuc[(i - n) - 1] + Len(ls[i - n].bytes)
      BY <1>6, <3>1
    <3>3. kl[i] = ls[i - n]
      <4>1. i \in n + 1 .. n + o
        BY <1>1, <2>2
      <4> QED
        BY <1>3, <4>1
    <3>4. tuc[(i - n) - 1] \in Int /\ Len(ls[i - n].bytes) \in Nat
      BY <1>6, <1>7, <3>1
    <3>5. d[i] = Len(b) + tuc[i - n] /\ d[i - 1] = Len(b) + tuc[(i - n) - 1]
      BY <1>8, <3>1
    <3> QED
      BY <1>1, <3>2, <3>3, <3>4, <3>5, SMTT(40)
  <2> QED
    BY <1>1, <2>1, <2>2
<1>11. ASSUME NEW i \in 0 .. n + o, NEW j \in 0 .. n + o, i < j PROVE d[i] < d[j]
  <2>1. CASE j <= n
    <3>1. i \in 0 .. n /\ j \in 0 .. n
      BY <1>1, <1>11, <2>1
    <3> QED
      BY <1>5, <1>8, <1>11, <3>1
  <2>2. CASE i >= n
    <3>1. i \in n .. n + o /\ j \in n .. n + o /\ i - n \in 0 .. o /\ j - n \in 0 .. o /\ i - n < j - n
      BY <1>1, <1>11, <2>2
    <3>2. tuc[i - n] < tuc[j - n] /\ tuc[i - n] \in Int /\ tuc[j - n] \in Int
      BY <1>6, <3>1
    <3>3. d[i] = Len(b) + tuc[i - n] /\ d[j] = Len(b) + tuc[j - n]
      BY <1>8, <3>1
    <3>4. Len(b) \in Nat
      BY <1>1
    <3> QED
      BY <3>2, <3>3, <3>4
  <2>3. CASE i < n /\ j > n
    <3>1. i \in 0 .. n /\ n \in 0 .. n /\ n \in 0 .. n + o /\ j \in n .. n + o /\ j - n \in 0 .. o /\ 0 < j - n /\ 0 \in 0 .. o
      BY <1>1, <1>11, <2>3
    <3>2. cut[i] < Len(b) /\ cut[i] \in Int
      BY <1>5, <2>3, <3>1
    <3>3. 0 < tuc[j - n] /\ tuc[j - n] \in Int
      BY <1>6, <3>1
    <3>4. d[i] = cut[i] /\ d[j] = Len(b) + tuc[j - n]
      BY <1>8, <3>1
    <3> QED
      BY <1>1, <3>2, <3>3, <3>4
  <2> QED
    BY <1>1, <2>1, <2>2, <2>3
<1>12. ASSUME NEW i \in 1 .. n + o, NEW m \in 1 .. Len(kl[i].bytes), d[i - 1] + m > 0
       PROVE  bc[d[i - 1] + m] = kl[i].bytes[m]
  <2>1. CASE i <= n
    <3>1. i \in 1 .. n /\ i - 1 \in 0 .. n /\ i \in 0 .. n /\ n \in 0 .. n
      BY <1>1, <2>1
    <3>2. kl[i] = ks[i] /\ d[i - 1] = cut[i - 1]
      BY <1>3, <1>8, <3>1
    <3>3. m \in 1 .. Len(ks[i].bytes)
      BY <1>12, <3>2
    <3>4. /\ cut[i - 1] \in Int /\ cut[i - 1] + m <= Len(b)
          /\ cut[i - 1] + m > 0 => b[cut[i - 1] + m] = ks[i].bytes[m]
      BY <3>1, <3>3, SpellsAt DEF n
    <3>5. cut[i - 1] + m \in 1 .. Len(b)
      <4>1. m \in Int /\ cut[i - 1] + m > 0
        BY <1>12, <3>2
      <4> DEFINE x == cut[i - 1]
                 y == Len(b)
      <4>2. x \in Int /\ x + m <= y /\ x + m > 0 /\ m \in Int /\ y \in Int
        BY <1>1, <3>4, <4>1
      <4> HIDE DEF x, y
      <4>3. x + m \in 1 .. y
        BY <4>2
      <4> QED
        BY <4>3 DEF x, y
    <3>6. b[cut[i - 1] + m] = ks[i].bytes[m]
      BY <1>12, <3>2, <3>4
    <3> QED
      BY <1>4, <3>2, <3>5, <3>6
  <2>2. CASE i > n
    <3>1. i - n \in 1 .. o /\ i - 1 \in n .. n + o /\ (i - 1) - n = (i - n) - 1 /\ (i - n) - 1 \in 0 .. o /\ i - n \in 0 .. o /\ o \in 0 .. o /\ 0 \in 0 .. o
      BY <1>1, <2>2
    <3>2. kl[i] = ls[i - n] /\ d[i - 1] = Len(b) + tuc[(i - n) - 1]
      BY <1>1, <1>3, <1>8, <2>2, <3>1
    <3>3. m \in 1 .. Len(ls[i - n].bytes)
      BY <1>12, <3>2
    <3>4. /\ tuc[(i - n) - 1] \in Int /\ tuc[(i - n) - 1] + m <= Len(c) /\ tuc[(i - n) - 1] >= 0
          /\ tuc[(i - n) - 1] + m > 0 => c[tuc[(i - n) - 1] + m] = ls[i - n].bytes[m]
      <4> DEFINE j == i - n
      <4>1. j \in 1 .. Len(ls) /\ m \in 1 .. Len(ls[j].bytes)
        BY <3>1, <3>3 DEF o
      <4> HIDE DEF j
      <4>2. /\ tuc[j - 1] \in Int /\ tuc[j - 1] + m <= Len(c) /\ tuc[j - 1] >= 0
            /\ tuc[j - 1] + m > 0 => c[tuc[j - 1] + m] = ls[j].bytes[m]
        BY <4>1, SpellsAt, SMTT(40)
      <4> QED
        BY <4>2 DEF j
    <3>5. m \in Int /\ m > 0
      OBVIOUS
    <3>6. tuc[(i - n) - 1] + m \in 1 .. Len(c)
      <4> DEFINE x == tuc[(i - n) - 1]
                 y == Len(c)
      <4>1. x \in Int /\ x + m <= y /\ x >= 0 /\ m \in Int /\ m > 0 /\ y \in Int
        BY <1>1, <3>4, <3>5
      <4> HIDE DEF x, y
      <4>2. x + m \in 1 .. y
        BY <4>1
      <4> QED
        BY <4>2 DEF x, y
    <3>7. c[tuc[(i - n) - 1] + m] = ls[i - n].bytes[m]
      BY <3>4, <3>6
    <3>8. d[i - 1] + m = Len(b) + (tuc[(i - n) - 1] + m)
      BY <1>1, <3>2, <3>4, <3>5, SMTT(40)
    <3> QED
      BY <1>4, <3>2, <3>6, <3>7, <3>8
  <2> QED
    BY <1>1, <2>1, <2>2
<1>13. Spells(kl, bc, d)
  BY <1>2, <1>8, <1>9, <1>10, <1>11, <1>12 DEF Spells
<1> QED
  BY <1>8, <1>13 DEF Prolongs, kl, bc, n

\* The bytes that go in for a request are the bytes of its keys, one after the
\* other.
LEMMA BytesAppend ==
  ASSUME NEW ks \in Seq(Key), NEW k \in Key
  PROVE  BytesOf(Append(ks, k)) = BytesOf(ks) \o k.bytes
<1> DEFINE f == [i \in DOMAIN ks |-> ks[i].bytes]
           ls == Append(ks, k)
           g == [i \in DOMAIN ls |-> ls[i].bytes]
<1>0. \A l \in Key : l.bytes \in Seq(Nat)
  BY DEF Key
<1>1. DOMAIN ks = 1 .. Len(ks) /\ Len(ks) \in Nat /\ \A i \in 1 .. Len(ks) : ks[i] \in Key
  OBVIOUS
<1>2. ls \in Seq(Key) /\ DOMAIN ls = 1 .. Len(ks) + 1 /\ ls[Len(ks) + 1] = k /\ \A i \in 1 .. Len(ks) : ls[i] = ks[i]
  OBVIOUS
<1> DEFINE B == Seq(Nat)
<1>3. f \in Seq(B) /\ Len(f) = Len(ks)
  <2>1. f \in [1 .. Len(ks) -> B]
    BY <1>0, <1>1
  <2> HIDE DEF B, f
  <2> QED
    BY <1>1, <2>1
<1>4. k.bytes \in B
  BY <1>0
<1> HIDE DEF ls
<1>5. g = [i \in 1 .. Len(ks) + 1 |-> IF i <= Len(ks) THEN f[i] ELSE k.bytes]
  BY <1>1, <1>2
<1> HIDE DEF B, f, g
<1>6. Append(f, k.bytes) = [i \in 1 .. Len(f) + 1 |-> IF i <= Len(f) THEN f[i] ELSE k.bytes]
  BY <1>3, <1>4
<1>7. g = Append(f, k.bytes)
  BY <1>3, <1>5, <1>6
<1>8. FlattenSeq(Append(f, k.bytes)) = FlattenSeq(f) \o k.bytes
  BY <1>3, <1>4, FlattenAppend DEF B
<1> QED
  BY <1>7, <1>8 DEF BytesOf, f, g, ls

\* The bytes of a sequence of keys spell it.
LEMMA SpellsBytes ==
  ASSUME NEW ks \in Seq(KnownKeys)
  PROVE  BytesOf(ks) \in Seq(Nat) /\ \E cut : Spells(ks, BytesOf(ks), cut) /\ cut[0] = 0
<1> DEFINE P == {n \in Nat : \A ls \in Seq(KnownKeys) : Len(ls) = n =>
                   \E cut : Spells(ls, BytesOf(ls), cut) /\ cut[0] = 0}
<1>0. ASSUME NEW ls \in Seq(KnownKeys) PROVE ls \in Seq(Key) /\ BytesOf(ls) \in Seq(Nat)
  <2>1. ls \in Seq(Key)
    <3>1. \A i \in 1 .. Len(ls) : ls[i] \in Key
      BY KnownKeyType
    <3> QED
      BY <3>1
  <2> QED
    BY <2>1, BytesType
<1>1. 0 \in P
  <2> SUFFICES ASSUME NEW ls \in Seq(KnownKeys), Len(ls) = 0
               PROVE  \E cut : Spells(ls, BytesOf(ls), cut) /\ cut[0] = 0
    OBVIOUS
  <2>1. ls = <<>>
    OBVIOUS
  <2>2. BytesOf(<<>>) = <<>>
    BY DEF BytesOf, FlattenSeq
  <2>3. [i \in 0 .. 0 |-> 0][0] = 0
    OBVIOUS
  <2> QED
    BY <2>1, <2>2, <2>3, SpellsNone
<1>2. ASSUME NEW n \in P PROVE n + 1 \in P
  <2> SUFFICES ASSUME NEW ls \in Seq(KnownKeys), Len(ls) = n + 1
               PROVE  \E cut : Spells(ls, BytesOf(ls), cut) /\ cut[0] = 0
    OBVIOUS
  <2>1. ls # <<>>
    OBVIOUS
  <2>2. PICK hs \in Seq(KnownKeys), k \in KnownKeys : ls = Append(hs, k)
    BY <2>1, SequenceEmptyOrAppend
  <2>3. Len(hs) = n /\ ls = hs \o <<k>> /\ <<k>> \in Seq(KnownKeys) /\ 0 \in 0 .. Len(hs)
    BY <2>2
  <2>4. PICK cut : Spells(hs, BytesOf(hs), cut) /\ cut[0] = 0
    BY <2>3
  <2> DEFINE tuc == [i \in 0 .. 1 |-> IF i = 0 THEN 0 ELSE Len(k.bytes)]
  <2>5. Spells(<<k>>, k.bytes, tuc) /\ tuc[0] = 0
    BY SpellsOne
  <2> HIDE DEF tuc
  <2>6. hs \in Seq(Key) /\ BytesOf(hs) \in Seq(Nat) /\ k \in Key /\ k.bytes \in Seq(Nat)
    BY <1>0, KnownKeyType
  <2>7. \E d : Spells(hs \o <<k>>, BytesOf(hs) \o k.bytes, d) /\ \A i \in 0 .. Len(hs) : d[i] = cut[i]
    <3> DEFINE one == <<k>>
               b == BytesOf(hs)
               c == k.bytes
    <3>1. one \in Seq(KnownKeys) /\ b \in Seq(Nat) /\ c \in Seq(Nat)
      BY <2>3, <2>6
    <3>2. Spells(hs, b, cut) /\ Spells(one, c, tuc) /\ tuc[0] = 0
      BY <2>4, <2>5
    <3> HIDE DEF one, b, c
    <3>3. Prolongs(hs \o one, b \o c, cut, Len(hs))
      BY <3>1, <3>2, SpellsConcat
    <3> QED
      BY <3>3 DEF Prolongs, one, b, c
  <2>8. BytesOf(ls) = BytesOf(hs) \o k.bytes
    BY <2>2, <2>6, BytesAppend
  <2> QED
    BY <2>3, <2>4, <2>7, <2>8
<1> HIDE DEF P
<1>3. P \in SUBSET Nat
  BY DEF P
<1>4. Len(ks) \in P
  BY <1>1, <1>2, <1>3, Induction
<1> QED
  BY <1>0, <1>4 DEF P

\* One byte has been read.
LEMMA SpellsTail ==
  ASSUME NEW ks \in Seq(KnownKeys), NEW b \in Seq(Nat), b # <<>>, NEW cut, Spells(ks, b, cut)
  PROVE  Spells(ks, Tail(b), [i \in 0 .. Len(ks) |-> cut[i] - 1])
<1> DEFINE n == Len(ks)
           d == [i \in 0 .. n |-> cut[i] - 1]
           t == Tail(b)
<1>1. n \in Nat /\ Len(b) \in Nat /\ Len(t) = Len(b) - 1 /\ n \in 0 .. n
  OBVIOUS
<1>2. \A i \in 1 .. Len(b) - 1 : t[i] = b[i + 1]
  OBVIOUS
<1>3. \A i \in 0 .. n : cut[i] \in Int
  BY DEF Spells
<1> HIDE DEF t
<1>4. d \in [0 .. n -> Int] /\ \A i \in 0 .. n : d[i] = cut[i] - 1
  BY <1>3
<1> HIDE DEF d
<1>5. d[n] = Len(t)
  BY <1>1, <1>4 DEF Spells
<1>6. ASSUME NEW i \in 1 .. n PROVE d[i] = d[i - 1] + Len(ks[i].bytes)
  <2>1. cut[i] = cut[i - 1] + Len(ks[i].bytes)
    BY DEF Spells
  <2>2. i \in 0 .. n /\ i - 1 \in 0 .. n /\ Len(ks[i].bytes) \in Nat
    BY KnownKeyType
  <2>3. d[i] = cut[i] - 1 /\ d[i - 1] = cut[i - 1] - 1 /\ cut[i] \in Int /\ cut[i - 1] \in Int
    BY <1>3, <1>4, <2>2
  <2> DEFINE l == Len(ks[i].bytes)
             x == cut[i - 1]
             y == cut[i]
  <2>4. y = x + l /\ d[i] = y - 1 /\ d[i - 1] = x - 1 /\ x \in Int /\ y \in Int /\ l \in Int
    BY <2>1, <2>2, <2>3
  <2> HIDE DEF l, x, y
  <2>5. d[i] = d[i - 1] + l
    BY <2>4
  <2> QED
    BY <2>5 DEF l
<1>7. ASSUME NEW i \in 0 .. n, NEW j \in 0 .. n, i < j PROVE d[i] < d[j]
  <2>1. cut[i] < cut[j]
    BY <1>7 DEF Spells
  <2> QED
    BY <1>3, <1>4, <2>1
<1>8. ASSUME NEW i \in 1 .. n, NEW m \in 1 .. Len(ks[i].bytes), d[i - 1] + m > 0
      PROVE  t[d[i - 1] + m] = ks[i].bytes[m]
  <2>1. i - 1 \in 0 .. n /\ m \in Int
    BY <1>1
  <2>2. /\ cut[i - 1] \in Int /\ cut[i - 1] + m <= Len(b)
        /\ cut[i - 1] + m > 0 => b[cut[i - 1] + m] = ks[i].bytes[m]
    BY SpellsAt
  <2>3. d[i - 1] = cut[i - 1] - 1
    BY <1>4, <2>1
  <2>4. d[i - 1] + m \in 1 .. Len(b) - 1 /\ (d[i - 1] + m) + 1 = cut[i - 1] + m
    <3> DEFINE x == cut[i - 1]
    <3>1. x \in Int /\ m \in Int /\ d[i - 1] = x - 1 /\ x + m <= Len(b) /\ d[i - 1] + m > 0
      BY <1>8, <2>1, <2>2, <2>3
    <3> HIDE DEF x
    <3>2. d[i - 1] + m \in 1 .. Len(b) - 1 /\ (d[i - 1] + m) + 1 = x + m
      BY <1>1, <3>1
    <3> QED
      BY <3>2 DEF x
  <2>5. b[cut[i - 1] + m] = ks[i].bytes[m]
    BY <1>8, <2>1, <2>2, <2>3, SMTT(40)
  <2> QED
    BY <1>2, <2>4, <2>5
<1> QED
  BY <1>4, <1>5, <1>6, <1>7, <1>8 DEF Spells, d, t

\* Of the keys ks of a source h has been heard, b is still to be read, and if
\* open the parser p is on its way through the bytes of the next key.
Hears(h, ks, b, p, open) ==
  \E cut :
    /\ Spells(ks, b, cut)
    /\ Len(h) <= Len(ks) /\ \A i \in 1 .. Len(h) : h[i] = ks[i].act
    /\ cut[Len(h)] <= 0 /\ (open <=> cut[Len(h)] < 0)
    /\ Len(h) < Len(ks) => cut[Len(h) + 1] > 0
    /\ open => \E run : Run(ks[Len(h) + 1], run) /\ p = run[-cut[Len(h)]]

\* The parser of another source does not matter when no key is half heard.
LEMMA HearsApart ==
  ASSUME NEW h, NEW ks, NEW b, NEW p, NEW q, Hears(h, ks, b, p, FALSE)
  PROVE  Hears(h, ks, b, q, FALSE)
  BY DEF Hears

\* More keys are pressed.
LEMMA HearsMore ==
  ASSUME NEW h \in Seq(Actions), NEW ks \in Seq(KnownKeys), NEW b \in Seq(Nat), NEW p, NEW open \in BOOLEAN,
         Hears(h, ks, b, p, open), NEW ls \in Seq(KnownKeys)
  PROVE  Hears(h, ks \o ls, b \o BytesOf(ls), p, open)
<1> DEFINE c == BytesOf(ls)
           n == Len(h)
           kl == ks \o ls
<1>1. PICK cut :
        /\ Spells(ks, b, cut)
        /\ n <= Len(ks) /\ \A i \in 1 .. n : h[i] = ks[i].act
        /\ cut[n] <= 0 /\ (open <=> cut[n] < 0)
        /\ n < Len(ks) => cut[n + 1] > 0
        /\ open => \E run : Run(ks[n + 1], run) /\ p = run[-cut[n]]
  BY DEF Hears
<1>2. c \in Seq(Nat) /\ \E tuc : Spells(ls, c, tuc) /\ tuc[0] = 0
  BY SpellsBytes
<1>3. PICK tuc : Spells(ls, c, tuc) /\ tuc[0] = 0
  BY <1>2
<1> HIDE DEF c
<1>4. Prolongs(kl, b \o c, cut, Len(ks))
  BY <1>1, <1>2, <1>3, SpellsConcat
<1>5. PICK d : Spells(kl, b \o c, d) /\ \A i \in 0 .. Len(ks) : d[i] = cut[i]
  BY <1>4 DEF Prolongs
<1>6. n \in Nat /\ Len(ks) \in Nat /\ Len(ls) \in Nat /\ Len(kl) = Len(ks) + Len(ls) /\ n \in 0 .. Len(ks)
  BY <1>1
<1>7. \A i \in 1 .. Len(ks) : kl[i] = ks[i]
  OBVIOUS
<1> HIDE DEF kl, n
<1>8. d[n] = cut[n] /\ n <= Len(kl)
  BY <1>5, <1>6
<1>9. \A i \in 1 .. n : h[i] = kl[i].act
  <2>1. \A i \in 1 .. n : i \in 1 .. Len(ks)
    BY <1>1, <1>6
  <2>2. \A i \in 1 .. n : h[i] = ks[i].act
    BY <1>1
  <2> QED
    BY <1>7, <2>1, <2>2
<1>10. n < Len(kl) => d[n + 1] > 0
  <2>1. CASE n < Len(ks)
    <3>1. n + 1 \in 0 .. Len(ks)
      BY <1>6, <2>1
    <3>2. d[n + 1] = cut[n + 1]
      BY <1>5, <3>1
    <3> QED
      BY <1>1, <2>1, <3>2
  <2>2. CASE n = Len(ks)
    <3>1. cut[n] = Len(b)
      BY <1>1, <2>2 DEF Spells
    <3>2. d[n] = 0
      BY <1>1, <1>8, <3>1
    <3> SUFFICES ASSUME n < Len(kl) PROVE d[n + 1] > 0
      OBVIOUS
    <3>3. n \in 0 .. Len(kl) /\ n + 1 \in 0 .. Len(kl) /\ n < n + 1
      BY <1>6
    <3>4. d[n] < d[n + 1] /\ d[n + 1] \in Int
      BY <1>5, <3>3 DEF Spells
    <3> QED
      BY <3>2, <3>4
  <2> QED
    BY <1>1, <1>6, <2>1, <2>2
<1>11. open => \E run : Run(kl[n + 1], run) /\ p = run[-d[n]]
  <2> SUFFICES ASSUME open PROVE \E run : Run(kl[n + 1], run) /\ p = run[-d[n]]
    OBVIOUS
  <2>1. n # Len(ks)
    <3> SUFFICES ASSUME n = Len(ks) PROVE FALSE
      OBVIOUS
    <3>1. cut[n] = Len(b) /\ cut[n] < 0
      BY <1>1 DEF Spells
    <3> QED
      BY <3>1
  <2>2. n + 1 \in 1 .. Len(ks)
    BY <1>1, <1>6, <2>1
  <2>3. kl[n + 1] = ks[n + 1]
    BY <1>7, <2>2
  <2> QED
    BY <1>1, <1>8, <2>3
<1> QED
  BY <1>1, <1>5, <1>8, <1>9, <1>10, <1>11 DEF Hears, n, kl, c

\* One byte is read, and the parser gives r: in the middle of a key, or at its end.
GoesOn(h, ks, b, r) ==
  \/ /\ r.action.type = "UNKNOWN" /\ InSequence(r.parser)
     /\ Hears(h, ks, Tail(b), r.parser, TRUE)
  \/ /\ r.action.type # "UNKNOWN" /\ r.action \in Actions /\ r.parser = Ground
     /\ Hears(Append(h, r.action), ks, Tail(b), Ground, FALSE)

\* One byte of a known key is parsed on towards that key.
LEMMA HearsByte ==
  ASSUME NEW h \in Seq(Actions), NEW ks \in Seq(KnownKeys), NEW b \in Seq(Nat), b # <<>>, NEW p,
         NEW open \in BOOLEAN, Hears(h, ks, b, p, open), open \/ p = Ground
  PROVE  GoesOn(h, ks, b, ParseByte(p, Head(b)))
<1> DEFINE n == Len(h)
           r == ParseByte(p, Head(b))
           k == ks[n + 1]
<1>1. PICK cut :
        /\ Spells(ks, b, cut)
        /\ n <= Len(ks) /\ \A i \in 1 .. n : h[i] = ks[i].act
        /\ cut[n] <= 0 /\ (open <=> cut[n] < 0)
        /\ n < Len(ks) => cut[n + 1] > 0
        /\ open => \E run : Run(ks[n + 1], run) /\ p = run[-cut[n]]
  BY DEF Hears
<1> DEFINE d == [i \in 0 .. Len(ks) |-> cut[i] - 1]
           t == Tail(b)
<1>2. Spells(ks, t, d)
  BY <1>1, SpellsTail
<1>3. n \in Nat /\ Len(ks) \in Nat /\ Len(b) \in Nat /\ Len(b) > 0 /\ Head(b) = b[1]
  OBVIOUS
<1>4. n # Len(ks)
  <2> SUFFICES ASSUME n = Len(ks) PROVE FALSE
    OBVIOUS
  <2>1. cut[n] = Len(b) /\ cut[n] <= 0
    BY <1>1 DEF Spells
  <2> QED
    BY <1>3, <2>1
<1>5. n + 1 \in 1 .. Len(ks) /\ n \in 0 .. Len(ks) /\ n + 1 \in 0 .. Len(ks)
  BY <1>1, <1>3, <1>4
<1> DEFINE j == -cut[n]
           l == Len(k.bytes)
<1>6. cut[n] \in Int /\ cut[n + 1] \in Int /\ cut[n + 1] = cut[n] + l /\ cut[n + 1] > 0 /\ cut[n] <= 0
  <2>1. cut[n] \in Int /\ cut[n + 1] \in Int
    BY <1>1, <1>5 DEF Spells
  <2>2. cut[n + 1] = cut[(n + 1) - 1] + Len(ks[n + 1].bytes)
    BY <1>1, <1>5 DEF Spells
  <2>3. (n + 1) - 1 = n
    BY <1>3
  <2> QED
    BY <1>1, <1>3, <1>4, <2>1, <2>2, <2>3
<1>7. k \in KnownKeys /\ l \in Nat /\ l > 0 /\ k.act.type # "UNKNOWN" /\ k.act \in Actions
  <2>1. k \in KnownKeys
    BY <1>5
  <2> HIDE DEF k
  <2> QED
    BY <2>1, KnownKeyType DEF KnownKeys, Key, Actions
<1>8. d[n] = cut[n] - 1 /\ d[n + 1] = cut[n + 1] - 1
  BY <1>5
<1> HIDE DEF k, d, t
<1>9. j \in 0 .. l - 1
  <2> HIDE DEF l
  <2> QED
    BY <1>6, <1>7, SMTT(40)
<1>10. b[1] = k.bytes[j + 1]
  <2>1. (n + 1) - 1 = n /\ cut[n] + (j + 1) = 1 /\ j + 1 \in 1 .. l
    <3> DEFINE x == cut[n]
    <3>1. j = -x /\ x \in Int /\ j \in 0 .. l - 1 /\ l \in Nat
      BY <1>6, <1>7, <1>9
    <3>2. (n + 1) - 1 = n
      BY <1>3
    <3> HIDE DEF l, x, j
    <3>3. x + (j + 1) = 1 /\ j + 1 \in 1 .. l
      BY <3>1
    <3> QED
      BY <3>2, <3>3 DEF x
  <2> DEFINE i == n + 1
             m == j + 1
  <2>2. i \in 1 .. Len(ks) /\ m \in 1 .. Len(ks[i].bytes)
    BY <1>5, <2>1 DEF k
  <2>3. cut[i - 1] + m = 1
    BY <2>1
  <2> HIDE DEF i, m
  <2>4. cut[i - 1] + m > 0 => b[cut[i - 1] + m] = ks[i].bytes[m]
    BY <1>1, <2>2, SpellsAt, SMTT(40)
  <2> QED
    BY <2>3, <2>4 DEF i, m, k
<1>11. PICK run : Run(k, run) /\ p = run[j]
  <2>1. CASE open
    BY <1>1, <2>1 DEF k
  <2>2. CASE ~open
    <3>1. j = 0 /\ p = Ground
      BY <1>1, <1>6, <2>2, SMTT(40)
    <3>2. PICK run : Run(k, run)
      BY <1>7 DEF KnownKeys
    <3>3. run[0] = Ground
      BY <3>2 DEF Run
    <3> QED
      BY <3>1, <3>2, <3>3
  <2> QED
    BY <2>1, <2>2
<1> HIDE DEF j
<1>12. ParseByte(run[j], k.bytes[j + 1]) = Gives(run[j + 1], IF j + 1 = l THEN k.act ELSE UNKNOWN)
  BY <1>9, <1>11 DEF Run
<1>13. r = Gives(run[j + 1], IF j + 1 = l THEN k.act ELSE UNKNOWN)
  BY <1>3, <1>10, <1>11, <1>12
<1> HIDE DEF r, l
<1>14. r.parser = run[j + 1] /\ r.action = IF j + 1 = l THEN k.act ELSE UNKNOWN
  BY <1>13 DEF Gives
<1>15. j = -cut[n] /\ j \in Int
  BY <1>6 DEF j
<1>16. CASE j + 1 # l
  <2>1. r.action.type = "UNKNOWN"
    BY <1>14, <1>16 DEF UNKNOWN, Act
  <2>2. j + 1 \in 1 .. l - 1
    BY <1>7, <1>9, <1>16
  <2>3. InSequence(r.parser)
    BY <1>11, <1>14, <2>2 DEF Run, l
  <2>4. d[n] < 0 /\ -d[n] = j + 1 /\ d[n] <= 0
    <3> DEFINE x == cut[n]
    <3>1. d[n] = x - 1 /\ j = -x /\ x \in Int /\ x <= 0
      BY <1>6, <1>8, <1>15
    <3> HIDE DEF x
    <3> QED
      BY <3>1
  <2>5. d[n + 1] > 0
    <3> DEFINE x == cut[n]
               y == cut[n + 1]
    <3>1. y = x + l /\ j = -x /\ j + 1 \in 1 .. l - 1 /\ d[n + 1] = y - 1 /\ x \in Int /\ y \in Int /\ l \in Nat
      BY <1>6, <1>7, <1>8, <1>15, <2>2
    <3> HIDE DEF x, y
    <3> QED
      BY <3>1
  <2>6. Run(ks[n + 1], run) /\ r.parser = run[-d[n]]
    BY <1>11, <1>14, <2>4 DEF k
  <2>7. Hears(h, ks, t, r.parser, TRUE)
    BY <1>1, <1>2, <2>4, <2>5, <2>6 DEF Hears
  <2> QED
    BY <2>1, <2>3, <2>7 DEF GoesOn, r, t
<1>17. CASE j + 1 = l
  <2>1. r.action = k.act /\ r.parser = Ground
    BY <1>11, <1>14, <1>17 DEF Run, l
  <2> DEFINE g == Append(h, r.action)
  <2>2. Len(g) = n + 1 /\ g[n + 1] = k.act /\ \A i \in 1 .. n : g[i] = h[i]
    BY <1>7, <2>1
  <2> HIDE DEF g, n
  <2>3. \A i \in 1 .. Len(g) : g[i] = ks[i].act
    <3> SUFFICES ASSUME NEW i \in 1 .. n + 1 PROVE g[i] = ks[i].act
      BY <2>2
    <3>1. i \in 1 .. n \/ i = n + 1
      BY <1>3
    <3> QED
      BY <1>1, <2>2, <3>1 DEF k
  <2>4. d[n + 1] = 0
    <3> DEFINE x == cut[n]
               y == cut[n + 1]
    <3>1. y = x + l /\ j = -x /\ j + 1 = l /\ d[n + 1] = y - 1 /\ x \in Int /\ y \in Int /\ l \in Nat
      BY <1>6, <1>7, <1>8, <1>15, <1>17
    <3> HIDE DEF x, y
    <3> QED
      BY <3>1
  <2>5. n + 1 < Len(ks) => d[(n + 1) + 1] > 0
    <3> SUFFICES ASSUME n + 1 < Len(ks) PROVE d[(n + 1) + 1] > 0
      OBVIOUS
    <3>1. n + 1 \in 0 .. Len(ks) /\ (n + 1) + 1 \in 0 .. Len(ks) /\ n + 1 < (n + 1) + 1
      BY <1>3
    <3>2. d[n + 1] < d[(n + 1) + 1]
      BY <1>2, <3>1 DEF Spells
    <3> QED
      BY <2>4, <3>2
  <2>6. n + 1 <= Len(ks)
    BY <1>5
  <2>7. Hears(g, ks, t, Ground, FALSE)
    BY <1>2, <2>2, <2>3, <2>4, <2>5, <2>6, SMTT(40) DEF Hears
  <2> QED
    BY <1>7, <2>1, <2>7 DEF GoesOn, r, t, g
<1> QED
  BY <1>16, <1>17

\* What was heard is the meaning of the first keys, and of all of them once
\* nothing is left to read.
LEMMA HearsMeanings ==
  ASSUME NEW h \in Seq(Actions), NEW ks \in Seq(KnownKeys), NEW b \in Seq(Nat), NEW p,
         NEW open \in BOOLEAN, Hears(h, ks, b, p, open)
  PROVE  /\ IsPrefix(h, Meanings(ks))
         /\ b = <<>> => h = Meanings(ks) /\ ~open
<1> DEFINE n == Len(h)
           ms == Meanings(ks)
<1>1. PICK cut :
        /\ Spells(ks, b, cut)
        /\ n <= Len(ks) /\ \A i \in 1 .. n : h[i] = ks[i].act
        /\ cut[n] <= 0 /\ (open <=> cut[n] < 0)
        /\ n < Len(ks) => cut[n + 1] > 0
  BY DEF Hears
<1>2. DOMAIN ks = 1 .. Len(ks) /\ Len(ks) \in Nat /\ n \in Nat /\ \A i \in 1 .. Len(ks) : ks[i].act \in Actions
  BY DEF KnownKeys, Key, Actions
<1>3. ms = [i \in 1 .. Len(ks) |-> ks[i].act]
  BY <1>2 DEF Meanings
<1>4. ms \in Seq(Actions) /\ Len(ms) = Len(ks) /\ \A i \in 1 .. Len(ks) : ms[i] = ks[i].act
  <2>1. ms \in [1 .. Len(ks) -> Actions]
    BY <1>2, <1>3
  <2>2. \A i \in 1 .. Len(ks) : ms[i] = ks[i].act
    BY <1>3
  <2> HIDE DEF ms
  <2> QED
    BY <1>2, <2>1, <2>2
<1> HIDE DEF ms
<1>5. \A i \in 1 .. n : i \in 1 .. Len(ks) /\ h[i] = ms[i]
  BY <1>1, <1>2, <1>4
<1>6. IsPrefix(h, ms)
  <2>1. SubSeq(h, 1, n) = [i \in 1 .. n |-> h[i]]
    BY <1>2
  <2>2. SubSeq(ms, 1, n) = [i \in 1 .. n |-> ms[i]]
    BY <1>1, <1>2, <1>4
  <2> QED
    BY <1>1, <1>4, <1>5, <2>1, <2>2 DEF IsPrefix
<1>7. ASSUME b = <<>> PROVE h = ms /\ ~open
  <2>1. cut[Len(ks)] = 0
    BY <1>1, <1>7 DEF Spells
  <2>2. n = Len(ks)
    <3> SUFFICES ASSUME n < Len(ks) PROVE FALSE
      BY <1>1, <1>2
    <3>1. n + 1 \in 0 .. Len(ks) /\ Len(ks) \in 0 .. Len(ks) /\ n + 1 <= Len(ks)
      BY <1>2
    <3>2. cut[n + 1] > 0
      BY <1>1
    <3>3. n + 1 < Len(ks) => cut[n + 1] < cut[Len(ks)]
      BY <1>1, <3>1 DEF Spells
    <3>4. cut[n + 1] \in Int
      BY <1>1, <3>1 DEF Spells
    <3>5. n + 1 < Len(ks) \/ n + 1 = Len(ks)
      <4>1. n \in Nat /\ Len(ks) \in Nat /\ n < Len(ks)
        BY <1>2
      <4> QED
        BY <4>1
    <3> QED
      BY <2>1, <3>2, <3>3, <3>4, <3>5
  <2>3. h = ms
    BY <1>2, <1>4, <1>5, <2>2
  <2> QED
    BY <1>1, <2>1, <2>2, <2>3
<1> QED
  BY <1>6, <1>7 DEF ms

\* What is known of the keys of both sources and of the parser they share.
Hearing ==
  /\ heard \in [Sources -> Seq(Actions)]
  /\ Hears(heard["tty"], typed, tty, parser, from = "tty")
  /\ Hears(heard["inject"], sent, inject, parser, from = "inject")
  /\ from \in Sources => InSequence(parser)
  /\ from \notin Sources => parser = Ground

KeysTyped ==
  /\ Serves(KnownRequests)
  /\ typed \in Seq(KnownKeys) /\ tty \in Seq(Nat) /\ sent \in Seq(KnownKeys)

\* A byte of one source, read while the other source has nothing half heard.
LEMMA HearingFeed ==
  ASSUME KeysTyped, Hearing, NEW source \in Sources, NEW b, b # <<>>,
         b = IF source = "tty" THEN tty ELSE inject,
         Feed(Head(b), source), ~mixed',
         tty' = (IF source = "tty" THEN Tail(tty) ELSE tty),
         NEW i, i = (IF source = "tty" THEN inject ELSE Tail(inject)),
         typed' = typed
  PROVE  /\ heard' \in [Sources -> Seq(Actions)]
         /\ Hears(heard'["tty"], typed, tty', parser', from' = "tty")
         /\ Hears(heard'["inject"], sent, i, parser', from' = "inject")
         /\ from' \in Sources => InSequence(parser')
         /\ from' \notin Sources => parser' = Ground
<1> DEFINE r == ParseByte(parser, Head(b))
           h == heard[source]
           ks == IF source = "tty" THEN typed ELSE sent
           open == from = source
<1>0. b \in Seq(Nat) /\ ks \in Seq(KnownKeys) /\ h \in Seq(Actions) /\ open \in BOOLEAN
      /\ inject \in Seq(Nat)
  BY DEF KeysTyped, Hearing, Serves, Sane, Sockets, Socket
<1>1. /\ parser' = r.parser
      /\ from' = IF InSequence(r.parser) THEN source ELSE NULL
      /\ mixed' = (mixed \/ (InSequence(parser) /\ from # source))
      /\ heard' = IF r.action.type = "UNKNOWN" THEN heard ELSE [heard EXCEPT ![source] = Append(@, r.action)]
  BY DEF Feed, InSequence
<1>2. ~(InSequence(parser) /\ from # source)
  BY <1>1
<1>3. from \in Sources => from = source
  BY <1>2 DEF Hearing
<1>4. open \/ parser = Ground
  BY <1>3 DEF Hearing
<1>5. Hears(h, ks, b, parser, open)
  BY DEF Hearing, Sources
<1> HIDE DEF h, ks, r, open
<1>6. \/ /\ r.action.type = "UNKNOWN" /\ InSequence(r.parser)
         /\ Hears(h, ks, Tail(b), r.parser, TRUE)
      \/ /\ r.action.type # "UNKNOWN" /\ r.action \in Actions /\ r.parser = Ground
         /\ Hears(Append(h, r.action), ks, Tail(b), Ground, FALSE)
  <2>1. GoesOn(h, ks, b, r)
    BY <1>0, <1>4, <1>5, HearsByte DEF r
  <2> QED
    BY <2>1 DEF GoesOn
<1>7. ~InSequence(Ground) /\ NULL \notin Sources
  BY InputAssumption DEF InSequence, Ground, Sources
<1> DEFINE other == IF source = "tty" THEN "inject" ELSE "tty"
           g == heard[other]
           ls == IF source = "tty" THEN sent ELSE typed
           c == IF source = "tty" THEN inject ELSE tty
<1>8. Hears(g, ls, c, r.parser, FALSE)
  <2>1. from # other
    BY <1>3 DEF Sources
  <2>2. Hears(g, ls, c, parser, from = other)
    BY DEF Hearing, Sources
  <2>3. (from = other) = FALSE
    BY <2>1
  <2>4. Hears(g, ls, c, parser, FALSE)
    BY <2>2, <2>3
  <2> HIDE DEF g, ls, c
  <2> QED
    BY <2>4, HearsApart
<1>9. CASE r.action.type = "UNKNOWN"
  <2>1. heard' = heard /\ from' = source /\ parser' = r.parser /\ InSequence(r.parser)
    BY <1>1, <1>6, <1>9
  <2>2. Hears(h, ks, Tail(b), r.parser, TRUE)
    BY <1>6, <1>9
  <2>3. CASE source = "tty"
    <3>1. (from' = "tty") = TRUE /\ (from' = "inject") = FALSE
      BY <2>1, <2>3
    <3> QED
      BY <1>8, <2>1, <2>2, <2>3, <3>1 DEF Hearing, h, ks
  <2>4. CASE source = "inject"
    <3>1. (from' = "tty") = FALSE /\ (from' = "inject") = TRUE
      BY <2>1, <2>4
    <3> QED
      BY <1>8, <2>1, <2>2, <2>4, <3>1 DEF Hearing, h, ks
  <2> QED
    BY <2>3, <2>4 DEF Sources
<1>10. CASE r.action.type # "UNKNOWN"
  <2>1. /\ heard' = [heard EXCEPT ![source] = Append(h, r.action)] /\ from' = NULL
        /\ parser' = Ground /\ r.parser = Ground /\ r.action \in Actions
    BY <1>1, <1>6, <1>7, <1>10 DEF h
  <2>2. Hears(Append(h, r.action), ks, Tail(b), Ground, FALSE)
    BY <1>6, <1>10
  <2>3. (from' = "tty") = FALSE /\ (from' = "inject") = FALSE
    BY <1>7, <2>1 DEF Sources
  <2>4. Append(h, r.action) \in Seq(Actions)
    BY <1>0, <2>1
  <2>5. /\ heard' \in [Sources -> Seq(Actions)] /\ heard'[source] = Append(h, r.action)
        /\ heard'[other] = g
    BY <2>1, <2>4 DEF Hearing, Sources
  <2>6. CASE source = "tty"
    BY <1>7, <1>8, <2>1, <2>2, <2>3, <2>5, <2>6 DEF ks
  <2>7. CASE source = "inject"
    BY <1>7, <1>8, <2>1, <2>2, <2>3, <2>5, <2>7 DEF ks
  <2> QED
    BY <2>6, <2>7 DEF Sources
<1> QED
  BY <1>9, <1>10

\* Keys go in with all their bytes.
LEMMA HearingInjects ==
  ASSUME NEW h \in Seq(Actions), NEW p, NEW open \in BOOLEAN, KeysTyped, Injects(KnownRequests, Socket, Socket'),
         Hears(h, sent, inject, p, open)
  PROVE  Hears(h, sent', inject', p, open) /\ sent' \in Seq(KnownKeys)
<1>0. sent \in Seq(KnownKeys) /\ inject \in Seq(Nat)
  BY DEF KeysTyped, Serves, Sane, Sockets, Socket
<1>1. CASE inject' = inject /\ sent' = sent
  BY <1>0, <1>1
<1>2. CASE \E req \in KnownRequests : inject' = inject \o BytesOf(req.keys) /\ sent' = sent \o req.keys
  <2>1. PICK req \in KnownRequests : inject' = inject \o BytesOf(req.keys) /\ sent' = sent \o req.keys
    BY <1>2
  <2>2. req.keys \in Seq(KnownKeys)
    BY DEF KnownRequests
  <2>3. Hears(h, sent \o req.keys, inject \o BytesOf(req.keys), p, open)
    BY <1>0, <2>2, HearsMore
  <2> QED
    BY <1>0, <2>1, <2>2, <2>3
<1> QED
  BY <1>1, <1>2 DEF Injects, Socket

HearingInv == KeysTyped /\ (~mixed => Hearing)

\* Requests of known keys are requests.
LEMMA KnownRequestsType == KnownRequests \in SUBSET Request
  BY DEF KnownRequests

\* Nothing a step does not touch is heard differently.
LEMMA HearingSame ==
  ASSUME HearingInv, [Next]_vars, UNCHANGED <<tty, typed, inject, sent, parser, from, mixed, heard>>
  PROVE  HearingInv'
<1>1. Serves(KnownRequests)'
  BY KnownRequestsType, ServesStep DEF HearingInv, KeysTyped
<1>2. KeysTyped'
  BY <1>1 DEF HearingInv, KeysTyped
<1>3. ASSUME Hearing PROVE Hearing'
  BY <1>3 DEF Hearing
<1> QED
  BY <1>2, <1>3 DEF HearingInv

\* A pass of the event loop keeps what is heard.
LEMMA HearingLoop ==
  ASSUME HearingInv, LoopPass
  PROVE  HearingInv'
<1> USE DEF HearingInv
<1>0. Serves(KnownRequests)'
  BY KnownRequestsType, ServesStep DEF HearingInv, KeysTyped, Next
<1>1. /\ ControlSocketEvents /\ typed' = typed
      /\ \/ tty # <<>> /\ Feed(Head(tty), "tty") /\ tty' = Tail(tty)
         \/ UNCHANGED <<tty, parser, from, mixed, heard>>
  BY DEF LoopPass
<1>2. Injects(KnownRequests, Socket, Socket')
  BY <1>1, KnownRequestsType, Events DEF KeysTyped
<1>3. typed \in Seq(KnownKeys) /\ tty \in Seq(Nat) /\ sent \in Seq(KnownKeys)
  BY DEF KeysTyped
<1>4. tty' \in Seq(Nat)
  <2>1. CASE tty # <<>> /\ tty' = Tail(tty)
    <3>1. Tail(tty) \in Seq(Nat)
      BY <1>3, <2>1
    <3> QED
      BY <2>1, <3>1
  <2>2. CASE tty' = tty
    BY <1>3, <2>2
  <2> QED
    BY <1>1, <2>1, <2>2
<1>5. sent' \in Seq(KnownKeys)
  <2>1. CASE sent' = sent
    BY <1>3, <2>1
  <2>2. CASE \E req \in KnownRequests : sent' = sent \o req.keys
    <3>1. PICK req \in KnownRequests : sent' = sent \o req.keys
      BY <2>2
    <3>2. req.keys \in Seq(KnownKeys)
      BY DEF KnownRequests
    <3> QED
      BY <1>3, <3>1, <3>2
  <2> QED
    BY <1>2, <2>1, <2>2 DEF Injects, Socket
<1>6. KeysTyped'
  BY <1>0, <1>1, <1>3, <1>4, <1>5 DEF KeysTyped
<1>7. ASSUME ~mixed' PROVE Hearing'
  <2>1. ~mixed
    BY <1>1, <1>7 DEF Feed
  <2>2. Hearing
    BY <2>1
  <2>3. /\ heard' \in [Sources -> Seq(Actions)]
        /\ Hears(heard'["tty"], typed, tty', parser', from' = "tty")
        /\ Hears(heard'["inject"], sent, inject, parser', from' = "inject")
        /\ from' \in Sources => InSequence(parser')
        /\ from' \notin Sources => parser' = Ground
    <3>1. CASE tty # <<>> /\ Feed(Head(tty), "tty") /\ tty' = Tail(tty)
      <4>1. "tty" \in Sources
        BY DEF Sources
      <4> QED
        BY <1>1, <1>7, <2>2, <3>1, <4>1, HearingFeed
    <3>2. CASE UNCHANGED <<tty, parser, from, mixed, heard>>
      BY <2>2, <3>2 DEF Hearing
    <3> QED
      BY <1>1, <3>1, <3>2
  <2>4. heard'["inject"] \in Seq(Actions) /\ (from' = "inject") \in BOOLEAN
    BY <2>3 DEF Sources
  <2>5. Hears(heard'["inject"], sent', inject', parser', from' = "inject")
    <3> DEFINE h == heard'["inject"]
               o == from' = "inject"
    <3>1. h \in Seq(Actions) /\ o \in BOOLEAN /\ Hears(h, sent, inject, parser', o)
      BY <2>3, <2>4
    <3> HIDE DEF h, o
    <3>2. Hears(h, sent', inject', parser', o)
      BY <1>2, <3>1, HearingInjects
    <3> QED
      BY <3>2 DEF h, o
  <2> QED
    BY <1>1, <2>3, <2>5 DEF Hearing
<1> QED
  BY <1>6, <1>7

\* Every step keeps what is heard.
LEMMA HearingStep ==
  ASSUME HearingInv, [Next]_vars, Keys \subseteq KnownKeys
  PROVE  HearingInv'
<1>0. Serves(KnownRequests)'
  BY KnownRequestsType, ServesStep DEF HearingInv, KeysTyped
<1>1. CASE KeyInjection
  <2>1. /\ inject # <<>> /\ Feed(Head(inject), "inject") /\ inject' = Tail(inject)
        /\ tty' = tty /\ typed' = typed /\ sent' = sent
    BY <1>1 DEF KeyInjection
  <2>2. KeysTyped'
    BY <1>0, <2>1 DEF HearingInv, KeysTyped
  <2>3. ASSUME ~mixed' PROVE Hearing'
    <3>1. KeysTyped /\ Hearing /\ "inject" \in Sources
      BY <2>1, <2>3 DEF HearingInv, Feed, Sources
    <3>2. /\ heard' \in [Sources -> Seq(Actions)]
          /\ Hears(heard'["tty"], typed, tty', parser', from' = "tty")
          /\ Hears(heard'["inject"], sent, inject', parser', from' = "inject")
          /\ from' \in Sources => InSequence(parser')
          /\ from' \notin Sources => parser' = Ground
      BY <2>1, <2>3, <3>1, HearingFeed
    <3> QED
      BY <2>1, <3>2 DEF Hearing
  <2> QED
    BY <2>2, <2>3 DEF HearingInv
<1>2. CASE LoopPass
  BY <1>2, HearingLoop
<1>3. CASE Unblock
  <2>1. UNCHANGED <<tty, typed, parser, from, mixed, heard>>
    BY <1>3 DEF Unblock
  <2>2. KeysTyped
    BY DEF HearingInv
  <2>3. Injects(KnownRequests, Socket, Socket')
    BY <1>3, <2>2, KnownRequestsType, Unblocks DEF KeysTyped
  <2>4. sent' \in Seq(KnownKeys)
    <3>1. CASE sent' = sent
      BY <2>2, <3>1 DEF KeysTyped
    <3>2. CASE \E req \in KnownRequests : sent' = sent \o req.keys
      <4>1. PICK req \in KnownRequests : sent' = sent \o req.keys
        BY <3>2
      <4>2. req.keys \in Seq(KnownKeys) /\ sent \in Seq(KnownKeys)
        BY <2>2 DEF KnownRequests, KeysTyped
      <4> QED
        BY <4>1, <4>2
    <3> QED
      BY <2>3, <3>1, <3>2 DEF Injects, Socket
  <2>5. KeysTyped'
    BY <1>0, <2>1, <2>2, <2>4 DEF KeysTyped
  <2>6. ASSUME ~mixed' PROVE Hearing'
    <3>1. Hearing
      BY <2>1, <2>6 DEF HearingInv
    <3> DEFINE h == heard["inject"]
               o == from = "inject"
    <3>2. h \in Seq(Actions) /\ o \in BOOLEAN /\ Hears(h, sent, inject, parser, o)
      BY <3>1 DEF Hearing, Sources
    <3> HIDE DEF h, o
    <3>3. Hears(h, sent', inject', parser, o)
      BY <2>2, <2>3, <3>2, HearingInjects
    <3> QED
      BY <2>1, <3>1, <3>3 DEF Hearing, h, o
  <2> QED
    BY <2>5, <2>6 DEF HearingInv
<1>4. CASE Press
  <2>1. PICK k \in Keys : tty' = tty \o k.bytes /\ typed' = Append(typed, k)
    BY <1>4 DEF Press
  <2>2. UNCHANGED <<inject, sent, parser, from, mixed, heard>>
    BY <1>4 DEF Press
  <2>3. k \in KnownKeys /\ k \in Key /\ k.bytes \in Seq(Nat) /\ typed \in Seq(KnownKeys) /\ tty \in Seq(Nat)
    BY KnownKeyType DEF HearingInv, KeysTyped
  <2>4. typed' \in Seq(KnownKeys) /\ tty' \in Seq(Nat) /\ typed' = typed \o <<k>> /\ <<k>> \in Seq(KnownKeys)
    BY <2>1, <2>3
  <2>5. BytesOf(<<k>>) = k.bytes
    <3>1. BytesOf(Append(<<>>, k)) = BytesOf(<<>>) \o k.bytes
      <4>1. <<>> \in Seq(Key)
        OBVIOUS
      <4> QED
        BY <2>3, <4>1, BytesAppend
    <3>2. BytesOf(<<>>) = <<>>
      BY DEF BytesOf, FlattenSeq
    <3>3. Append(<<>>, k) = <<k>> /\ <<>> \o k.bytes = k.bytes
      BY <2>3
    <3> QED
      BY <3>1, <3>2, <3>3
  <2>6. KeysTyped'
    BY <1>0, <2>2, <2>4 DEF HearingInv, KeysTyped
  <2>7. ASSUME ~mixed' PROVE Hearing'
    <3>1. Hearing
      BY <2>2, <2>7 DEF HearingInv
    <3> DEFINE h == heard["tty"]
               o == from = "tty"
    <3>2. h \in Seq(Actions) /\ o \in BOOLEAN /\ Hears(h, typed, tty, parser, o)
      BY <3>1 DEF Hearing, Sources
    <3> HIDE DEF h, o
    <3> DEFINE ls == <<k>>
    <3>3. ls \in Seq(KnownKeys)
      BY <2>4
    <3> HIDE DEF ls
    <3>4. Hears(h, typed \o ls, tty \o BytesOf(ls), parser, o)
      BY <2>3, <3>2, <3>3, HearsMore
    <3>5. Hears(h, typed', tty', parser, o)
      BY <2>1, <2>4, <2>5, <3>4 DEF ls
    <3> QED
      BY <2>2, <3>1, <3>5 DEF Hearing, h, o
  <2> QED
    BY <2>6, <2>7 DEF HearingInv
<1>5. CASE Millisecond \/ AgentTurn \/ Network \/ UNCHANGED vars
  <2>1. UNCHANGED <<tty, typed, inject, sent, parser, from, mixed, heard>>
    BY <1>5 DEF Millisecond, AgentTurn, Network, vars, input
  <2> QED
    BY <2>1, HearingSame
<1>6. CASE \E c \in Clients : Ask(c) \/ Connect(c) \/ HangUp(c)
  <2>1. UNCHANGED <<tty, typed, inject, sent, parser, from, mixed, heard>>
    BY <1>6 DEF Ask, Connect, HangUp, input
  <2> QED
    BY <2>1, HearingSame
<1> QED
  BY <1>1, <1>2, <1>3, <1>4, <1>5, <1>6 DEF Next

\* Keys the parser knows one by one are heard in the order pressed, each once
\* and whole, however the bytes of the terminal and of the socket are read,
\* as long as no byte of one source fell into a key of the other.
THEOREM KeysAreHeard ==
  ASSUME Keys \subseteq KnownKeys, Scripts \subseteq [Clients -> Seq(KnownRequests)]
  PROVE  Spec => []KeysHeardWhole
<1>1. ASSUME Init PROVE HearingInv
  <2>1. Serves(KnownRequests)
    BY <1>1, KnownRequestsType, ServesInit
  <2>2. /\ tty = <<>> /\ typed = <<>> /\ inject = <<>> /\ sent = <<>>
        /\ parser = Ground /\ from = NULL /\ heard = [s \in Sources |-> <<>>]
    BY <1>1 DEF Init, Sources
  <2>3. <<>> \in Seq(KnownKeys) /\ <<>> \in Seq(Nat) /\ <<>> \in Seq(Actions) /\ Len(<<>>) = 0
    OBVIOUS
  <2>4. Hears(<<>>, <<>>, <<>>, Ground, FALSE)
    <3> DEFINE cut == [i \in 0 .. 0 |-> 0]
    <3>1. cut[0] = 0 /\ Spells(<<>>, <<>>, cut)
      BY SpellsNone
    <3> HIDE DEF cut
    <3> QED
      BY <2>3, <3>1 DEF Hears
  <2>5. (from = "tty") = FALSE /\ (from = "inject") = FALSE /\ from \notin Sources
    BY <2>2, InputAssumption DEF Sources
  <2>6. heard["tty"] = <<>> /\ heard["inject"] = <<>> /\ heard \in [Sources -> Seq(Actions)]
    BY <2>2, <2>3 DEF Sources
  <2>7. Hearing
    BY <2>2, <2>4, <2>5, <2>6 DEF Hearing
  <2> QED
    BY <2>1, <2>2, <2>3, <2>7 DEF HearingInv, KeysTyped
<1>2. ASSUME HearingInv PROVE KeysHeardWhole
  <2> SUFFICES ASSUME ~mixed
               PROVE  /\ IsPrefix(heard["tty"], Meanings(typed)) /\ IsPrefix(heard["inject"], Meanings(sent))
                      /\ tty = <<>> /\ inject = <<>> =>
                           Settled /\ heard["tty"] = Meanings(typed) /\ heard["inject"] = Meanings(sent)
    BY DEF KeysHeardWhole
  <2>1. Hearing /\ typed \in Seq(KnownKeys) /\ sent \in Seq(KnownKeys) /\ tty \in Seq(Nat) /\ inject \in Seq(Nat)
    BY <1>2 DEF HearingInv, KeysTyped, Serves, Sane, Sockets, Socket
  <2>2. heard["tty"] \in Seq(Actions) /\ heard["inject"] \in Seq(Actions)
    BY <2>1 DEF Hearing, Sources
  <2>3. /\ IsPrefix(heard["tty"], Meanings(typed))
        /\ tty = <<>> => heard["tty"] = Meanings(typed) /\ from # "tty"
    <3> DEFINE o == from = "tty"
    <3>1. o \in BOOLEAN /\ Hears(heard["tty"], typed, tty, parser, o)
      BY <2>1 DEF Hearing
    <3> HIDE DEF o
    <3>2. /\ IsPrefix(heard["tty"], Meanings(typed))
          /\ tty = <<>> => heard["tty"] = Meanings(typed) /\ ~o
      BY <2>1, <2>2, <3>1, HearsMeanings
    <3> QED
      BY <3>2 DEF o
  <2>4. /\ IsPrefix(heard["inject"], Meanings(sent))
        /\ inject = <<>> => heard["inject"] = Meanings(sent) /\ from # "inject"
    <3> DEFINE o == from = "inject"
    <3>1. o \in BOOLEAN /\ Hears(heard["inject"], sent, inject, parser, o)
      BY <2>1 DEF Hearing
    <3> HIDE DEF o
    <3>2. /\ IsPrefix(heard["inject"], Meanings(sent))
          /\ inject = <<>> => heard["inject"] = Meanings(sent) /\ ~o
      BY <2>1, <2>2, <3>1, HearsMeanings
    <3> QED
      BY <3>2 DEF o
  <2>5. tty = <<>> /\ inject = <<>> => Settled
    BY <2>1, <2>3, <2>4 DEF Hearing, Settled, Sources
  <2> QED
    BY <2>3, <2>4, <2>5
<1>3. ASSUME HearingInv, [Next]_vars PROVE HearingInv'
  BY <1>3, HearingStep
<1> QED
  BY <1>1, <1>2, <1>3, PTL DEF Spec

-----------------------------------------------------------------------------
(* Which keys are known *)

Pressed(bytes, act) == [bytes |-> bytes, act |-> act]

\* The parser at rest is inside no sequence.
LEMMA GroundFields == ~Ground.inUtf8 /\ ~Ground.inEscape /\ Ground.esc = <<>>
  BY DEF Ground

Parsers == [inEscape : BOOLEAN, esc : Seq(Nat), inUtf8 : BOOLEAN, utf8 : Seq(Nat), expected : Nat]

\* A parser is its five fields.
LEMMA ParserIs ==
  ASSUME NEW p \in Parsers
  PROVE  p = [inEscape |-> p.inEscape, esc |-> p.esc, inUtf8 |-> p.inUtf8, utf8 |-> p.utf8, expected |-> p.expected]
  BY Zenon DEF Parsers

\* The parser at rest is a parser that holds no bytes.
LEMMA GroundType == Ground \in Parsers /\ Ground.utf8 = <<>> /\ Ground.expected = 0
  BY DEF Parsers, Ground

\* What the escape branch and the UTF-8 branch change.
EnterEscape(p) == [[p EXCEPT !.inEscape = TRUE] EXCEPT !.esc = <<>>]
LeaveEscape(p) == [[p EXCEPT !.inEscape = FALSE] EXCEPT !.esc = <<>>]
Collect(p, e) == [p EXCEPT !.esc = e]
EnterUtf8(p, e, n) == [[[p EXCEPT !.inUtf8 = TRUE] EXCEPT !.utf8 = e] EXCEPT !.expected = n]
LeaveUtf8(p) == [[[p EXCEPT !.inUtf8 = FALSE] EXCEPT !.utf8 = <<>>] EXCEPT !.expected = 0]

\* What ESC changes of a parser.
LEMMA EnterEscapeIs ==
  ASSUME NEW p \in Parsers
  PROVE  /\ EnterEscape(p) \in Parsers
         /\ EnterEscape(p).inEscape /\ EnterEscape(p).esc = <<>>
         /\ (EnterEscape(p).inUtf8 <=> p.inUtf8) /\ EnterEscape(p).utf8 = p.utf8 /\ EnterEscape(p).expected = p.expected
<1> DEFINE e == <<>>
<1>1. e \in Seq(Nat) /\ e = <<>>
  OBVIOUS
<1>2. EnterEscape(p) = [[p EXCEPT !.inEscape = TRUE] EXCEPT !.esc = e]
  BY DEF EnterEscape
<1> HIDE DEF e
<1>3. EnterEscape(p) \in Parsers
  BY <1>1, <1>2 DEF Parsers
<1> QED
  BY <1>1, <1>2, <1>3 DEF Parsers

\* What the end of an escape sequence changes of a parser.
LEMMA LeaveEscapeIs ==
  ASSUME NEW p \in Parsers
  PROVE  /\ LeaveEscape(p) \in Parsers
         /\ ~LeaveEscape(p).inEscape /\ LeaveEscape(p).esc = <<>>
         /\ (LeaveEscape(p).inUtf8 <=> p.inUtf8) /\ LeaveEscape(p).utf8 = p.utf8
         /\ LeaveEscape(p).expected = p.expected
<1> DEFINE e == <<>>
<1>1. e \in Seq(Nat) /\ e = <<>>
  OBVIOUS
<1>2. LeaveEscape(p) = [[p EXCEPT !.inEscape = FALSE] EXCEPT !.esc = e]
  BY DEF LeaveEscape
<1> HIDE DEF e
<1>3. LeaveEscape(p) \in Parsers
  BY <1>1, <1>2 DEF Parsers
<1> QED
  BY <1>1, <1>2, <1>3 DEF Parsers

\* What one more byte of an escape sequence changes of a parser.
LEMMA CollectIs ==
  ASSUME NEW p \in Parsers, NEW e \in Seq(Nat), p.inEscape, ~p.inUtf8, p.utf8 = <<>>, p.expected = 0
  PROVE  /\ Collect(p, e) \in Parsers /\ Collect(p, e).inEscape /\ Collect(p, e).esc = e
         /\ ~Collect(p, e).inUtf8 /\ Collect(p, e).utf8 = <<>> /\ Collect(p, e).expected = 0
  BY DEF Parsers, Collect

\* What a lead byte changes of the parser at rest.
LEMMA EnterUtf8Is ==
  ASSUME NEW e \in Seq(Nat), NEW n \in Nat
  PROVE  /\ EnterUtf8(Ground, e, n) \in Parsers /\ ~EnterUtf8(Ground, e, n).inEscape
         /\ EnterUtf8(Ground, e, n).esc = <<>> /\ EnterUtf8(Ground, e, n).inUtf8
         /\ EnterUtf8(Ground, e, n).utf8 = e /\ EnterUtf8(Ground, e, n).expected = n
  BY GroundType, GroundFields DEF Parsers, EnterUtf8

\* What the last continuation byte changes of a parser.
LEMMA LeaveUtf8Is ==
  ASSUME NEW p \in Parsers
  PROVE  /\ LeaveUtf8(p) \in Parsers
         /\ (LeaveUtf8(p).inEscape <=> p.inEscape) /\ LeaveUtf8(p).esc = p.esc
         /\ ~LeaveUtf8(p).inUtf8 /\ LeaveUtf8(p).utf8 = <<>> /\ LeaveUtf8(p).expected = 0
<1> DEFINE e == <<>>
           n == 0
<1>1. e \in Seq(Nat) /\ e = <<>> /\ n \in Nat /\ n = 0
  OBVIOUS
<1>2. LeaveUtf8(p) = [[[p EXCEPT !.inUtf8 = FALSE] EXCEPT !.utf8 = e] EXCEPT !.expected = n]
  BY DEF LeaveUtf8
<1> HIDE DEF e, n
<1>3. LeaveUtf8(p) \in Parsers
  BY <1>1, <1>2 DEF Parsers
<1> QED
  BY <1>1, <1>2, <1>3 DEF Parsers

\* A parser that holds nothing is at rest.
LEMMA GroundAgain ==
  ASSUME NEW p \in Parsers, ~p.inEscape, p.esc = <<>>, ~p.inUtf8, p.utf8 = <<>>, p.expected = 0
  PROVE  p = Ground
<1>1. p.inEscape = FALSE /\ p.inUtf8 = FALSE
  BY DEF Parsers
<1> QED
  BY <1>1, ParserIs, Zenon DEF Ground

\* A character is a known action.
LEMMA CharType == \A cp \in Nat : Char(cp) \in Actions /\ Char(cp).type # "UNKNOWN"
  BY DEF Char, Actions, ActionTypes

\* A named action is a known action.
LEMMA ActType ==
  ASSUME NEW t \in ActionTypes, t # "UNKNOWN"
  PROVE  Act(t) \in Actions /\ Act(t).type # "UNKNOWN"
  BY DEF Act, Actions

\* A key of one byte that the parser takes on the ground.
LEMMA OneByteKnown ==
  ASSUME NEW b \in Nat, NEW act \in Actions, act.type # "UNKNOWN", ParseByte(Ground, b) = Gives(Ground, act)
  PROVE  Pressed(<<b>>, act) \in KnownKeys
<1> DEFINE k == Pressed(<<b>>, act)
           run == [i \in 0 .. 1 |-> Ground]
<1>1. <<b>> \in Seq(Nat) /\ <<b>> # <<>> /\ Len(<<b>>) = 1 /\ <<b>>[1] = b
  OBVIOUS
<1>2. k \in Key /\ k.act = act /\ k.bytes = <<b>>
  BY <1>1 DEF Pressed, Key
<1>3. run[0] = Ground /\ run[1] = Ground
  OBVIOUS
<1> HIDE DEF k, run
<1>4. Run(k, run)
  BY <1>1, <1>2, <1>3 DEF Run
<1> QED
  BY <1>1, <1>2, <1>4 DEF KnownKeys, k

\* A printable character of one byte is heard as itself (ik_input_parse_byte).
THEOREM PrintableKeysKnown == \A b \in 32 .. 126 : Pressed(<<b>>, Char(b)) \in KnownKeys
<1> SUFFICES ASSUME NEW b \in 32 .. 126
             PROVE  Pressed(<<b>>, Char(b)) \in KnownKeys
  OBVIOUS
<1>1. \A c \in ControlKeys : c[1] # b
  BY DEF ControlKeys
<1>2. b # ESC /\ ~(Utf8Length(b) > 0)
  BY DEF ESC, Utf8Length
<1>3. ParseByte(Ground, b) = Gives(Ground, Char(b))
  BY <1>1, <1>2, GroundFields, Zenon DEF ParseByte
<1>4. b \in Nat /\ Char(b) \in Actions /\ Char(b).type # "UNKNOWN"
  BY CharType
<1> QED
  BY <1>3, <1>4, OneByteKnown

\* So is every control key ik_input_parse_byte names.
THEOREM ControlKeysKnown == \A c \in ControlKeys : Pressed(<<c[1]>>, Act(c[2])) \in KnownKeys
<1> SUFFICES ASSUME NEW c \in ControlKeys
             PROVE  Pressed(<<c[1]>>, Act(c[2])) \in KnownKeys
  OBVIOUS
<1>1. c[1] \in Nat /\ c[1] # ESC /\ c[1] \notin 32 .. 126 /\ ~(Utf8Length(c[1]) > 0)
  <2>1. c[1] \in Nat /\ c[1] < 128 /\ c[1] # 27 /\ c[1] \notin 32 .. 126
    BY DEF ControlKeys
  <2> QED
    BY <2>1 DEF ESC, Utf8Length
<1>2. c[2] \in ActionTypes /\ c[2] # "UNKNOWN"
  BY DEF ControlKeys, ActionTypes
<1>3. (CHOOSE d \in ControlKeys : d[1] = c[1])[2] = c[2]
  <2> DEFINE e == CHOOSE d \in ControlKeys : d[1] = c[1]
  <2>1. \A d \in ControlKeys : d[1] = c[1] => d[2] = c[2]
    BY DEF ControlKeys
  <2>2. e \in ControlKeys /\ e[1] = c[1]
    OBVIOUS
  <2> HIDE DEF e
  <2>3. e[2] = c[2]
    BY <2>1, <2>2
  <2> QED
    BY <2>3 DEF e
<1>4. \E d \in ControlKeys : d[1] = c[1]
  OBVIOUS
<1>5. ParseByte(Ground, c[1]) = Gives(Ground, Act(c[2]))
  BY <1>1, <1>3, <1>4, GroundFields, Zenon DEF ParseByte
<1> QED
  BY <1>1, <1>2, <1>5, ActType, OneByteKnown

\* And the four arrows, in the three bytes a terminal sends for them
\* (ik_input_parse_escape_sequence).
THEOREM ArrowKeysKnown == \A d \in 1 .. 4 : Pressed(<<27, 91, 64 + d>>, Act(Arrows[d])) \in KnownKeys
<1> SUFFICES ASSUME NEW d \in 1 .. 4
             PROVE  Pressed(<<27, 91, 64 + d>>, Act(Arrows[d])) \in KnownKeys
  OBVIOUS
<1> DEFINE bytes == <<27, 91, 64 + d>>
           k == Pressed(bytes, Act(Arrows[d]))
           p == EnterEscape(Ground)
           q == Collect(p, <<91>>)
           run == [i \in 0 .. 3 |-> IF i = 1 THEN p ELSE IF i = 2 THEN q ELSE Ground]
<1>1. Arrows[d] \in ActionTypes /\ Arrows[d] # "UNKNOWN"
  BY DEF Arrows, ActionTypes
<1>2. Act(Arrows[d]) \in Actions /\ Act(Arrows[d]).type # "UNKNOWN"
  BY <1>1, ActType
<1>3. bytes \in Seq(Nat) /\ bytes # <<>> /\ Len(bytes) = 3 /\ bytes[1] = 27 /\ bytes[2] = 91 /\ bytes[3] = 64 + d
  OBVIOUS
<1> HIDE DEF bytes
<1>4. k \in Key /\ k.act = Act(Arrows[d]) /\ k.bytes = bytes
  BY <1>2, <1>3 DEF Pressed, Key
<1>5. ParseByte(Ground, 27) = Gives(p, UNKNOWN)
  <2>1. ~(\E c \in ControlKeys : c[1] = 27) /\ ~(27 \in 32 .. 126) /\ ~(Utf8Length(27) > 0) /\ 27 = ESC
    BY DEF ControlKeys, Utf8Length, ESC
  <2> QED
    BY <2>1, GroundFields, Zenon DEF ParseByte, EnterEscape
<1>0. <<91>> \in Seq(Nat)
  OBVIOUS
<1>6. /\ ~p.inUtf8 /\ p.inEscape /\ p.esc = <<>>
      /\ q \in Parsers /\ ~q.inUtf8 /\ q.inEscape /\ q.esc = <<91>> /\ q.utf8 = <<>> /\ q.expected = 0
  <2>1. p \in Parsers /\ p.inEscape /\ p.esc = <<>> /\ ~p.inUtf8 /\ p.utf8 = <<>> /\ p.expected = 0
    BY GroundType, GroundFields, EnterEscapeIs
  <2> HIDE DEF p
  <2> DEFINE e == <<91>>
             r == Collect(p, e)
  <2>2. e \in Seq(Nat)
    BY <1>0
  <2>3. e = <<91>> /\ r = q
    OBVIOUS
  <2> HIDE DEF e, q
  <2>4. r \in Parsers /\ r.inEscape /\ r.esc = e /\ ~r.inUtf8 /\ r.utf8 = <<>> /\ r.expected = 0
    BY <2>1, <2>2, CollectIs, Zenon
  <2> HIDE DEF r
  <2> QED
    BY <2>1, <2>3, <2>4
<1>7. LeaveEscape(q) = Ground
  <2> HIDE DEF p, q
  <2> DEFINE r == LeaveEscape(q)
  <2>1. r \in Parsers /\ ~r.inEscape /\ r.esc = <<>> /\ ~r.inUtf8 /\ r.utf8 = <<>> /\ r.expected = 0
    BY <1>6, LeaveEscapeIs
  <2> HIDE DEF r
  <2>2. r = Ground
    BY <2>1, GroundAgain
  <2> QED
    BY <2>2 DEF r
<1>8. q = [p EXCEPT !.esc = <<91>>]
  BY DEF Collect
<1> HIDE DEF p, q
<1>9. ParseByte(p, 91) = Gives(q, UNKNOWN)
  <2>1. Append(p.esc, 91) = <<91>> /\ Len(<<91>>) = 1
    BY <1>6
  <2>2. ~(1 >= EscBufSize - 1) /\ 91 # ESC /\ 91 \in {91, ESC}
    BY DEF EscBufSize, ESC
  <2>3. ParseByte(p, 91) = EscapeSequence(p, 91)
    BY <1>6, Zenon DEF ParseByte
  <2>4. EscapeSequence(p, 91) = Gives(q, UNKNOWN)
    BY <2>1, <2>2, <1>8, Zenon DEF EscapeSequence
  <2> QED
    BY <2>3, <2>4
<1>10. ParseByte(q, 64 + d) = Gives(Ground, Act(Arrows[d]))
  <2> DEFINE e == Append(q.esc, 64 + d)
  <2>1. Len(e) = 2 /\ e[2] = 64 + d
    BY <1>6
  <2> HIDE DEF e
  <2>2. ParseByte(q, 64 + d) = EscapeSequence(q, 64 + d)
    BY <1>6, Zenon DEF ParseByte
  <2>3. IsArrow(e) /\ ArrowKey(e) = Act(Arrows[d])
    <3>1. Last(e) = 64 + d /\ Last(e) - 64 = d /\ Last(e) \in 65 .. 68
      BY <2>1 DEF Last
    <3> QED
      BY <2>1, <3>1, Zenon DEF IsArrow, ArrowKey
  <2>4. ~(Len(e) >= EscBufSize - 1) /\ Len(e) # 1
    BY <2>1 DEF EscBufSize
  <2>5. EscapeSequence(q, 64 + d) = Gives(LeaveEscape(q), ArrowKey(e))
    BY <2>3, <2>4, Zenon DEF EscapeSequence, LeaveEscape, e
  <2> QED
    BY <1>7, <2>2, <2>3, <2>5
<1>11. InSequence(p) /\ InSequence(q)
  BY <1>6 DEF InSequence
<1>12. run[0] = Ground /\ run[1] = p /\ run[2] = q /\ run[3] = Ground
  OBVIOUS
<1> HIDE DEF k, run
<1>13. Run(k, run)
  <2>1. \A i \in 1 .. 2 : i = 1 \/ i = 2
    OBVIOUS
  <2>2. \A i \in 0 .. 2 : i = 0 \/ i = 1 \/ i = 2
    OBVIOUS
  <2>3. ParseByte(run[0], k.bytes[1]) = Gives(run[1], UNKNOWN)
    BY <1>3, <1>4, <1>5, <1>12
  <2>4. ParseByte(run[1], k.bytes[2]) = Gives(run[2], UNKNOWN)
    BY <1>3, <1>4, <1>9, <1>12
  <2>5. ParseByte(run[2], k.bytes[3]) = Gives(run[3], k.act)
    BY <1>3, <1>4, <1>10, <1>12
  <2>6. Len(k.bytes) = 3
    BY <1>3, <1>4
  <2>7. \A i \in 0 .. 2 : ParseByte(run[i], k.bytes[i + 1]) = Gives(run[i + 1], IF i + 1 = 3 THEN k.act ELSE UNKNOWN)
    BY <2>2, <2>3, <2>4, <2>5
  <2>8. \A i \in 1 .. 2 : InSequence(run[i])
    BY <1>11, <1>12, <2>1
  <2> QED
    BY <1>12, <2>6, <2>7, <2>8 DEF Run
<1> QED
  BY <1>2, <1>3, <1>4, <1>13 DEF KnownKeys, k, bytes

\* The recursion of DecodeUtf8 over the bytes of a character.
Low(b, g, n) == IF n = 1 THEN b[1] % LeadBits(Len(b)) ELSE (g[n - 1] * 64) + (b[n] % 64)
IsLow(b, g) == g = [n \in 1 .. Len(b) |-> Low(b, g, n)]
Decoded(cp, n) == IF cp < LeastOf(n) \/ cp \in 55296 .. 57343 \/ cp > 1114111 THEN 65533 ELSE cp

\* DecodeUtf8 reads the last entry of the sums of its low bits.
LEMMA DecodeUnfold ==
  ASSUME NEW b
  PROVE  DecodeUtf8(b) = Decoded((CHOOSE g : IsLow(b, g))[Len(b)], Len(b))
<1> DEFINE low == CHOOSE low : low = [n \in 1 .. Len(b) |->
                    IF n = 1 THEN b[1] % LeadBits(Len(b)) ELSE (low[n - 1] * 64) + (b[n] % 64)]
<1>1. DecodeUtf8(b) = Decoded(low[Len(b)], Len(b))
  BY SMT DEF DecodeUtf8, Decoded
<1>2. low = CHOOSE g : IsLow(b, g)
  BY Zenon DEF IsLow, Low
<1> QED
  BY <1>1, <1>2, Zenon

\* The sums at each of their indices.
LEMMA LowAt ==
  ASSUME NEW b, NEW g, IsLow(b, g)
  PROVE  \A n \in 1 .. Len(b) : g[n] = Low(b, g, n)
  BY Zenon DEF IsLow

\* The code points of two bytes, the lead bytes and the continuation bytes
\* (parse_utf8_continuation).
TwoByteCodes == 128 .. 2047
LeadBytes == 192 .. 223
Continuations == 128 .. 191

\* The two bytes of a code point.
IsPair(bytes, a, b) == bytes = <<a, b>>
TwoBytes(c) == <<192 + (c \div 64), 128 + (c % 64)>>

\* Two bytes decode to the code point they encode.
LEMMA TwoBytesDecode ==
  ASSUME NEW c \in TwoByteCodes
  PROVE  DecodeUtf8(TwoBytes(c)) = c
<1> DEFINE b == TwoBytes(c)
           low == CHOOSE g : IsLow(b, g)
           h == [n \in 1 .. 2 |-> IF n = 1 THEN c \div 64 ELSE c]
<1>1. Len(b) = 2 /\ b[1] = 192 + (c \div 64) /\ b[2] = 128 + (c % 64)
  BY DEF TwoBytes
<1> HIDE DEF b
<1>2. /\ c \div 64 \in 2 .. 31 /\ c % 64 \in 0 .. 63 /\ c = (c \div 64) * 64 + (c % 64)
      /\ c \in Nat /\ c >= 128 /\ c < 2048
  BY DEF TwoByteCodes
<1>3. b[1] % 32 = c \div 64 /\ b[2] % 64 = c % 64
  BY <1>1, <1>2
<1>4. LeadBits(Len(b)) = 32
  BY <1>1 DEF LeadBits
<1>5. \A g : Low(b, g, 1) = c \div 64
  BY <1>3, <1>4 DEF Low
<1>6. \A g : g[1] = c \div 64 => Low(b, g, 2) = c
  BY <1>2, <1>3 DEF Low
<1>7. IsLow(b, h)
  <2>1. h[1] = c \div 64 /\ h[2] = c
    OBVIOUS
  <2>2. Low(b, h, 1) = c \div 64 /\ Low(b, h, 2) = c
    BY <1>5, <1>6, <2>1
  <2>3. \A n \in 1 .. 2 : n = 1 \/ n = 2
    OBVIOUS
  <2>4. h = [n \in 1 .. 2 |-> h[n]]
    OBVIOUS
  <2> HIDE DEF h
  <2>5. \A n \in 1 .. 2 : h[n] = Low(b, h, n)
    BY <2>1, <2>2, <2>3
  <2>6. [n \in 1 .. 2 |-> h[n]] = [n \in 1 .. 2 |-> Low(b, h, n)]
    BY <2>5
  <2>7. h = [n \in 1 .. 2 |-> Low(b, h, n)]
    BY <2>4, <2>6
  <2> QED
    BY <1>1, <2>7 DEF IsLow
<1>8. IsLow(b, low)
  <2> HIDE DEF h
  <2> QED
    BY <1>7
<1> HIDE DEF low, h
<1>9. low[1] = Low(b, low, 1) /\ low[2] = Low(b, low, 2)
  <2>1. 1 \in 1 .. Len(b) /\ 2 \in 1 .. Len(b)
    BY <1>1
  <2> QED
    BY <1>8, <2>1, LowAt
<1>10. low[2] = c
  BY <1>5, <1>6, <1>9
<1>11. DecodeUtf8(b) = Decoded(c, 2)
  <2>1. DecodeUtf8(b) = Decoded(low[Len(b)], Len(b))
    BY DecodeUnfold, Zenon DEF low
  <2> QED
    BY <1>1, <1>10, <2>1, Zenon
<1>12. Decoded(c, 2) = c
  <2>1. LeastOf(2) = 128
    BY DEF LeastOf
  <2>2. ~(c < 128) /\ ~(c \in 55296 .. 57343) /\ ~(c > 1114111)
    BY SMTT(40) DEF TwoByteCodes
  <2> QED
    BY <2>1, <2>2 DEF Decoded
<1> QED
  BY <1>11, <1>12 DEF b

\* A lead byte and a continuation byte are one known key.
LEMMA TwoBytesKnown ==
  ASSUME NEW bytes, NEW a \in LeadBytes, NEW b \in Continuations, IsPair(bytes, a, b),
         NEW c \in Nat, DecodeUtf8(bytes) = c
  PROVE  Pressed(bytes, Char(c)) \in KnownKeys
<1> DEFINE k == Pressed(bytes, Char(c))
           p == EnterUtf8(Ground, <<a>>, Utf8Length(a))
           run == [i \in 0 .. 2 |-> IF i = 1 THEN p ELSE Ground]
<1>0. <<a>> \in Seq(Nat) /\ 2 \in Nat /\ a \in 192 .. 223 /\ b \in 128 .. 191
  BY DEF LeadBytes, Continuations
<1>3. bytes \in Seq(Nat) /\ bytes # <<>> /\ Len(bytes) = 2 /\ bytes[1] = a /\ bytes[2] = b /\ bytes = Append(<<a>>, b)
  BY <1>0 DEF IsPair
<1>4. k \in Key /\ k.act = Char(c) /\ k.bytes = bytes /\ Char(c) \in Actions /\ Char(c).type # "UNKNOWN"
  BY <1>3, CharType DEF Pressed, Key
<1>5. Utf8Length(a) = 2
  BY <1>0 DEF Utf8Length
<1>6. ParseByte(Ground, a) = Gives(p, UNKNOWN)
  <2>1. ~(\E d \in ControlKeys : d[1] = a)
    BY <1>0 DEF ControlKeys
  <2>2. a # ESC /\ ~(a \in 32 .. 126) /\ Utf8Length(a) > 0
    BY <1>0, <1>5 DEF ESC
  <2> QED
    BY <2>1, <2>2, GroundFields, ZenonT(40) DEF ParseByte, EnterUtf8
<1> HIDE DEF p, k, run
<1>7. /\ p \in Parsers /\ p.inUtf8 /\ p.utf8 = <<a>> /\ p.expected = 2
      /\ ~p.inEscape /\ p.esc = <<>>
  <2> DEFINE e == <<a>>
             n == Utf8Length(a)
             r == EnterUtf8(Ground, e, n)
  <2>1. e = <<a>> /\ n = 2 /\ r = p
    BY <1>5 DEF p
  <2>2. e \in Seq(Nat)
    BY <1>0
  <2>3. n \in Nat
    BY <1>0, <1>5
  <2> HIDE DEF e, n
  <2>4. r \in Parsers /\ ~r.inEscape /\ r.esc = <<>> /\ r.inUtf8 /\ r.utf8 = e /\ r.expected = n
    BY <2>2, <2>3, EnterUtf8Is, ZenonT(40)
  <2> HIDE DEF r
  <2> QED
    BY <2>1, <2>4
<1>8. LeaveUtf8(p) = Ground
  <2> DEFINE r == LeaveUtf8(p)
  <2>1. r \in Parsers /\ ~r.inEscape /\ r.esc = <<>> /\ ~r.inUtf8 /\ r.utf8 = <<>> /\ r.expected = 0
    BY <1>7, LeaveUtf8Is
  <2> HIDE DEF r
  <2>2. r = Ground
    BY <2>1, GroundAgain
  <2> QED
    BY <2>2 DEF r
<1>9. ParseByte(p, b) = Gives(Ground, Char(c))
  <2>1. Append(p.utf8, b) = bytes /\ Len(bytes) = p.expected
    BY <1>3, <1>7
  <2>2. ParseByte(p, b) = Utf8Continuation(p, b)
    BY <1>7, Zenon DEF ParseByte
  <2>3. Utf8Continuation(p, b)
          = Gives(LeaveUtf8(p), Char(DecodeUtf8(bytes)))
    BY <2>1, Zenon DEF Utf8Continuation, LeaveUtf8, Continuations
  <2> QED
    BY <1>8, <2>2, <2>3
<1>10. InSequence(p)
  BY <1>7 DEF InSequence
<1>11. run[0] = Ground /\ run[1] = p /\ run[2] = Ground
  BY DEF run
<1>12. Run(k, run)
  <2>1. \A i \in 0 .. 1 : i = 0 \/ i = 1
    OBVIOUS
  <2>2. ParseByte(run[0], k.bytes[1]) = Gives(run[1], UNKNOWN)
    BY <1>3, <1>4, <1>6, <1>11
  <2>3. ParseByte(run[1], k.bytes[2]) = Gives(run[2], k.act)
    BY <1>3, <1>4, <1>9, <1>11
  <2>4. \A i \in 0 .. 1 : ParseByte(run[i], k.bytes[i + 1]) = Gives(run[i + 1], IF i + 1 = 2 THEN k.act ELSE UNKNOWN)
    BY <2>1, <2>2, <2>3
  <2> QED
    BY <1>3, <1>4, <1>10, <1>11, <2>4 DEF Run
<1> QED
  BY <1>3, <1>4, <1>12 DEF KnownKeys, k

\* A character of two bytes in UTF-8 is heard as its code point
\* (parse_utf8_continuation, decode_utf8_sequence).
THEOREM TwoByteKeysKnown ==
  ASSUME NEW c \in TwoByteCodes
  PROVE  Pressed(TwoBytes(c), Char(c)) \in KnownKeys
<1> DEFINE a == 192 + (c \div 64)
           b == 128 + (c % 64)
<1>1. a \in LeadBytes /\ b \in Continuations /\ c \in Nat
  BY DEF TwoByteCodes, LeadBytes, Continuations
<1>2. IsPair(TwoBytes(c), a, b)
  BY DEF TwoBytes, IsPair
<1>3. DecodeUtf8(TwoBytes(c)) = c
  BY TwoBytesDecode, Zenon
<1> DEFINE bytes == TwoBytes(c)
<1>4. IsPair(bytes, a, b) /\ DecodeUtf8(bytes) = c
  BY <1>2, <1>3
<1> HIDE DEF a, b, bytes
<1>5. Pressed(bytes, Char(c)) \in KnownKeys
  BY <1>1, <1>4, TwoBytesKnown, Zenon
<1> QED
  BY <1>5, Zenon DEF bytes

=============================================================================
