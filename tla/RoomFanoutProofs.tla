--------------------------- MODULE RoomFanoutProofs ---------------------------
(***************************************************************************)
(* What RoomFanout guarantees of every browser, for any number of browsers, *)
(* updates and connections and any water marks.                             *)
(***************************************************************************)
EXTENDS RoomFanout, TLAPS

-----------------------------------------------------------------------------
(* The updates carried by a sequence of frames *)

Carried(f) == IF f.kind = "update" THEN f.upd ELSE {}

\* What a socket carries after one more frame was sent.
LEMMA ComingAppend ==
  ASSUME NEW b \in Seq(Frame), NEW f \in Frame
  PROVE  Coming(Append(b, f)) = Coming(b) \cup Carried(f)
<1> DEFINE a == Append(b, f)
<1>1. /\ DOMAIN a = 1..Len(b) + 1 /\ DOMAIN b = 1..Len(b) /\ Len(b) \in Nat
      /\ \A i \in 1..Len(b) : a[i] = b[i]
      /\ a[Len(b) + 1] = f
  OBVIOUS
<1> HIDE DEF a
<1>2. Coming(a) \subseteq Coming(b) \cup Carried(f)
  BY <1>1 DEF Coming, Carried
<1>3. Coming(b) \subseteq Coming(a)
  BY <1>1 DEF Coming
<1>4. Carried(f) \subseteq Coming(a)
  BY <1>1 DEF Coming, Carried
<1> QED BY <1>2, <1>3, <1>4 DEF a

\* What a socket carries is the head and what the rest carries.
LEMMA ComingTail ==
  ASSUME NEW b \in Seq(Frame), b # <<>>
  PROVE  Coming(b) = Carried(Head(b)) \cup Coming(Tail(b))
<1> DEFINE t == Tail(b)
<1>1. /\ DOMAIN b = 1..Len(b) /\ DOMAIN t = 1..Len(b) - 1 /\ Len(b) \in Nat \ {0}
      /\ \A i \in 1..Len(b) - 1 : t[i] = b[i + 1]
      /\ Head(b) = b[1]
  OBVIOUS
<1> HIDE DEF t
<1>2. Coming(b) \subseteq Carried(Head(b)) \cup Coming(t)
  <2> SUFFICES ASSUME NEW i \in DOMAIN b, b[i].kind = "update", NEW x \in b[i].upd
               PROVE  x \in Carried(Head(b)) \cup Coming(t)
    BY DEF Coming
  <2>1. CASE i = 1
    BY <2>1, <1>1 DEF Carried
  <2>2. CASE i # 1
    <3>1. i - 1 \in DOMAIN t /\ t[i - 1] = b[i]
      BY <2>2, <1>1
    <3> QED BY <3>1 DEF Coming
  <2> QED BY <2>1, <2>2
<1>3. Coming(t) \subseteq Coming(b)
  <2> SUFFICES ASSUME NEW i \in DOMAIN t, t[i].kind = "update", NEW x \in t[i].upd
               PROVE  x \in Coming(b)
    BY DEF Coming
  <2>1. i + 1 \in DOMAIN b /\ b[i + 1] = t[i]
    BY <1>1
  <2> QED BY <2>1 DEF Coming
<1>4. Carried(Head(b)) \subseteq Coming(b)
  BY <1>1 DEF Coming, Carried
<1> QED BY <1>2, <1>3, <1>4 DEF t

-----------------------------------------------------------------------------
(* The invariant *)

\* A browser sends only what its own document holds, and state vectors of it.
SendsOwn ==
  \A c \in Clients :
    /\ \A i \in DOMAIN inbox[c] : inbox[c][i].upd \subseteq local[c]
    /\ \A h \in appending[c] : h.upd \subseteq local[c]

\* As OnlyOverrunsMissing, also while paused, until a frame is skipped and counted.
MissingAccounted ==
  \A c \in Clients :
    Open(c) /\ lastKnown[c] # None /\ ~(paused[c] /\ skipped[c])
      => doc \ Has(c) \subseteq overrun[c]

\* A connection starts without a state vector.
FreshWhenDown == \A c \in Clients : link[c] = "down" => lastKnown[c] = None

Safety == KnownIsHeld /\ SendsOwn /\ MissingAccounted /\ FreshWhenDown
IInv == TypeOK /\ Safety

LEMMA InitInv == Init => IInv
<1> SUFFICES ASSUME Init PROVE IInv
  OBVIOUS
<1>1. TypeOK
  BY FanoutAssumption DEF Init, TypeOK, Docs
<1>2. Safety
  BY DEF Init, Safety, KnownIsHeld, SendsOwn, MissingAccounted, FreshWhenDown, Open
<1> QED BY <1>1, <1>2 DEF IInv

\* Broadcasting keeps the types.
LEMMA BroadcastTypes ==
  ASSUME TypeOK, NEW u \in Docs, NEW d \in Docs, NEW to \in SUBSET Clients, NEW late,
         Broadcast(u, d, to, late)
  PROVE  /\ buffer' \in [Clients -> Seq(Frame)]
         /\ lastKnown' \in [Clients -> {None} \cup Docs]
         /\ paused' \in [Clients -> BOOLEAN]
         /\ skipped' \in [Clients -> BOOLEAN]
         /\ overrun' \in [Clients -> Docs]
         /\ link' \in [Clients -> {"down", "joined", "ready", "closing"}]
<1> USE DEF TypeOK, Broadcast
<1>1. buffer' \in [Clients -> Seq(Frame)]
  <2>1. Up(u) \in Frame /\ \A c \in Clients : Up(d \ Known(c)) \in Frame
    BY DEF Up, Frame, Docs
  <2> DEFINE Fs == Seq(Frame)
  <2>2. \A b \in Fs, f \in Frame : Append(b, f) \in Fs
    OBVIOUS
  <2>3. buffer \in [Clients -> Fs]
    OBVIOUS
  <2> HIDE DEF Fs
  <2>4. ASSUME NEW c \in Clients PROVE buffer'[c] \in Fs
    <3>1. /\ Append(buffer[c], Up(u)) \in Fs
          /\ Append(Append(buffer[c], Up(d \ Known(c))), Up(u)) \in Fs
      BY <2>1, <2>2, <2>3
    <3> QED BY <2>3, <3>1
  <2>5. DOMAIN buffer' = Clients /\ buffer' = [c \in Clients |-> buffer'[c]]
    BY DEF Broadcast
  <2> QED BY <2>4, <2>5 DEF Fs
<1>2. lastKnown' \in [Clients -> {None} \cup Docs]
  OBVIOUS
<1>3. paused' \in [Clients -> BOOLEAN] /\ skipped' \in [Clients -> BOOLEAN]
  BY DEF Pauses, Stuck
<1>4. overrun' \in [Clients -> Docs]
  BY DEF Docs
<1>5. link' \in [Clients -> {"down", "joined", "ready", "closing"}]
  OBVIOUS
<1> QED BY <1>1, <1>2, <1>3, <1>4, <1>5

LEMMA TypeInductive == TypeOK /\ SendsOwn /\ [Next]_vars => TypeOK'
<1> SUFFICES ASSUME TypeOK, SendsOwn, [Next]_vars PROVE TypeOK'
  OBVIOUS
<1> USE FanoutAssumption DEF TypeOK
<1>1. ASSUME NEW c \in Clients, Connect(c) PROVE TypeOK'
  <2>1. AuthSuccess \in Frame /\ Step1(doc) \in Frame
    BY DEF AuthSuccess, Step1, Frame, Docs
  <2> QED BY <1>1, <2>1 DEF Connect, pressure
<1>2. ASSUME NEW c \in Clients, NEW u \in Updates, Edit(c, u) PROVE TypeOK'
  <2>1. Up({u}) \in Frame
    BY DEF Up, Frame, Docs
  <2> QED BY <1>2, <2>1 DEF Edit, pressure, Docs
<1>3. ASSUME NEW c \in Clients, Receive(c) PROVE TypeOK'
  <2>1. Head(buffer[c]) \in Frame /\ Tail(buffer[c]) \in Seq(Frame)
    BY <1>3 DEF Receive
  <2>2. Step1(local[c]) \in Frame /\ Up(local[c] \ Head(buffer[c]).upd) \in Frame
    BY DEF Step1, Up, Frame, Docs
  <2>3. local[c] \cup Head(buffer[c]).upd \in Docs
    BY <2>1 DEF Frame, Docs
  <2> QED BY <1>3, <2>1, <2>2, <2>3 DEF Receive, pressure
<1>4. ASSUME NEW c \in Clients, Close(c) PROVE TypeOK'
  BY <1>4 DEF Close, Docs
<1>5. ASSUME NEW c \in Clients, Track(c) PROVE TypeOK'
  BY <1>5 DEF Track, pressure
<1>6. ASSUME NEW c \in Clients, Drop(c) PROVE TypeOK'
  BY <1>6 DEF Drop, pressure
<1>7. ASSUME NEW c \in Clients, AnswerStep1(c) PROVE TypeOK'
  <2>1. Head(inbox[c]) \in Frame
    BY <1>7 DEF AnswerStep1
  <2>2. Head(inbox[c]).upd \in Docs /\ Up(doc \ Head(inbox[c]).upd) \in Frame
    BY <2>1 DEF Up, Frame, Docs
  <2> QED BY <1>7, <2>2 DEF AnswerStep1
<1>8. ASSUME NEW c \in Clients, StartAppend(c) PROVE TypeOK'
  <2>1. Head(inbox[c]) \in Frame
    BY <1>8 DEF StartAppend
  <2>2. Head(inbox[c]).upd \in Docs
    BY <2>1 DEF Frame
  <2> QED BY <1>8, <2>2 DEF StartAppend, pressure
<1>9. ASSUME NEW c \in Clients, NEW h \in appending[c], AppendFails(c, h) PROVE TypeOK'
  BY <1>9 DEF AppendFails, sockets, pressure
<1>10. ASSUME NEW c \in Clients, NEW late \in SUBSET Clients, Awareness(c, late) PROVE TypeOK'
  <2>1. {} \in Docs /\ Others(c, connects[c]) \in SUBSET Clients
    BY DEF Docs, Others
  <2> QED BY <1>10, <2>1, BroadcastTypes DEF Awareness
<1>11. ASSUME NEW c \in Clients, NEW late \in SUBSET Clients, NEW h \in appending[c],
              Apply(c, h, late)
       PROVE  TypeOK'
  <2>1. h.upd \in Docs /\ doc \cup h.upd \in Docs /\ Others(c, h.conn) \in SUBSET Clients
    BY DEF Docs, Others
  <2> QED BY <1>11, <2>1, BroadcastTypes DEF Apply
<1>12. ASSUME UNCHANGED vars PROVE TypeOK'
  BY <1>12 DEF vars, sockets, pressure
<1> QED
  BY <1>1, <1>2, <1>3, <1>4, <1>5, <1>6, <1>7, <1>8, <1>9, <1>10, <1>11, <1>12 DEF Next

-----------------------------------------------------------------------------
(* The invariant is inductive *)

\* What a broadcast does to one browser.
LEMMA BroadcastOne ==
  ASSUME TypeOK, NEW u \in Docs, NEW d \in Docs, NEW to \in SUBSET Clients, NEW late,
         Broadcast(u, d, to, late), UNCHANGED local, NEW c \in Clients
  PROVE  /\ Has(c) \subseteq Has(c)'
         /\ c \in to /\ Sends(c) => u \subseteq Has(c)'
         /\ c \in to /\ Resumes(c) => u \subseteq Has(c)'
         /\ c \in to /\ CatchesUp(c) => d \ Known(c) \subseteq Has(c)'
<1>1. buffer[c] \in Seq(Frame) /\ Up(u) \in Frame /\ Up(d \ Known(c)) \in Frame
  BY DEF TypeOK, Up, Frame, Docs
<1>2. Carried(Up(u)) = u /\ Carried(Up(d \ Known(c))) = d \ Known(c)
  BY DEF Carried, Up
<1>3. Coming(Append(buffer[c], Up(u))) = Coming(buffer[c]) \cup u
  BY <1>1, <1>2, ComingAppend
<1>4. Coming(Append(Append(buffer[c], Up(d \ Known(c))), Up(u)))
        = Coming(buffer[c]) \cup (d \ Known(c)) \cup u
  <2>1. Append(buffer[c], Up(d \ Known(c))) \in Seq(Frame)
    BY <1>1
  <2> QED BY <1>1, <1>2, <2>1, ComingAppend
<1>5. buffer'[c] = IF c \notin to \/ Pauses(c) \/ Stuck(c) THEN buffer[c]
                   ELSE IF CatchesUp(c) THEN Append(Append(buffer[c], Up(d \ Known(c))), Up(u))
                   ELSE Append(buffer[c], Up(u))
  BY DEF Broadcast
<1>6. Len(buffer[c]) \in Nat
  BY <1>1
<1>7. Has(c)' = local[c] \cup Coming(buffer'[c])
  BY DEF Has
<1>8. CASE c \notin to \/ Pauses(c) \/ Stuck(c)
  BY <1>5, <1>6, <1>7, <1>8, FanoutAssumption DEF Has, Pauses, Stuck, Sends, Resumes, CatchesUp, TypeOK
<1>9. CASE ~(c \notin to \/ Pauses(c) \/ Stuck(c)) /\ CatchesUp(c)
  BY <1>4, <1>5, <1>7, <1>9 DEF Has
<1>10. CASE ~(c \notin to \/ Pauses(c) \/ Stuck(c)) /\ ~CatchesUp(c)
  BY <1>3, <1>5, <1>7, <1>10 DEF Has
<1> QED BY <1>8, <1>9, <1>10

\* A broadcast of u keeps the invariant, when the sockets it leaves out belong to
\* browsers that hold u.
LEMMA BroadcastKeeps ==
  ASSUME IInv, NEW u \in Docs, NEW to \in SUBSET Clients, NEW late,
         Broadcast(u, doc \cup u, to, late), doc' = doc \cup u, UNCHANGED local,
         \A c \in to : Open(c), \A c \in Clients \ to : Open(c) => u \subseteq local[c]
  PROVE  KnownIsHeld' /\ MissingAccounted' /\ FreshWhenDown'
<1> DEFINE d == doc \cup u
<1>1. TypeOK /\ KnownIsHeld /\ MissingAccounted /\ FreshWhenDown /\ d \in Docs
  BY DEF IInv, Safety, TypeOK, Docs
<1> SUFFICES ASSUME NEW c \in Clients
             PROVE  /\ lastKnown'[c] # None => lastKnown'[c] \subseteq Has(c)'
                    /\ Open(c)' /\ lastKnown'[c] # None /\ ~(paused'[c] /\ skipped'[c])
                         => d \ Has(c)' \subseteq overrun'[c]
                    /\ link'[c] = "down" => lastKnown'[c] = None
  BY DEF KnownIsHeld, MissingAccounted, FreshWhenDown
<1>2. /\ Has(c) \subseteq Has(c)'
      /\ c \in to /\ Sends(c) => u \subseteq Has(c)'
      /\ c \in to /\ Resumes(c) => u \subseteq Has(c)'
      /\ c \in to /\ CatchesUp(c) => d \ Known(c) \subseteq Has(c)'
  BY <1>1, BroadcastOne
<1>3. /\ lastKnown'[c] = IF c \in to /\ CatchesUp(c) THEN d ELSE lastKnown[c]
      /\ paused'[c] = IF c \in to THEN Pauses(c) \/ Stuck(c) ELSE paused[c]
      /\ skipped'[c] = IF c \in late \/ c \notin to \/ Sends(c) THEN skipped[c] ELSE Stuck(c)
      /\ overrun'[c] = IF c \in to /\ Pauses(c) THEN overrun[c] \cup u ELSE overrun[c]
      /\ link'[c] = IF c \in late THEN "closing" ELSE link[c]
  BY <1>1 DEF Broadcast, TypeOK
<1>4. Known(c) \subseteq Has(c)
  BY <1>1 DEF Known, KnownIsHeld
<1>5. local[c] \subseteq Has(c)
  BY DEF Has
<1>6. Open(c)' => Open(c) /\ c \notin late
  BY <1>3 DEF Open
<1>7. c \in to => Open(c)
  OBVIOUS
<1>8. c \in to => \/ Sends(c) /\ ~Pauses(c) /\ ~Stuck(c) /\ ~Resumes(c)
                  \/ Pauses(c) /\ ~Sends(c) /\ ~Stuck(c) /\ ~Resumes(c)
                  \/ Resumes(c) /\ ~Sends(c) /\ ~Pauses(c) /\ ~Stuck(c)
                  \/ Stuck(c) /\ ~Sends(c) /\ ~Pauses(c) /\ ~Resumes(c)
  <2>1. Len(buffer[c]) \in Nat /\ paused[c] \in BOOLEAN
    BY <1>1 DEF TypeOK
  <2> QED BY <2>1, FanoutAssumption DEF Sends, Pauses, Resumes, Stuck
<1>9. link'[c] = "down" => lastKnown'[c] = None
  BY <1>1, <1>3, <1>7 DEF FreshWhenDown, Open
<1>10. CASE c \in to /\ CatchesUp(c)
  <2>1. d \subseteq Has(c)'
    BY <1>2, <1>4, <1>10
  <2> QED BY <2>1, <1>3, <1>9, <1>10
<1>11. CASE c \notin to
  <2>1. Open(c) => d \ Has(c)' \subseteq doc \ Has(c)
    BY <1>2, <1>5, <1>11
  <2> QED BY <2>1, <1>1, <1>2, <1>3, <1>6, <1>9, <1>11 DEF KnownIsHeld, MissingAccounted
<1>12. CASE c \in to /\ Sends(c)
  <2>1. d \ Has(c)' \subseteq doc \ Has(c) /\ ~paused[c] /\ ~CatchesUp(c)
    BY <1>2, <1>12 DEF Sends, CatchesUp, Resumes
  <2> QED BY <2>1, <1>1, <1>2, <1>3, <1>6, <1>9, <1>12 DEF KnownIsHeld, MissingAccounted
<1>13. CASE c \in to /\ Pauses(c)
  <2>1. d \ Has(c)' \subseteq (doc \ Has(c)) \cup u /\ ~paused[c] /\ ~CatchesUp(c)
    BY <1>2, <1>13 DEF Pauses, CatchesUp, Resumes
  <2> QED BY <2>1, <1>1, <1>2, <1>3, <1>6, <1>9, <1>13 DEF KnownIsHeld, MissingAccounted
<1>14. CASE c \in to /\ Resumes(c) /\ ~CatchesUp(c)
  <2>1. d \ Has(c)' \subseteq doc \ Has(c) /\ ~skipped[c]
    BY <1>2, <1>14 DEF CatchesUp
  <2> QED BY <2>1, <1>1, <1>2, <1>3, <1>6, <1>9, <1>14 DEF KnownIsHeld, MissingAccounted
<1>15. CASE c \in to /\ Stuck(c)
  <2>1. ~CatchesUp(c)
    BY <1>8, <1>15 DEF CatchesUp
  <2>2. Open(c)' => paused'[c] /\ skipped'[c]
    BY <1>3, <1>6, <1>8, <1>15
  <2> QED BY <2>1, <2>2, <1>1, <1>2, <1>3, <1>9 DEF KnownIsHeld
<1> QED BY <1>8, <1>10, <1>11, <1>12, <1>13, <1>14, <1>15

-----------------------------------------------------------------------------
(* Frames on their way to the server *)

\* Every frame carries only what is in S.
Within(frames, S) == \A i \in DOMAIN frames : frames[i].upd \subseteq S

LEMMA WithinAppend ==
  ASSUME NEW b \in Seq(Frame), NEW f \in Frame, NEW S, NEW T,
         Within(b, S), S \subseteq T, f.upd \subseteq T
  PROVE  Within(Append(b, f), T)
<1>1. /\ DOMAIN Append(b, f) = 1..Len(b) + 1 /\ DOMAIN b = 1..Len(b) /\ Len(b) \in Nat
      /\ \A i \in 1..Len(b) : Append(b, f)[i] = b[i]
      /\ Append(b, f)[Len(b) + 1] = f
  OBVIOUS
<1>2. \A i \in 1..Len(b) + 1 : i \in 1..Len(b) \/ i = Len(b) + 1
  BY <1>1
<1> QED BY <1>1, <1>2 DEF Within

LEMMA WithinTail ==
  ASSUME NEW b \in Seq(Frame), b # <<>>, NEW S, Within(b, S)
  PROVE  Within(Tail(b), S) /\ Head(b).upd \subseteq S
<1>1. /\ DOMAIN Tail(b) = 1..Len(b) - 1 /\ DOMAIN b = 1..Len(b) /\ Len(b) \in Nat \ {0}
      /\ \A i \in 1..Len(b) - 1 : Tail(b)[i] = b[i + 1]
      /\ Head(b) = b[1]
  OBVIOUS
<1> QED BY <1>1 DEF Within

\* A browser keeps sending only its own updates and state vectors.
LEMMA SendsInductive == IInv /\ [Next]_vars => SendsOwn'
<1> SUFFICES ASSUME IInv, [Next]_vars PROVE SendsOwn'
  OBVIOUS
<1> DEFINE Own(c) == /\ Within(inbox[c], local[c])
                     /\ \A h \in appending[c] : h.upd \subseteq local[c]
<1>a. TypeOK /\ \A c \in Clients : Own(c)
  BY DEF IInv, Safety, SendsOwn, Within
<1> SUFFICES \A c \in Clients : Own(c)'
  BY DEF SendsOwn, Within
<1> HIDE DEF Own
<1>b. ASSUME NEW c \in Clients, inbox'[c] = inbox[c], local'[c] = local[c],
             appending'[c] \subseteq appending[c]
      PROVE  Own(c)'
  BY <1>a, <1>b DEF Own
<1>1. ASSUME NEW e \in Clients, Connect(e) PROVE \A c \in Clients : Own(c)'
  BY <1>1, <1>b DEF Connect
<1>2. ASSUME NEW e \in Clients, NEW u \in Updates, Edit(e, u) PROVE \A c \in Clients : Own(c)'
  <2> SUFFICES ASSUME NEW c \in Clients PROVE Own(c)'
    OBVIOUS
  <2>1. CASE c # e
    BY <1>2, <2>1, <1>a, <1>b DEF Edit, TypeOK
  <2>2. CASE c = e
    <3>1. /\ local'[c] = local[c] \cup {u} /\ appending'[c] = appending[c]
          /\ inbox'[c] = IF link[c] = "ready" THEN Append(inbox[c], Up({u})) ELSE inbox[c]
      BY <1>2, <2>2, <1>a DEF Edit, TypeOK
    <3>2. Up({u}) \in Frame /\ Up({u}).upd = {u} /\ inbox[c] \in Seq(Frame)
      BY <1>a DEF Up, Frame, Docs, TypeOK
    <3>3. Within(Append(inbox[c], Up({u})), local[c] \cup {u})
      <4>1. Within(inbox[c], local[c])
        BY <1>a DEF Own
      <4>2. local[c] \subseteq local[c] \cup {u} /\ Up({u}).upd \subseteq local[c] \cup {u}
        BY <3>2
      <4> QED BY <4>1, <4>2, <3>2, WithinAppend
    <3>4. Within(inbox[c], local[c] \cup {u})
      BY <1>a DEF Own, Within
    <3> QED BY <3>1, <3>3, <3>4, <1>a DEF Own
  <2> QED BY <2>1, <2>2
<1>3. ASSUME NEW e \in Clients, Receive(e) PROVE \A c \in Clients : Own(c)'
  <2> SUFFICES ASSUME NEW c \in Clients PROVE Own(c)'
    OBVIOUS
  <2>1. CASE c # e
    BY <1>3, <2>1, <1>a, <1>b DEF Receive, TypeOK
  <2>2. CASE c = e
    <3> DEFINE frame == Head(buffer[c])
    <3>1. /\ local'[c] = IF frame.kind = "update" THEN local[c] \cup frame.upd ELSE local[c]
          /\ appending'[c] = appending[c]
          /\ inbox'[c] = IF frame.kind = "auth" THEN Append(inbox[c], Step1(local[c]))
                         ELSE IF frame.kind = "step1"
                           THEN Append(inbox[c], Up(local[c] \ frame.upd))
                         ELSE inbox[c]
      BY <1>3, <2>2, <1>a DEF Receive, TypeOK
    <3>2. /\ Step1(local[c]) \in Frame /\ Step1(local[c]).upd = local[c]
          /\ Up(local[c] \ frame.upd) \in Frame
          /\ Up(local[c] \ frame.upd).upd \subseteq local[c]
          /\ inbox[c] \in Seq(Frame)
      BY <1>a DEF Up, Step1, Frame, Docs, TypeOK
    <3>3. /\ Within(Append(inbox[c], Step1(local[c])), local[c])
          /\ Within(Append(inbox[c], Up(local[c] \ frame.upd)), local[c])
      BY <3>2, <1>a, WithinAppend DEF Own
    <3>4. Within(inbox[c], local[c] \cup frame.upd)
      BY <1>a DEF Own, Within
    <3> HIDE DEF frame
    <3> QED BY <3>1, <3>3, <3>4, <1>a DEF Own
  <2> QED BY <2>1, <2>2
<1>4. ASSUME NEW e \in Clients, Close(e) PROVE \A c \in Clients : Own(c)'
  BY <1>4, <1>a DEF Close, TypeOK, Own, Within
<1>5. ASSUME NEW e \in Clients, Track(e) PROVE \A c \in Clients : Own(c)'
  BY <1>5, <1>b DEF Track
<1>t. ASSUME NEW e \in Clients, inbox[e] # <<>>, inbox' = [inbox EXCEPT ![e] = Tail(@)],
             UNCHANGED local,
             \A c \in Clients : \A h \in appending'[c] :
               h \in appending[c] \/ (c = e /\ h.upd = Head(inbox[e]).upd)
      PROVE  \A c \in Clients : Own(c)'
  <2>1. inbox[e] \in Seq(Frame)
    BY <1>a DEF TypeOK
  <2>2. Within(Tail(inbox[e]), local[e]) /\ Head(inbox[e]).upd \subseteq local[e]
    BY <2>1, <1>t, <1>a, WithinTail DEF Own
  <2>3. \A c \in Clients : inbox'[c] = IF c = e THEN Tail(inbox[e]) ELSE inbox[c]
    BY <1>t, <1>a DEF TypeOK
  <2> QED BY <2>2, <2>3, <1>t, <1>a DEF Own
<1>6. ASSUME NEW e \in Clients, Drop(e) PROVE \A c \in Clients : Own(c)'
  BY <1>6, <1>t DEF Drop
<1>7. ASSUME NEW e \in Clients, AnswerStep1(e) PROVE \A c \in Clients : Own(c)'
  BY <1>7, <1>t DEF AnswerStep1
<1>8. ASSUME NEW e \in Clients, StartAppend(e) PROVE \A c \in Clients : Own(c)'
  <2> DEFINE new == [conn |-> connects[e], upd |-> Head(inbox[e]).upd]
  <2>1. \A c \in Clients : appending'[c] = IF c = e THEN appending[c] \cup {new}
                                          ELSE appending[c]
    BY <1>8, <1>a DEF StartAppend, TypeOK
  <2>4. new.upd = Head(inbox[e]).upd
    OBVIOUS
  <2> HIDE DEF new
  <2>2. \A c \in Clients : \A h \in appending'[c] :
          h \in appending[c] \/ (c = e /\ h.upd = Head(inbox[e]).upd)
    BY <2>1, <2>4
  <2>3. inbox[e] # <<>> /\ inbox' = [inbox EXCEPT ![e] = Tail(@)] /\ UNCHANGED local
    BY <1>8 DEF StartAppend
  <2> QED BY <2>2, <2>3, <1>t
<1>9. ASSUME NEW e \in Clients, NEW h \in appending[e], AppendFails(e, h)
      PROVE  \A c \in Clients : Own(c)'
  BY <1>9, <1>b, <1>a DEF AppendFails, sockets, TypeOK
<1>10. ASSUME NEW e \in Clients, NEW late \in SUBSET Clients, Awareness(e, late)
       PROVE  \A c \in Clients : Own(c)'
  BY <1>10, <1>b DEF Awareness
<1>11. ASSUME NEW e \in Clients, NEW late \in SUBSET Clients, NEW h \in appending[e],
              Apply(e, h, late)
       PROVE  \A c \in Clients : Own(c)'
  BY <1>11, <1>b, <1>a DEF Apply, TypeOK
<1>12. ASSUME UNCHANGED vars PROVE \A c \in Clients : Own(c)'
  BY <1>12, <1>b DEF vars, sockets
<1> QED
  BY <1>1, <1>2, <1>3, <1>4, <1>5, <1>6, <1>7, <1>8, <1>9, <1>10, <1>11, <1>12 DEF Next

-----------------------------------------------------------------------------
(* What the browsers lack *)

Accounts == KnownIsHeld /\ MissingAccounted /\ FreshWhenDown

\* A step that takes nothing from a browser and opens no connection.
LEMMA QuietKeeps ==
  ASSUME IInv, UNCHANGED <<doc, paused, skipped, lastKnown, overrun>>,
         \A c \in Clients : /\ Has(c) \subseteq Has(c)'
                            /\ Open(c)' => Open(c)
                            /\ link'[c] = "down" => link[c] = "down"
  PROVE  Accounts'
BY DEF IInv, Safety, Accounts, KnownIsHeld, MissingAccounted, FreshWhenDown

LEMMA AccountsInductive == IInv /\ [Next]_vars => Accounts'
<1> SUFFICES ASSUME IInv, [Next]_vars PROVE Accounts'
  OBVIOUS
<1>a. TypeOK /\ KnownIsHeld /\ SendsOwn /\ MissingAccounted /\ FreshWhenDown
  BY DEF IInv, Safety
<1>1. ASSUME NEW e \in Clients, Connect(e) PROVE Accounts'
  <2>1. \A c \in Clients : c # e =>
          /\ Has(c)' = Has(c) /\ (Open(c)' <=> Open(c)) /\ link'[c] = link[c]
    BY <1>1, <1>a DEF Connect, Has, Open, TypeOK
  <2>2. lastKnown[e] = None /\ link'[e] = "joined"
    BY <1>1, <1>a DEF Connect, FreshWhenDown, TypeOK
  <2> QED BY <1>1, <1>a, <2>1, <2>2
          DEF Connect, pressure, Accounts, KnownIsHeld, MissingAccounted, FreshWhenDown
<1>2. ASSUME NEW e \in Clients, NEW u \in Updates, Edit(e, u) PROVE Accounts'
  <2>1. \A c \in Clients : Has(c) \subseteq Has(c)'
    BY <1>2, <1>a DEF Edit, Has, TypeOK
  <2> QED BY <1>2, <2>1, QuietKeeps DEF Edit, pressure, Open
<1>3. ASSUME NEW e \in Clients, Receive(e) PROVE Accounts'
  <2>1. ASSUME NEW c \in Clients, c # e PROVE Has(c) \subseteq Has(c)'
    BY <1>3, <1>a, <2>1 DEF Receive, Has, TypeOK
  <2>2. Has(e) \subseteq Has(e)'
    <3> DEFINE frame == Head(buffer[e])
    <3>1. /\ local'[e] = IF frame.kind = "update" THEN local[e] \cup frame.upd ELSE local[e]
          /\ buffer'[e] = Tail(buffer[e])
          /\ buffer[e] \in Seq(Frame) /\ buffer[e] # <<>>
      BY <1>3, <1>a DEF Receive, TypeOK
    <3>2. Coming(buffer[e]) = Carried(frame) \cup Coming(Tail(buffer[e]))
      BY <3>1, ComingTail
    <3>3. Has(e)' = local'[e] \cup Coming(buffer'[e])
      BY DEF Has
    <3> HIDE DEF frame
    <3> QED BY <3>1, <3>2, <3>3 DEF Has, Carried
  <2>3. \A c \in Clients : (Open(c)' => Open(c)) /\ (link'[c] = "down" => link[c] = "down")
    BY <1>3, <1>a DEF Receive, Open, TypeOK
  <2> QED BY <1>3, <2>1, <2>2, <2>3, QuietKeeps DEF Receive, pressure
<1>4. ASSUME NEW e \in Clients, Close(e) PROVE Accounts'
  <2>1. \A c \in Clients : c # e =>
          /\ Has(c)' = Has(c) /\ (Open(c)' <=> Open(c)) /\ link'[c] = link[c]
          /\ lastKnown'[c] = lastKnown[c] /\ paused'[c] = paused[c]
          /\ skipped'[c] = skipped[c] /\ overrun'[c] = overrun[c]
    BY <1>4, <1>a DEF Close, Has, Open, TypeOK
  <2>2. lastKnown'[e] = None
    BY <1>4, <1>a DEF Close, TypeOK
  <2> QED BY <1>4, <1>a, <2>1, <2>2
          DEF Close, Accounts, KnownIsHeld, MissingAccounted, FreshWhenDown
<1>5. ASSUME NEW e \in Clients, Track(e) PROVE Accounts'
  BY <1>5, QuietKeeps DEF Track, pressure, Has, Open
<1>6. ASSUME NEW e \in Clients, Drop(e) PROVE Accounts'
  BY <1>6, QuietKeeps DEF Drop, pressure, Has, Open
<1>7. ASSUME NEW e \in Clients, AnswerStep1(e) PROVE Accounts'
  <2> DEFINE sv == Head(inbox[e]).upd
  <2>1. \A c \in Clients : c # e =>
          /\ Has(c)' = Has(c) /\ lastKnown'[c] = lastKnown[c]
    BY <1>7, <1>a DEF AnswerStep1, Has, TypeOK
  <2>2. inbox[e] \in Seq(Frame) /\ inbox[e] # <<>> /\ buffer[e] \in Seq(Frame)
    BY <1>7, <1>a DEF AnswerStep1, TypeOK
  <2>3. sv \subseteq local[e]
    BY <2>2, <1>a DEF SendsOwn
  <2>4. Up(doc \ sv) \in Frame /\ Carried(Up(doc \ sv)) = doc \ sv
    BY <1>a DEF Up, Frame, Docs, Carried, TypeOK
  <2>5. Coming(Append(buffer[e], Up(doc \ sv))) = Coming(buffer[e]) \cup (doc \ sv)
    BY <2>2, <2>4, ComingAppend
  <2>6. buffer'[e] = Append(buffer[e], Up(doc \ sv)) /\ lastKnown'[e] = sv /\ local' = local
    BY <1>7, <1>a DEF AnswerStep1, TypeOK
  <2>7. Has(e)' = local[e] \cup Coming(buffer[e]) \cup (doc \ sv)
    BY <2>5, <2>6 DEF Has
  <2> HIDE DEF sv
  <2>8. sv \subseteq Has(e)' /\ doc \subseteq Has(e)'
    BY <2>3, <2>7
  <2>9. UNCHANGED <<doc, link, paused, skipped, overrun>> /\ link[e] # "down"
    BY <1>7 DEF AnswerStep1, Open
  <2> QED BY <1>a, <2>1, <2>6, <2>8, <2>9
          DEF Accounts, KnownIsHeld, MissingAccounted, FreshWhenDown, Open
<1>8. ASSUME NEW e \in Clients, StartAppend(e) PROVE Accounts'
  BY <1>8, QuietKeeps DEF StartAppend, pressure, Has, Open
<1>9. ASSUME NEW e \in Clients, NEW h \in appending[e], AppendFails(e, h) PROVE Accounts'
  BY <1>9, QuietKeeps DEF AppendFails, sockets, pressure, Has, Open
<1>10. ASSUME NEW e \in Clients, NEW late \in SUBSET Clients, Awareness(e, late) PROVE Accounts'
  <2> DEFINE to == Others(e, connects[e])
  <2>1. {} \in Docs /\ to \in SUBSET Clients /\ \A c \in to : Open(c)
    BY DEF Docs, Others
  <2>2. Broadcast({}, doc \cup {}, to, late) /\ doc' = doc \cup {} /\ UNCHANGED local
    BY <1>10 DEF Awareness
  <2> HIDE DEF to
  <2> QED BY <2>1, <2>2, BroadcastKeeps DEF Accounts
<1>11. ASSUME NEW e \in Clients, NEW late \in SUBSET Clients, NEW h \in appending[e],
              Apply(e, h, late)
       PROVE  Accounts'
  <2> DEFINE to == Others(e, h.conn)
  <2>1. h.upd \in Docs /\ to \in SUBSET Clients /\ \A c \in to : Open(c)
    BY <1>a DEF Others, TypeOK
  <2>2. \A c \in Clients \ to : Open(c) => h.upd \subseteq local[c]
    BY <1>a DEF Others, SendsOwn
  <2>3. Broadcast(h.upd, doc \cup h.upd, to, late) /\ doc' = doc \cup h.upd /\ UNCHANGED local
    BY <1>11 DEF Apply
  <2> HIDE DEF to
  <2> QED BY <2>1, <2>2, <2>3, BroadcastKeeps DEF Accounts
<1>12. ASSUME UNCHANGED vars PROVE Accounts'
  BY <1>12, QuietKeeps DEF vars, sockets, pressure, Has, Open
<1> QED
  BY <1>1, <1>2, <1>3, <1>4, <1>5, <1>6, <1>7, <1>8, <1>9, <1>10, <1>11, <1>12 DEF Next

LEMMA InvInductive == IInv /\ [Next]_vars => IInv'
BY TypeInductive, SendsInductive, AccountsInductive DEF IInv, Safety, Accounts

LEMMA Invariant == Spec => []IInv
BY InitInv, InvInductive, PTL DEF Spec

-----------------------------------------------------------------------------
(* The theorems *)

\* Every variable keeps its type: sockets and backpressure records stay well-formed.
THEOREM TypeCorrect == Spec => []TypeOK
<1>1. IInv => TypeOK
  BY DEF IInv
<1> QED BY <1>1, Invariant, PTL

\* The state vector kept for a browser covers nothing it was not sent, so the
\* catch-up diff of sendCatchupDiff() leaves out only what the browser has.
THEOREM HeldVectors == Spec => []KnownIsHeld
<1>1. IInv => KnownIsHeld
  BY DEF IInv, Safety
<1> QED BY <1>1, Invariant, PTL

\* A synchronised browser whose socket is not paused lacks at most the frames that
\* found its socket at the high-water mark.
THEOREM OnlyOverruns == Spec => []OnlyOverrunsMissing
<1>1. IInv => OnlyOverrunsMissing
  BY DEF IInv, Safety, MissingAccounted, OnlyOverrunsMissing
<1> QED BY <1>1, Invariant, PTL

\* A catch-up diff repairs everything: the socket that resumes after skipped frames
\* has, or is being sent, the whole document.
THEOREM Repairs == Spec => CatchUpRepairs
<1>1. IInv /\ [Next]_vars =>
        [\A c \in Clients :
           paused[c] /\ skipped[c] /\ ~paused'[c] /\ Open(c)' => doc' \subseteq Has(c)']_vars
  <2> SUFFICES ASSUME IInv, Next, NEW c \in Clients,
                      paused[c], skipped[c], ~paused'[c], Open(c)'
               PROVE  doc' \subseteq Has(c)'
    OBVIOUS
  <2>a. TypeOK /\ KnownIsHeld
    BY DEF IInv, Safety
  <2>b. ASSUME NEW u \in Docs, NEW d \in Docs, NEW to \in SUBSET Clients, NEW late,
               Broadcast(u, d, to, late), UNCHANGED local, doc' = d
        PROVE  doc' \subseteq Has(c)'
    <3>1. c \in to /\ ~Stuck(c)
      BY <2>a, <2>b DEF Broadcast, TypeOK
    <3>2. Len(buffer[c]) \in Nat
      BY <2>a DEF TypeOK
    <3>3. CatchesUp(c)
      BY <3>1, <3>2, FanoutAssumption DEF CatchesUp, Resumes, Stuck
    <3>4. Has(c) \subseteq Has(c)' /\ d \ Known(c) \subseteq Has(c)'
      BY <2>a, <2>b, <3>1, <3>3, BroadcastOne
    <3>5. Known(c) \subseteq Has(c)
      BY <2>a DEF Known, KnownIsHeld
    <3> QED BY <2>b, <3>4, <3>5
  <2>1. ASSUME NEW e \in Clients, NEW late \in SUBSET Clients, Awareness(e, late)
        PROVE  doc' \subseteq Has(c)'
    <3>1. {} \in Docs /\ doc \in Docs /\ Others(e, connects[e]) \in SUBSET Clients
      BY <2>a DEF Docs, Others, TypeOK
    <3> QED BY <2>1, <2>b, <3>1 DEF Awareness
  <2>2. ASSUME NEW e \in Clients, NEW late \in SUBSET Clients, NEW h \in appending[e],
               Apply(e, h, late)
        PROVE  doc' \subseteq Has(c)'
    <3>1. h.upd \in Docs /\ doc \cup h.upd \in Docs /\ Others(e, h.conn) \in SUBSET Clients
      BY <2>a DEF Docs, Others, TypeOK
    <3> QED BY <2>2, <2>b, <3>1 DEF Apply
  <2>3. ASSUME NEW e \in Clients, Close(e) PROVE FALSE
    BY <2>3, <2>a DEF Close, Open, TypeOK
  <2>4. ASSUME UNCHANGED paused PROVE FALSE
    BY <2>4
  <2> QED
    BY <2>1, <2>2, <2>3, <2>4
    DEF Next, Connect, Edit, Receive, Track, Drop, AnswerStep1, StartAppend, AppendFails, pressure
<1> QED BY <1>1, Invariant, PTL DEF Spec, CatchUpRepairs

=============================================================================
