-------------------------- MODULE EviCaptionProofs --------------------------
(***************************************************************************)
(* Theorems about EviCaption, for any number of processes and threads and  *)
(* any captions: types, honest caches, and what the panel shows.           *)
(***************************************************************************)
EXTENDS EviCaption, TLAPS

LEMMA CaptionFields ==
  ASSUME NEW k \in Caption
  PROVE  k.fn \in UiFn \cup U2Fn /\ k.a \in Texts /\ k.b \in Texts /\ k.n \in Int
  BY CaptionAssumption DEF CaptionAssumption

LEMMA KeyType == \A k \in Caption : Key(k) \in Keys
<1> SUFFICES ASSUME NEW k \in Caption PROVE Key(k) \in Keys
  OBVIOUS
<1>1. Kept(k.a) \in Texts \ {"NULL", "long"} /\ Kept(k.b) \in Texts \ {"NULL", "long"}
  BY CaptionFields DEF Kept, Texts
<1>2. Extra(k) \in Int
  BY CaptionFields DEF Extra
<1> QED
  BY <1>1, <1>2 DEF Key, Keys

LEMMA NoKeyType == NoKey \in Keys
  BY DEF NoKey, Keys, Texts

LEMMA FamilyType == \A k : Family(k) \in Families
  BY DEF Family, Families

LEMMA OfType == \A t \in Thread : Of(t) \in Process
  BY CaptionAssumption DEF CaptionAssumption, Of

LEMMA NoCallType == NoCall \in Caption
  BY CaptionAssumption DEF CaptionAssumption, NoCall

LEMMA InitType == Init => TypeOK
<1> SUFFICES ASSUME Init PROVE TypeOK
  OBVIOUS
<1> QED
  BY NoCallType, NoKeyType DEF Init, TypeOK

LEMMA NextType == TypeOK /\ [Next]_vars => TypeOK'
<1> SUFFICES ASSUME TypeOK, [Next]_vars PROVE TypeOK'
  OBVIOUS
<1> USE DEF TypeOK, Goto
<1>1. ASSUME NEW t \in Thread, Call(t) PROVE TypeOK'
  BY <1>1 DEF Call
<1>2. ASSUME NEW t \in Thread, Lock(t) PROVE TypeOK'
  BY <1>2, OfType DEF Lock
<1>3. ASSUME NEW t \in Thread, Check(t) PROVE TypeOK'
  BY <1>3 DEF Check
<1>4. ASSUME NEW t \in Thread, Clear(t) PROVE TypeOK'
  BY <1>4, FamilyType, OfType DEF Clear
<1>5. ASSUME NEW t \in Thread, Draw(t) PROVE TypeOK'
  BY <1>5 DEF Draw, Drawings
<1>6. ASSUME NEW t \in Thread, Keep(t) PROVE TypeOK'
  <2> DEFINE p == Of(t)
             f == Family(call[t])
  <2>1. p \in Process /\ f \in Families /\ call[t] \in Caption
    BY OfType, FamilyType
  <2>2. Key(call[t]) \in Keys /\ Drawing(call[t]) \in Drawings
    BY <2>1, KeyType DEF Drawings
  <2>3. cache' = [cache EXCEPT ![p][f] = Key(call[t])]
        /\ drawn' = [drawn EXCEPT ![p][f] = Drawing(call[t])]
    BY <1>6 DEF Keep
  <2> HIDE DEF p, f
  <2>4. cache' \in [Process -> [Families -> Keys]]
    BY <2>1, <2>2, <2>3
  <2>5. drawn' \in [Process -> [Families -> Drawings \cup {NoDrawing}]]
    BY <2>1, <2>2, <2>3
  <2> QED
    BY <1>6, <2>4, <2>5 DEF Keep
<1>7. ASSUME NEW t \in Thread, Unlock(t) PROVE TypeOK'
  BY <1>7, OfType, NoCallType DEF Unlock
<1>8. ASSUME NEW p \in Process, Restart(p) PROVE TypeOK'
  BY <1>8, NoKeyType, NoCallType DEF Restart
<1>9. CASE UNCHANGED vars
  BY <1>9 DEF vars
<1> QED
  BY <1>1, <1>2, <1>3, <1>4, <1>5, <1>6, <1>7, <1>8, <1>9 DEF Next, ThreadStep

(* The state of threads, mutexes, caches and panel is well typed.          *)
THEOREM TypeCorrect == Spec => []TypeOK
  BY InitType, NextType, PTL DEF Spec

-----------------------------------------------------------------------------
(* A cache is empty, or the key of the caption whose drawing it stands for.*)
StandsFor(p, f, k) == Family(k) = f /\ cache[p][f] = Key(k) /\ drawn[p][f] = Drawing(k)

Keyed ==
  \A p \in Process, f \in Families :
    cache[p][f] = NoKey \/ \E k \in Caption : StandsFor(p, f, k)

LEMMA KeyedInit == Init => Keyed
  BY DEF Init, Keyed

LEMMA KeyedNext == TypeOK /\ Keyed /\ [Next]_vars => Keyed'
<1> SUFFICES ASSUME TypeOK, Keyed, [Next]_vars,
                    NEW p \in Process, NEW f \in Families
             PROVE  cache'[p][f] = NoKey \/ \E k \in Caption : StandsFor(p, f, k)'
  BY DEF Keyed
<1> USE DEF TypeOK, StandsFor
<1>0. cache[p][f] = NoKey \/ \E k \in Caption : StandsFor(p, f, k)
  BY DEF Keyed
<1>1. CASE UNCHANGED <<cache, drawn>>
  BY <1>0, <1>1
<1>2. ASSUME NEW t \in Thread, Keep(t)
      PROVE  cache'[p][f] = NoKey \/ \E k \in Caption : StandsFor(p, f, k)'
  <2> DEFINE q == Of(t)
             g == Family(call[t])
  <2>1. q \in Process /\ g \in Families /\ call[t] \in Caption
    BY OfType, FamilyType
  <2>2. cache' = [cache EXCEPT ![q][g] = Key(call[t])]
        /\ drawn' = [drawn EXCEPT ![q][g] = Drawing(call[t])]
    BY <1>2 DEF Keep
  <2>3. CASE p = q /\ f = g
    <3>1. cache'[p][f] = Key(call[t]) /\ drawn'[p][f] = Drawing(call[t])
      <4> HIDE DEF q, g
      <4> QED
        BY <2>1, <2>2, <2>3
    <3> QED
      BY <2>1, <2>3, <3>1
  <2>4. CASE ~(p = q /\ f = g)
    <3>1. cache'[p][f] = cache[p][f] /\ drawn'[p][f] = drawn[p][f]
      <4> HIDE DEF q, g
      <4> QED
        BY <2>1, <2>2, <2>4
    <3> QED
      BY <1>0, <3>1
  <2> QED
    BY <2>3, <2>4
<1>3. ASSUME NEW q \in Process, Restart(q)
      PROVE  cache'[p][f] = NoKey \/ \E k \in Caption : StandsFor(p, f, k)'
  BY <1>0, <1>3 DEF Restart
<1>4. ASSUME NEW t \in Thread,
             Call(t) \/ Lock(t) \/ Check(t) \/ Clear(t) \/ Draw(t) \/ Unlock(t)
      PROVE  UNCHANGED <<cache, drawn>>
  BY <1>4 DEF Call, Lock, Check, Clear, Draw, Unlock
<1>5. CASE UNCHANGED vars
  BY <1>1, <1>5 DEF vars
<1> QED
  BY <1>1, <1>2, <1>3, <1>4, <1>5 DEF Next, ThreadStep

LEMMA FittingOf == \A i, x, y : Fitting(<<i, x, y>>) = <<i, Kept(x), Kept(y)>>
  BY DEF Fitting

(* need() is FALSE only for the caption a key was made of, up to the cut.  *)
LEMMA SkipMeansSame ==
  ASSUME NEW k \in Caption, NEW j \in Caption, ~Need(k, Key(j))
  PROVE  Fitting(Drawing(j)) = Drawing(k)
<1>1. /\ Id(j) = Id(k) /\ Extra(j) = Extra(k)
      /\ k.a # "NULL" /\ k.a = Kept(j.a) /\ k.b # "NULL" /\ k.b = Kept(j.b)
  BY DEF Need, Same, Key
<1>2. j.fn = k.fn
  BY <1>1 DEF Id
<1>3. \A x \in Texts : Kept(Visible(x)) = Kept(x)
  BY DEF Kept, Visible, Texts
<1>4. Visible(k.a) = k.a /\ Visible(k.b) = k.b
  BY <1>1 DEF Visible
<1>5. j.a \in Texts /\ j.b \in Texts
  BY CaptionFields
<1>6. CASE k.fn \in {"info1", "info2", "info3", "info4"}
  <2>1. Drawing(j) = <<Id(j), Visible(j.a), Visible(j.b)>>
    BY <1>2, <1>6 DEF Drawing
  <2>2. Drawing(k) = <<Id(k), Visible(k.a), Visible(k.b)>>
    BY <1>6 DEF Drawing
  <2> QED
    BY <1>1, <1>3, <1>4, <1>5, <2>1, <2>2 DEF Fitting
<1>7. Kept("") = "" /\ Kept("delay") = "delay"
  BY DEF Kept
<1>8. CASE k.fn \in {"getMValue", "dispComplete"}
  BY <1>2, <1>7, <1>8 DEF Drawing, Fitting
<1>9. CASE k.fn = "standby"
  BY <1>1, <1>2, <1>7, <1>9 DEF Drawing, Fitting, Extra
<1>10. CASE k.fn \notin {"info1", "info2", "info3", "info4", "getMValue", "dispComplete", "standby"}
  <2>1. Drawing(j) = <<Id(j), "", "">> /\ Drawing(k) = <<Id(k), "", "">>
    BY <1>2, <1>10 DEF Drawing
  <2>2. Fitting(Drawing(j)) = <<Id(j), Kept(""), Kept("")>>
    BY <2>1, FittingOf
  <2> QED
    BY <1>1, <1>7, <2>1, <2>2
<1> QED
  BY <1>6, <1>8, <1>9, <1>10

LEMMA EmptyNeeds == \A k \in Caption : Need(k, NoKey)
<1> SUFFICES ASSUME NEW k \in Caption PROVE Id(k) # <<"none", "">>
  BY DEF Need, NoKey
<1>1. k.fn # "none"
  BY CaptionFields DEF UiFn, U2Fn
<1> QED
  BY <1>1 DEF Id

LEMMA KeyedHonest == TypeOK /\ Keyed => CacheHonest
<1> SUFFICES ASSUME TypeOK, Keyed, NEW p \in Process, NEW f \in Families, NEW k \in Caption,
                    ~Need(k, cache[p][f])
             PROVE  Fitting(drawn[p][f]) = Drawing(k)
  BY DEF CacheHonest
<1>1. PICK j \in Caption : StandsFor(p, f, j)
  BY EmptyNeeds DEF Keyed
<1> QED
  BY <1>1, SkipMeansSame DEF StandsFor

(* Whatever texts are shown by however many threads and processes, a call  *)
(* that is cut short asks for what its process has drawn.                  *)
THEOREM CachesHonest == Spec => []CacheHonest
  BY InitType, NextType, KeyedInit, KeyedNext, KeyedHonest, PTL DEF Spec

-----------------------------------------------------------------------------
(* The panel.                                                              *)
Inside == {"check", "clear", "draw", "keep", "unlock"}

Mutex == \A t \in Thread : pc[t] \in Inside <=> lock[Of(t)] = t

(* Texts that need() can find kept.                                        *)
Fits(k) == {k.a, k.b} \cap {"NULL", "long"} = {}

(* The cache of k's file stands for what k asks for.                       *)
Shows(p, k) ==
  /\ cache[p][Family(k)] # NoKey
  /\ Fitting(drawn[p][Family(k)]) = Fitting(Drawing(k))
  /\ Fits(k) => cache[p][Family(k)] = Key(k)

(* Until two processes draw at once, the one that cleared the panel last   *)
(* draws on it alone.                                                      *)
CallInv ==
  \A t \in Thread :
    /\ pc[t] = "clear" => Need(call[t], cache[Of(t)][Family(call[t])])
    /\ pc[t] = "draw" /\ owner # None => screen = {} /\ owner = <<Of(t), Family(call[t])>>
    /\ \A f \in Families :
         pc[t] = "keep" /\ owner = <<Of(t), f>> =>
           f = Family(call[t]) /\ screen = {Drawing(call[t])}
    /\ pc[t] = "unlock" => Shows(Of(t), call[t])

(* The screen is what the cache of its owner stands for.                   *)
ScreenInv ==
  \A p \in Process, f \in Families :
    /\ owner = <<p, f>>
    /\ \A t \in Thread : Of(t) = p => pc[t] \notin {"draw", "keep"}
    /\ cache[p][f] # NoKey
    => screen = {drawn[p][f]}

LastInv ==
  \A p \in Process :
    last[p] # None /\ (\A t \in Thread : Of(t) = p => pc[t] # "unlock") =>
      Shows(p, last[p])

LEMMA MutexInit == Init => Mutex
  BY OfType, CaptionAssumption DEF Init, Mutex, Inside, CaptionAssumption

LEMMA MutexNext == TypeOK /\ Mutex /\ [Next]_vars => Mutex'
<1> SUFFICES ASSUME TypeOK, Mutex, [Next]_vars, NEW u \in Thread
             PROVE  pc'[u] \in Inside <=> lock'[Of(u)] = u
  BY DEF Mutex
<1> USE OfType DEF TypeOK, Goto
<1>0. pc[u] \in Inside <=> lock[Of(u)] = u
  BY DEF Mutex
<1>1. ASSUME NEW t \in Thread, Call(t) PROVE pc'[u] \in Inside <=> lock'[Of(u)] = u
  BY <1>0, <1>1 DEF Call, Inside
<1>2. ASSUME NEW t \in Thread, Lock(t) PROVE pc'[u] \in Inside <=> lock'[Of(u)] = u
  <2>1. None # u
    BY CaptionAssumption DEF CaptionAssumption
  <2> QED
    BY <1>0, <1>2, <2>1 DEF Lock, Inside
<1>3. ASSUME NEW t \in Thread, Check(t) \/ Clear(t) \/ Draw(t) \/ Keep(t)
      PROVE  pc'[u] \in Inside <=> lock'[Of(u)] = u
  <2>1. lock' = lock /\ pc[t] \in Inside /\ pc'[t] \in Inside
        /\ \A x \in Thread \ {t} : pc'[x] = pc[x]
    BY <1>3 DEF Check, Clear, Draw, Keep, Inside
  <2> QED
    BY <1>0, <2>1
<1>4. ASSUME NEW t \in Thread, Unlock(t) PROVE pc'[u] \in Inside <=> lock'[Of(u)] = u
  <2>1. None # u
    BY CaptionAssumption DEF CaptionAssumption
  <2>2. lock[Of(t)] = t
    BY <1>4 DEF Unlock, Mutex, Inside
  <2> QED
    BY <1>0, <1>4, <2>1, <2>2 DEF Unlock, Inside
<1>5. ASSUME NEW p \in Process, Restart(p) PROVE pc'[u] \in Inside <=> lock'[Of(u)] = u
  <2>1. None # u
    BY CaptionAssumption DEF CaptionAssumption
  <2> QED
    BY <1>0, <1>5, <2>1 DEF Restart, Inside, Of
<1>6. CASE UNCHANGED vars
  BY <1>0, <1>6 DEF vars
<1> QED
  BY <1>1, <1>2, <1>3, <1>4, <1>5, <1>6 DEF Next, ThreadStep

LEMMA FittingTwice == \A d : Fitting(Fitting(d)) = Fitting(d)
<1>1. \A x : Kept(Kept(x)) = Kept(x)
  BY DEF Kept
<1> SUFFICES ASSUME NEW d PROVE Fitting(Fitting(d)) = Fitting(d)
  OBVIOUS
<1>2. Fitting(d) = <<d[1], Kept(d[2]), Kept(d[3])>>
  BY DEF Fitting
<1>3. Fitting(<<d[1], Kept(d[2]), Kept(d[3])>>) = <<d[1], Kept(Kept(d[2])), Kept(Kept(d[3]))>>
  BY FittingOf
<1> QED
  BY <1>1, <1>2, <1>3

(* A call that is cut short finds its drawing.                             *)
LEMMA SkipShows ==
  ASSUME TypeOK, Keyed, NEW p \in Process, NEW k \in Caption, ~Need(k, cache[p][Family(k)])
  PROVE  Shows(p, k)
<1>1. PICK j \in Caption : StandsFor(p, Family(k), j)
  BY EmptyNeeds, FamilyType DEF Keyed
<1>2. Fitting(Drawing(j)) = Drawing(k)
  BY <1>1, SkipMeansSame DEF StandsFor
<1>3. Fitting(drawn[p][Family(k)]) = Fitting(Drawing(k))
  BY <1>1, <1>2, FittingTwice DEF StandsFor
<1>4. cache[p][Family(k)] # NoKey
  BY EmptyNeeds
<1>5. ASSUME Fits(k) PROVE Key(j) = Key(k)
  <2>1. Id(j) = Id(k) /\ Extra(j) = Extra(k) /\ k.a = Kept(j.a) /\ k.b = Kept(j.b)
    BY <1>1 DEF StandsFor, Need, Same, Key
  <2>2. Kept(k.a) = k.a /\ Kept(k.b) = k.b
    BY <1>5 DEF Fits, Kept
  <2> QED
    BY <2>1, <2>2 DEF Key
<1> QED
  BY <1>1, <1>3, <1>4, <1>5 DEF Shows, StandsFor

LEMMA KeyIsNotEmpty == \A k \in Caption : Key(k) # NoKey
<1> SUFFICES ASSUME NEW k \in Caption PROVE Id(k) # <<"none", "">>
  BY DEF Key, NoKey
<1>1. k.fn # "none"
  BY CaptionFields DEF UiFn, U2Fn
<1> QED
  BY <1>1 DEF Id

PanelInv == CallInv /\ ScreenInv /\ LastInv

LEMMA PanelInit == Init => PanelInv
  BY OfType DEF Init, PanelInv, CallInv, ScreenInv, LastInv

LEMMA OwnerNotNone == \A p \in Process, f \in Families : <<p, f>> # None
  BY CaptionAssumption DEF CaptionAssumption

(* What keep() does to each cache.                                         *)
LEMMA KeepEffect ==
  ASSUME TypeOK, NEW t \in Thread, Keep(t), NEW p \in Process, NEW f \in Families
  PROVE  IF p = Of(t) /\ f = Family(call[t])
           THEN cache'[p][f] = Key(call[t]) /\ drawn'[p][f] = Drawing(call[t])
           ELSE cache'[p][f] = cache[p][f] /\ drawn'[p][f] = drawn[p][f]
<1> DEFINE q == Of(t)
           g == Family(call[t])
<1>1. q \in Process /\ g \in Families
  BY OfType, FamilyType
<1>2. cache' = [cache EXCEPT ![q][g] = Key(call[t])]
      /\ drawn' = [drawn EXCEPT ![q][g] = Drawing(call[t])]
  BY DEF Keep
<1>3. IF p = q /\ f = g
        THEN cache'[p][f] = Key(call[t]) /\ drawn'[p][f] = Drawing(call[t])
        ELSE cache'[p][f] = cache[p][f] /\ drawn'[p][f] = drawn[p][f]
  <2> HIDE DEF q, g
  <2> QED
    BY <1>1, <1>2 DEF TypeOK
<1> QED
  BY <1>3

LEMMA PanelNext == TypeOK /\ Keyed /\ Mutex /\ PanelInv /\ [Next]_vars => PanelInv'
<1> SUFFICES ASSUME TypeOK, Keyed, Mutex, CallInv, ScreenInv, LastInv, [Next]_vars
             PROVE  CallInv' /\ ScreenInv' /\ LastInv'
  BY DEF PanelInv
<1> USE OfType, FamilyType, OwnerNotNone DEF Goto
<1>0. \A t, u \in Thread : pc[t] \in Inside /\ pc[u] \in Inside /\ Of(t) = Of(u) => t = u
  BY DEF Mutex
<1>1. ASSUME NEW t \in Thread, Call(t) PROVE CallInv' /\ ScreenInv' /\ LastInv'
  <2>1. /\ UNCHANGED <<cache, screen, drawn, owner, last>>
        /\ pc[t] = "idle" /\ pc'[t] = "wait"
        /\ \A u \in Thread \ {t} : pc'[u] = pc[u] /\ call'[u] = call[u]
    BY <1>1 DEF Call, TypeOK
  <2> QED
    BY <2>1 DEF CallInv, ScreenInv, LastInv, Shows
<1>2. ASSUME NEW t \in Thread, Lock(t) PROVE CallInv' /\ ScreenInv' /\ LastInv'
  <2>1. /\ UNCHANGED <<call, cache, screen, drawn, owner, last>>
        /\ pc[t] = "wait" /\ pc'[t] = "check"
        /\ \A u \in Thread \ {t} : pc'[u] = pc[u]
    BY <1>2 DEF Lock, TypeOK
  <2> QED
    BY <2>1 DEF CallInv, ScreenInv, LastInv, Shows
<1>3. ASSUME NEW t \in Thread, Check(t) PROVE CallInv' /\ ScreenInv' /\ LastInv'
  <2>1. /\ UNCHANGED <<call, cache, screen, drawn, owner, last>>
        /\ \A u \in Thread \ {t} : pc'[u] = pc[u]
        /\ pc[t] = "check" /\ pc'[t] \in {"clear", "unlock"}
    BY <1>3 DEF Check, TypeOK
  <2>2. pc'[t] = "clear" => Need(call[t], cache[Of(t)][Family(call[t])])
    BY <1>3 DEF Check, TypeOK
  <2>3. pc'[t] = "unlock" => Shows(Of(t), call[t])
    BY <1>3, SkipShows DEF Check, TypeOK
  <2> QED
    BY <2>1, <2>2, <2>3 DEF CallInv, ScreenInv, LastInv, Shows
<1>4. ASSUME NEW t \in Thread, Clear(t) PROVE CallInv' /\ ScreenInv' /\ LastInv'
  <2>1. /\ UNCHANGED <<call, cache, drawn, last>> /\ screen' = {}
        /\ pc[t] = "clear" /\ pc'[t] = "draw" /\ \A u \in Thread \ {t} : pc'[u] = pc[u]
    BY <1>4 DEF Clear, TypeOK
  <2>2. owner' = None \/ /\ owner' = <<Of(t), Family(call[t])>>
                         /\ \A u \in Thread : Of(u) # Of(t) => pc[u] # "draw"
    BY <1>4 DEF Clear
  <2>3. \A u \in Thread \ {t} : Of(u) = Of(t) => pc[u] \notin Inside
    BY <1>0, <2>1 DEF Inside
  <2>4. CallInv'
    BY <2>1, <2>2, <2>3 DEF CallInv, Shows, Inside
  <2>5. ScreenInv'
    BY <2>1, <2>2 DEF ScreenInv
  <2>6. LastInv'
    BY <2>1 DEF LastInv, Shows
  <2> QED
    BY <2>4, <2>5, <2>6
<1>5. ASSUME NEW t \in Thread, Draw(t) PROVE CallInv' /\ ScreenInv' /\ LastInv'
  <2>1. /\ UNCHANGED <<call, cache, drawn, last, owner>>
        /\ screen' = screen \cup {Drawing(call[t])}
        /\ pc[t] = "draw" /\ pc'[t] = "keep" /\ \A u \in Thread \ {t} : pc'[u] = pc[u]
    BY <1>5 DEF Draw, TypeOK
  <2>2. \A u \in Thread \ {t} : Of(u) = Of(t) => pc[u] \notin Inside
    BY <1>0, <2>1 DEF Inside
  <2>3. owner # None => screen' = {Drawing(call[t])} /\ owner = <<Of(t), Family(call[t])>>
    BY <2>1 DEF CallInv
  <2>4. CallInv'
    BY <2>1, <2>2, <2>3 DEF CallInv, Shows, Inside
  <2>5. ScreenInv'
    BY <2>1, <2>3 DEF ScreenInv
  <2>6. LastInv'
    BY <2>1 DEF LastInv, Shows
  <2> QED
    BY <2>4, <2>5, <2>6
<1>6. ASSUME NEW t \in Thread, Keep(t) PROVE CallInv' /\ ScreenInv' /\ LastInv'
  <2>1. /\ UNCHANGED <<call, screen, last, owner>>
        /\ pc[t] = "keep" /\ pc'[t] = "unlock" /\ \A u \in Thread \ {t} : pc'[u] = pc[u]
    BY <1>6 DEF Keep, TypeOK
  <2>2. \A u \in Thread \ {t} : Of(u) = Of(t) => pc[u] \notin Inside
    BY <1>0, <2>1 DEF Inside
  <2>3. \A f \in Families :
          owner = <<Of(t), f>> => f = Family(call[t]) /\ screen = {Drawing(call[t])}
    BY <2>1 DEF CallInv
  <2>4. /\ cache'[Of(t)][Family(call[t])] = Key(call[t])
        /\ drawn'[Of(t)][Family(call[t])] = Drawing(call[t])
    BY <1>6, KeepEffect
  <2>5. \A p \in Process, f \in Families :
          p # Of(t) => cache'[p][f] = cache[p][f] /\ drawn'[p][f] = drawn[p][f]
    BY <1>6, KeepEffect
  <2>6. Shows(Of(t), call[t])'
    <3>1. Key(call[t]) # NoKey
      BY KeyIsNotEmpty DEF TypeOK
    <3> QED
      BY <2>1, <2>4, <3>1 DEF Shows
  <2>7. CallInv'
    BY <2>1, <2>2, <2>5, <2>6 DEF CallInv, Shows, Inside
  <2>8. ScreenInv'
    <3> SUFFICES ASSUME NEW p \in Process, NEW f \in Families, owner = <<p, f>>,
                        \A u \in Thread : Of(u) = p => pc'[u] \notin {"draw", "keep"},
                        cache'[p][f] # NoKey
                 PROVE  screen = {drawn'[p][f]}
      BY <2>1 DEF ScreenInv
    <3>1. CASE p = Of(t)
      BY <2>3, <2>4, <3>1
    <3>2. CASE p # Of(t)
      BY <2>1, <2>5, <3>2 DEF ScreenInv
    <3> QED
      BY <3>1, <3>2
  <2>9. LastInv'
    <3> SUFFICES ASSUME NEW p \in Process, last[p] # None,
                        \A u \in Thread : Of(u) = p => pc'[u] # "unlock"
                 PROVE  Shows(p, last[p])'
      BY <2>1 DEF LastInv
    <3>1. p # Of(t) /\ \A u \in Thread : Of(u) = p => pc[u] # "unlock"
      BY <2>1
    <3>2. Shows(p, last[p])
      BY <3>1 DEF LastInv
    <3> QED
      BY <2>1, <2>5, <3>1, <3>2 DEF Shows
  <2> QED
    BY <2>7, <2>8, <2>9
<1>7. ASSUME NEW t \in Thread, Unlock(t) PROVE CallInv' /\ ScreenInv' /\ LastInv'
  <2>1. /\ UNCHANGED <<cache, screen, drawn, owner>>
        /\ last'[Of(t)] = call[t] /\ \A p \in Process \ {Of(t)} : last'[p] = last[p]
        /\ pc[t] = "unlock" /\ pc'[t] = "idle"
        /\ \A u \in Thread \ {t} : pc'[u] = pc[u] /\ call'[u] = call[u]
    BY <1>7 DEF Unlock, TypeOK
  <2>2. Shows(Of(t), call[t])
    BY <2>1 DEF CallInv
  <2>3. CallInv' /\ ScreenInv'
    BY <2>1 DEF CallInv, ScreenInv, Shows
  <2>4. LastInv'
    BY <2>1, <2>2 DEF LastInv, Shows
  <2> QED
    BY <2>3, <2>4
<1>8. ASSUME NEW q \in Process, Restart(q) PROVE CallInv' /\ ScreenInv' /\ LastInv'
  <2>1. /\ UNCHANGED <<screen, owner>> /\ last'[q] = None
        /\ \A f \in Families : cache'[q][f] = NoKey
    BY <1>8 DEF Restart, TypeOK
  <2>2. \A p \in Process \ {q} :
          cache'[p] = cache[p] /\ drawn'[p] = drawn[p] /\ last'[p] = last[p]
    BY <1>8 DEF Restart, TypeOK
  <2>3. \A u \in Thread : IF Of(u) = q THEN pc'[u] = "idle"
                          ELSE pc'[u] = pc[u] /\ call'[u] = call[u]
    BY <1>8 DEF Restart, Of
  <2>4. CallInv' /\ ScreenInv'
    BY <2>1, <2>2, <2>3 DEF CallInv, ScreenInv, Shows
  <2>5. LastInv'
    BY <2>1, <2>2, <2>3 DEF LastInv, Shows
  <2> QED
    BY <2>4, <2>5
<1>9. CASE UNCHANGED vars
  BY <1>9 DEF vars, CallInv, ScreenInv, LastInv, Shows
<1> QED
  BY <1>1, <1>2, <1>3, <1>4, <1>5, <1>6, <1>7, <1>8, <1>9 DEF Next, ThreadStep

LEMMA PanelShows == TypeOK /\ PanelInv => ShownWithinFile
<1> SUFFICES ASSUME TypeOK, ScreenInv, LastInv, NEW p \in Process,
                    Quiet(p), last[p] # None, owner = <<p, Family(last[p])>>
             PROVE  {Fitting(d) : d \in screen} = {Fitting(Drawing(last[p]))}
  BY DEF PanelInv, ShownWithinFile
<1>1. \A t \in Thread : Of(t) = p => pc[t] \notin {"draw", "keep", "unlock"}
  BY DEF Quiet
<1>2. Shows(p, last[p])
  BY <1>1 DEF LastInv
<1>3. screen = {drawn[p][Family(last[p])]}
  BY <1>1, <1>2, FamilyType DEF ScreenInv, Shows
<1> QED
  BY <1>2, <1>3 DEF Shows

(* Until a caption of the other file or of another process comes, the      *)
(* panel shows what a process asked for last, whichever calls of however   *)
(* many threads are cut short and wherever processes are killed.           *)
THEOREM PanelRight == Spec => []ShownWithinFile
  BY InitType, NextType, KeyedInit, KeyedNext, MutexInit, MutexNext, PanelInit, PanelNext,
     PanelShows, PTL DEF Spec

(* What is kept of a text is the text, unless it is NULL or does not fit.  *)
LEMMA KeptText == \A x \in Texts : Same(x, Kept(x)) <=> x \notin {"NULL", "long"}
  BY DEF Texts, Same, Kept

LEMMA RepeatDecided ==
  ASSUME TypeOK, Mutex, PanelInv, NEW t \in Thread, Check(t), last[Of(t)] = call[t]
  PROVE  pc'[t] = "clear" <=> Lost(call[t])
<1> USE OfType DEF TypeOK
<1>1. pc[t] = "check" /\ call[t] \in Caption
  BY DEF Check
<1>2. \A u \in Thread : Of(u) = Of(t) => pc[u] # "unlock"
  <2>1. \A u \in Thread : pc[u] \in Inside => lock[Of(u)] = u
    BY DEF Mutex
  <2> QED
    BY <1>1, <2>1 DEF Inside
<1>3. last[Of(t)] # None
  BY <1>1, CaptionAssumption DEF CaptionAssumption
<1>4. cache[Of(t)][Family(call[t])] \in Keys
  BY <1>1, FamilyType
<1>5. Need(call[t], cache[Of(t)][Family(call[t])]) <=> Lost(call[t])
  <2>1. CASE Lost(call[t])
    BY <1>4, <2>1 DEF Keys, Lost, Need, Same
  <2>2. CASE ~Lost(call[t])
    <3>1. cache[Of(t)][Family(call[t])] = Key(call[t])
      BY <1>2, <1>3, <2>2 DEF PanelInv, LastInv, Shows, Fits, Lost
    <3>2. call[t].a \in Texts /\ call[t].b \in Texts
      BY <1>1, CaptionFields
    <3>3. ~Need(call[t], Key(call[t]))
      BY <2>2, <3>2, KeptText DEF Need, Key, Lost
    <3> QED
      BY <2>2, <3>1, <3>3
  <2> QED
    BY <2>1, <2>2
<1>6. pc'[t] = IF Need(call[t], cache[Of(t)][Family(call[t])]) THEN "clear" ELSE "unlock"
  BY DEF Check, Goto
<1> QED
  BY <1>5, <1>6

(* A repeated call is drawn again if and only if one of its texts is NULL  *)
(* or longer than the cache keeps: for want of a text, nine captions are   *)
(* drawn at every call, whatever other threads and processes do.           *)
THEOREM RepeatsDecided == Spec => RepeatRule
<1>1. TypeOK /\ Mutex /\ PanelInv /\ [Next]_vars =>
        [\A t \in Thread : Check(t) /\ last[Of(t)] = call[t] =>
           (pc'[t] = "clear" <=> Lost(call[t]))]_vars
  BY RepeatDecided
<1> QED
  BY <1>1, InitType, NextType, KeyedInit, KeyedNext, MutexInit, MutexNext, PanelInit, PanelNext,
     PTL DEF Spec, RepeatRule
=============================================================================
