------------------------- MODULE RateLimiterProofs --------------------------
(***************************************************************************)
(* The sliding window of RateLimiter, for any limit, window and users.     *)
(* The bucket of a user is what is left of the history of admissions once  *)
(* the old ones are popped; both properties follow from that.              *)
(***************************************************************************)
EXTENDS RateLimiter, TLAPS

USE RateLimiterAssumption

(* A bucket is the history without its k oldest admissions, which are old. *)
SuffixFrom(k, u) ==
  /\ k \in 0 .. Len(admitted[u])
  /\ Len(hits[u]) = Len(admitted[u]) - k
  /\ \A n \in 1 .. Len(hits[u]) : hits[u][n] = admitted[u][n + k]
  /\ \A n \in 1 .. k : now - admitted[u][n] > Window

BucketIsSuffix == \A u \in Users : \E k \in Nat : SuffixFrom(k, u)

(* The history runs forward in time and does not reach into the future.    *)
HistoryOrdered == \A u \in Users : \A n \in DOMAIN admitted[u] :
  /\ admitted[u][n] <= now
  /\ \A m \in DOMAIN admitted[u] : n <= m => admitted[u][n] <= admitted[u][m]

IInv == TypeOK /\ BucketIsSuffix /\ HistoryOrdered /\ WindowRespected

LEMMA PoppedShape ==
  ASSUME NEW s \in Seq(Nat), NEW m \in 0 .. Len(s)
  PROVE  /\ Popped(s, m) \in Seq(Nat)
         /\ Len(Popped(s, m)) = Len(s) - m
         /\ \A n \in 1 .. Len(s) - m : Popped(s, m)[n] = s[n + m]
  BY DEF Popped

LEMMA AppendShape ==
  ASSUME NEW s \in Seq(Nat), NEW e \in Nat
  PROVE  /\ Append(s, e) \in Seq(Nat)
         /\ Len(Append(s, e)) = Len(s) + 1
         /\ DOMAIN Append(s, e) = 1 .. Len(s) + 1
         /\ DOMAIN s = 1 .. Len(s)
         /\ \A n \in 1 .. Len(s) : Append(s, e)[n] = s[n]
         /\ Append(s, e)[Len(s) + 1] = e
  OBVIOUS

(* Popping leaves a suffix of the history.                                 *)
LEMMA PopsLeaveSuffix ==
  ASSUME TypeOK, NEW u \in Users, NEW k \in Nat, SuffixFrom(k, u),
         NEW m \in 0 .. Len(hits[u]), Pops(hits[u], m)
  PROVE  /\ Popped(hits[u], m) \in Seq(Nat)
         /\ k + m \in 0 .. Len(admitted[u])
         /\ Len(Popped(hits[u], m)) = Len(admitted[u]) - (k + m)
         /\ \A n \in 1 .. Len(Popped(hits[u], m)) : Popped(hits[u], m)[n] = admitted[u][n + (k + m)]
         /\ \A n \in 1 .. k + m : now - admitted[u][n] > Window
  <1>0. hits[u] \in Seq(Nat) /\ admitted[u] \in Seq(Nat) /\ Len(hits[u]) \in Nat
        /\ Len(admitted[u]) \in Nat
    BY DEF TypeOK
  <1>1. /\ Popped(hits[u], m) \in Seq(Nat)
        /\ Len(Popped(hits[u], m)) = Len(hits[u]) - m
        /\ \A n \in 1 .. Len(hits[u]) - m : Popped(hits[u], m)[n] = hits[u][n + m]
    BY <1>0, PoppedShape
  <1>2. /\ k \in 0 .. Len(admitted[u]) /\ Len(hits[u]) = Len(admitted[u]) - k
        /\ \A n \in 1 .. Len(hits[u]) : hits[u][n] = admitted[u][n + k]
        /\ \A n \in 1 .. k : now - admitted[u][n] > Window
    BY DEF SuffixFrom
  <1>3. k + m \in 0 .. Len(admitted[u])
        /\ Len(Popped(hits[u], m)) = Len(admitted[u]) - (k + m)
    BY <1>0, <1>1, <1>2
  <1>4. ASSUME NEW n \in 1 .. Len(Popped(hits[u], m))
        PROVE  Popped(hits[u], m)[n] = admitted[u][n + (k + m)]
    <2>1. n \in 1 .. Len(hits[u]) - m /\ n + m \in 1 .. Len(hits[u]) BY <1>0, <1>1
    <2>2. Popped(hits[u], m)[n] = hits[u][n + m] BY <1>1, <2>1
    <2>3. hits[u][n + m] = admitted[u][(n + m) + k] BY <1>2, <2>1
    <2>4. (n + m) + k = n + (k + m) BY <2>1
    <2> QED BY <2>2, <2>3, <2>4
  <1>5. ASSUME NEW n \in 1 .. k + m PROVE now - admitted[u][n] > Window
    <2>1. CASE n <= k
      <3>1. n \in 1 .. k BY <2>1
      <3> QED BY <1>2, <3>1
    <2>2. CASE n > k
      <3>1. n - k \in 1 .. m /\ n - k \in 1 .. Len(hits[u]) /\ (n - k) + k = n BY <1>0, <2>2
      <3>2. now - hits[u][n - k] > Window BY <3>1 DEF Pops, Old
      <3>3. hits[u][n - k] = admitted[u][n] BY <1>2, <3>1
      <3> QED BY <3>2, <3>3
    <2> QED BY <2>1, <2>2
  <1> QED BY <1>1, <1>3, <1>4, <1>5

LEMMA InitInv == Init => IInv
  <1> SUFFICES ASSUME Init PROVE IInv OBVIOUS
  <1>1. <<>> \in Seq(Nat) /\ Len(<<>>) = 0 /\ DOMAIN <<>> = {} OBVIOUS
  <1>2. \A u \in Users : hits[u] = <<>> /\ admitted[u] = <<>> BY DEF Init
  <1>3. TypeOK BY <1>1, <1>2 DEF Init, TypeOK
  <1>4. ASSUME NEW u \in Users PROVE SuffixFrom(0, u)
    <2>1. Len(hits[u]) = 0 /\ Len(admitted[u]) = 0 BY <1>1, <1>2
    <2> QED BY <2>1 DEF SuffixFrom
  <1>5. BucketIsSuffix BY <1>4 DEF BucketIsSuffix
  <1>6. HistoryOrdered BY <1>1, <1>2 DEF HistoryOrdered
  <1>7. WindowRespected BY <1>1, <1>2 DEF WindowRespected
  <1> QED BY <1>3, <1>5, <1>6, <1>7 DEF IInv

LEMMA AdmitKeeps == ASSUME IInv, NEW u \in Users, Admit(u) PROVE IInv'
  <1>0. TypeOK /\ BucketIsSuffix /\ HistoryOrdered /\ WindowRespected BY DEF IInv
  <1>1. /\ now \in Nat /\ hits[u] \in Seq(Nat) /\ admitted[u] \in Seq(Nat)
        /\ waiting[u] \in Nat /\ Len(admitted[u]) \in Nat
    BY <1>0 DEF TypeOK
  <1>2. PICK k \in Nat : SuffixFrom(k, u) BY <1>0 DEF BucketIsSuffix
  <1>3. PICK m \in 0 .. Len(hits[u]) :
          /\ Pops(hits[u], m)
          /\ Len(Popped(hits[u], m)) < Limit
          /\ hits' = [hits EXCEPT ![u] = Append(Popped(hits[u], m), now)]
    BY DEF Admit
  <1> DEFINE p == Popped(hits[u], m)
             a == admitted[u]
             j == k + m
  <1>4. /\ p \in Seq(Nat) /\ j \in 0 .. Len(a) /\ Len(p) = Len(a) - j
        /\ \A n \in 1 .. Len(p) : p[n] = a[n + j]
        /\ \A n \in 1 .. j : now - a[n] > Window
    BY <1>0, <1>2, <1>3, PopsLeaveSuffix
  <1>5. Len(p) < Limit BY <1>3
  <1>6. hits' = [hits EXCEPT ![u] = Append(p, now)] BY <1>3
  <1>7. admitted' = [admitted EXCEPT ![u] = Append(a, now)] /\ now' = now BY DEF Admit
  <1>8. waiting' = [waiting EXCEPT ![u] = waiting[u] - 1] /\ waiting[u] > 0 BY DEF Admit
  <1>9. a \in Seq(Nat) /\ Len(a) \in Nat BY <1>1
  <1> HIDE DEF p, a, j
  <1>10. /\ Append(p, now) \in Seq(Nat) /\ Len(Append(p, now)) = Len(p) + 1
         /\ \A n \in 1 .. Len(p) : Append(p, now)[n] = p[n]
         /\ Append(p, now)[Len(p) + 1] = now
    BY <1>1, <1>4, AppendShape
  <1>11. /\ Append(a, now) \in Seq(Nat) /\ Len(Append(a, now)) = Len(a) + 1
         /\ DOMAIN Append(a, now) = 1 .. Len(a) + 1 /\ DOMAIN a = 1 .. Len(a)
         /\ \A n \in 1 .. Len(a) : Append(a, now)[n] = a[n]
         /\ Append(a, now)[Len(a) + 1] = now
    BY <1>1, <1>9, AppendShape
  <1>12. hits'[u] = Append(p, now) /\ admitted'[u] = Append(a, now)
         /\ \A v \in Users \ {u} : hits'[v] = hits[v] /\ admitted'[v] = admitted[v]
    BY <1>0, <1>6, <1>7 DEF TypeOK
  <1>13. TypeOK'
    <2>1. waiting[u] - 1 \in Nat BY <1>1, <1>8
    <2>2. Len(Append(p, now)) <= Limit BY <1>4, <1>5, <1>9, <1>10
    <2>3. \A v \in Users : Len(hits'[v]) <= Limit BY <1>0, <1>12, <2>2 DEF TypeOK
    <2> QED BY <1>0, <1>6, <1>7, <1>8, <1>10, <1>11, <2>1, <2>3 DEF TypeOK
  <1>14. BucketIsSuffix'
    <2> SUFFICES ASSUME NEW v \in Users PROVE \E i \in Nat : SuffixFrom(i, v)'
      BY DEF BucketIsSuffix
    <2>1. CASE v = u
      <3>1. j \in 0 .. Len(admitted'[u]) /\ Len(hits'[u]) = Len(admitted'[u]) - j /\ j \in Nat
        BY <1>4, <1>9, <1>10, <1>11, <1>12
      <3>2. ASSUME NEW n \in 1 .. Len(hits'[u]) PROVE hits'[u][n] = admitted'[u][n + j]
        <4>1. CASE n <= Len(p)
          <5>1. n \in 1 .. Len(p) /\ n + j \in 1 .. Len(a) BY <1>4, <1>9, <4>1
          <5> QED BY <1>4, <1>10, <1>11, <1>12, <5>1
        <4>2. CASE n > Len(p)
          <5>1. n = Len(p) + 1 /\ n + j = Len(a) + 1 BY <1>4, <1>9, <1>10, <1>12, <4>2
          <5> QED BY <1>10, <1>11, <1>12, <5>1
        <4> QED BY <1>4, <1>9, <4>1, <4>2
      <3>3. ASSUME NEW n \in 1 .. j PROVE now' - admitted'[u][n] > Window
        <4>1. n \in 1 .. Len(a) BY <1>4, <1>9
        <4> QED BY <1>4, <1>7, <1>11, <1>12, <4>1
      <3>4. SuffixFrom(j, u)' BY <3>1, <3>2, <3>3 DEF SuffixFrom
      <3> QED BY <2>1, <3>1, <3>4
    <2>2. CASE v # u
      <3>1. PICK i \in Nat : SuffixFrom(i, v) BY <1>0 DEF BucketIsSuffix
      <3>2. SuffixFrom(i, v)' BY <1>7, <1>12, <2>2, <3>1 DEF SuffixFrom
      <3> QED BY <3>2
    <2> QED BY <2>1, <2>2
  <1>15. HistoryOrdered'
    <2>1. /\ \A n \in 1 .. Len(a) : a[n] <= now
          /\ \A n, m_ \in 1 .. Len(a) : n <= m_ => a[n] <= a[m_]
      BY <1>0, <1>11 DEF HistoryOrdered, a
    <2>2. \A n \in 1 .. Len(a) + 1 : Append(a, now)[n] <= now
      <3> SUFFICES ASSUME NEW n \in 1 .. Len(a) + 1 PROVE Append(a, now)[n] <= now OBVIOUS
      <3>1. CASE n \in 1 .. Len(a) BY <1>11, <2>1, <3>1
      <3>2. CASE n = Len(a) + 1 BY <1>1, <1>11, <3>2
      <3> QED BY <1>9, <3>1, <3>2
    <2>3. \A n, m_ \in 1 .. Len(a) + 1 : n <= m_ => Append(a, now)[n] <= Append(a, now)[m_]
      <3> SUFFICES ASSUME NEW n \in 1 .. Len(a) + 1, NEW m_ \in 1 .. Len(a) + 1, n <= m_
                   PROVE  Append(a, now)[n] <= Append(a, now)[m_]
        OBVIOUS
      <3>1. CASE m_ \in 1 .. Len(a)
        <4>1. n \in 1 .. Len(a) BY <1>9, <3>1
        <4> QED BY <1>11, <2>1, <3>1, <4>1
      <3>2. CASE m_ = Len(a) + 1 BY <1>11, <2>2, <3>2
      <3> QED BY <1>9, <3>1, <3>2
    <2>4. \A v \in Users \ {u} : \A n \in DOMAIN admitted'[v] :
            /\ admitted'[v][n] <= now'
            /\ \A m_ \in DOMAIN admitted'[v] : n <= m_ => admitted'[v][n] <= admitted'[v][m_]
      BY <1>0, <1>7, <1>12 DEF HistoryOrdered
    <2>5. \A n \in DOMAIN admitted'[u] :
            /\ admitted'[u][n] <= now'
            /\ \A m_ \in DOMAIN admitted'[u] : n <= m_ => admitted'[u][n] <= admitted'[u][m_]
      BY <1>7, <1>11, <1>12, <2>2, <2>3
    <2> QED BY <2>4, <2>5 DEF HistoryOrdered
  <1>16. WindowRespected'
    <2>1. ASSUME NEW n \in DOMAIN admitted'[u], n + Limit \in DOMAIN admitted'[u]
          PROVE  admitted'[u][n + Limit] - admitted'[u][n] > Window
      <3>0. n \in 1 .. Len(a) + 1 /\ n + Limit \in 1 .. Len(a) + 1
        BY <1>11, <1>12, <2>1
      <3>1. CASE n + Limit \in 1 .. Len(a)
        <4>1. n \in 1 .. Len(a) BY <1>9, <3>0, <3>1
        <4>2. a[n + Limit] - a[n] > Window
          BY <1>0, <1>11, <3>1, <4>1 DEF WindowRespected, a
        <4> QED BY <1>11, <1>12, <3>1, <4>1, <4>2
      <3>2. CASE n + Limit = Len(a) + 1
        <4>1. n \in 1 .. j /\ n \in 1 .. Len(a) BY <1>4, <1>5, <1>9, <3>0, <3>2
        <4>2. now - a[n] > Window BY <1>4, <4>1
        <4> QED BY <1>11, <1>12, <3>2, <4>1, <4>2
      <3> QED BY <1>9, <3>0, <3>1, <3>2
    <2>2. ASSUME NEW v \in Users \ {u}, NEW n \in DOMAIN admitted'[v],
                 n + Limit \in DOMAIN admitted'[v]
          PROVE  admitted'[v][n + Limit] - admitted'[v][n] > Window
      BY <1>0, <1>12, <2>2 DEF WindowRespected
    <2> QED BY <2>1, <2>2 DEF WindowRespected
  <1> QED BY <1>13, <1>14, <1>15, <1>16 DEF IInv

LEMMA DenyKeeps == ASSUME IInv, NEW u \in Users, Deny(u) PROVE IInv'
  <1>0. TypeOK /\ BucketIsSuffix /\ HistoryOrdered /\ WindowRespected BY DEF IInv
  <1>1. PICK k \in Nat : SuffixFrom(k, u) BY <1>0 DEF BucketIsSuffix
  <1>2. PICK m \in 0 .. Len(hits[u]) :
          /\ Pops(hits[u], m)
          /\ hits' = [hits EXCEPT ![u] = Popped(hits[u], m)]
    BY DEF Deny
  <1>3. UNCHANGED <<now, admitted>> BY DEF Deny
  <1> DEFINE p == Popped(hits[u], m)
  <1>4. /\ p \in Seq(Nat) /\ k + m \in 0 .. Len(admitted[u])
        /\ Len(p) = Len(admitted[u]) - (k + m)
        /\ \A n \in 1 .. Len(p) : p[n] = admitted[u][n + (k + m)]
        /\ \A n \in 1 .. k + m : now - admitted[u][n] > Window
    BY <1>0, <1>1, <1>2, PopsLeaveSuffix
  <1>5. hits' = [hits EXCEPT ![u] = p] BY <1>2
  <1> HIDE DEF p
  <1>6. TypeOK'
    <2>1. waiting[u] - 1 \in Nat /\ waiting' = [waiting EXCEPT ![u] = waiting[u] - 1]
      BY <1>0 DEF TypeOK, Deny
    <2>2. Len(hits[u]) \in Nat /\ Len(hits[u]) <= Limit BY <1>0 DEF TypeOK
    <2>3. Len(p) = Len(hits[u]) - m BY <1>0, PoppedShape DEF TypeOK, p
    <2>4. Len(p) <= Limit BY <2>2, <2>3
    <2>5. \A v \in Users : Len(hits'[v]) <= Limit BY <1>0, <1>5, <2>4 DEF TypeOK
    <2> QED BY <1>0, <1>3, <1>4, <1>5, <2>1, <2>5 DEF TypeOK
  <1>7. BucketIsSuffix'
    <2> SUFFICES ASSUME NEW v \in Users PROVE \E i \in Nat : SuffixFrom(i, v)'
      BY DEF BucketIsSuffix
    <2>1. CASE v = u
      <3>1. hits'[u] = p /\ k + m \in Nat BY <1>0, <1>5 DEF TypeOK
      <3>2. SuffixFrom(k + m, u)' BY <1>3, <1>4, <3>1 DEF SuffixFrom
      <3> QED BY <2>1, <3>1, <3>2
    <2>2. CASE v # u
      <3>1. hits'[v] = hits[v] BY <1>0, <1>5, <2>2 DEF TypeOK
      <3>2. PICK i \in Nat : SuffixFrom(i, v) BY <1>0 DEF BucketIsSuffix
      <3>3. SuffixFrom(i, v)' BY <1>3, <3>1, <3>2 DEF SuffixFrom
      <3> QED BY <3>3
    <2> QED BY <2>1, <2>2
  <1>8. HistoryOrdered' /\ WindowRespected'
    BY <1>0, <1>3 DEF HistoryOrdered, WindowRespected
  <1> QED BY <1>6, <1>7, <1>8 DEF IInv

LEMMA TickKeeps == ASSUME IInv, Tick PROVE IInv'
  <1>0. TypeOK /\ BucketIsSuffix /\ HistoryOrdered /\ WindowRespected BY DEF IInv
  <1>1. now' = now + 1 /\ now \in Nat /\ UNCHANGED <<hits, waiting, admitted>>
    BY <1>0 DEF Tick, TypeOK
  <1>2. TypeOK' BY <1>0, <1>1 DEF TypeOK
  <1>3. ASSUME NEW u \in Users, NEW k \in Nat, SuffixFrom(k, u) PROVE SuffixFrom(k, u)'
    <2>1. admitted[u] \in Seq(Nat) BY <1>0 DEF TypeOK
    <2>2. ASSUME NEW n \in 1 .. k PROVE now' - admitted'[u][n] > Window
      <3>1. now - admitted[u][n] > Window BY <1>3 DEF SuffixFrom
      <3>2. n \in 1 .. Len(admitted[u]) BY <1>3, <2>1 DEF SuffixFrom
      <3>3. admitted[u][n] \in Nat BY <2>1, <3>2
      <3> QED BY <1>1, <3>1, <3>3
    <2> QED BY <1>1, <1>3, <2>2 DEF SuffixFrom
  <1>4. BucketIsSuffix' BY <1>0, <1>3 DEF BucketIsSuffix
  <1>5. HistoryOrdered'
    <2>1. \A u \in Users : \A n \in DOMAIN admitted[u] :
            admitted[u][n] \in Nat /\ admitted[u][n] <= now
      BY <1>0 DEF HistoryOrdered, TypeOK
    <2>2. \A u \in Users : \A n \in DOMAIN admitted[u] : admitted[u][n] <= now + 1
      BY <1>1, <2>1
    <2> QED BY <1>0, <1>1, <2>2 DEF HistoryOrdered
  <1>6. WindowRespected' BY <1>0, <1>1 DEF WindowRespected
  <1> QED BY <1>2, <1>4, <1>5, <1>6 DEF IInv

LEMMA StepInv == IInv /\ [Next]_vars => IInv'
  <1> SUFFICES ASSUME IInv, [Next]_vars PROVE IInv' OBVIOUS
  <1>0. TypeOK /\ BucketIsSuffix /\ HistoryOrdered /\ WindowRespected BY DEF IInv
  <1>1. ASSUME UNCHANGED <<now, hits, admitted>>, waiting' \in [Users -> Nat] PROVE IInv'
    <2>1. TypeOK' BY <1>0, <1>1 DEF TypeOK
    <2>2. BucketIsSuffix' BY <1>0, <1>1 DEF BucketIsSuffix, SuffixFrom
    <2>3. HistoryOrdered' /\ WindowRespected' BY <1>0, <1>1 DEF HistoryOrdered, WindowRespected
    <2> QED BY <2>1, <2>2, <2>3 DEF IInv
  <1>2. ASSUME NEW u \in Users, PlanQuestion(u) PROVE IInv'
    <2>1. waiting[u] + 1 \in Nat /\ waiting' = [waiting EXCEPT ![u] = waiting[u] + 1]
      BY <1>0, <1>2 DEF PlanQuestion, TypeOK
    <2>2. waiting' \in [Users -> Nat] BY <1>0, <2>1 DEF TypeOK
    <2> QED BY <1>1, <1>2, <2>2 DEF PlanQuestion
  <1>3. CASE UNCHANGED vars BY <1>0, <1>1, <1>3 DEF vars, TypeOK
  <1> QED BY <1>2, <1>3, AdmitKeeps, DenyKeeps, TickKeeps DEF Next

(* Types, for any limit and window.                                        *)
THEOREM TypeCorrect == Spec => []TypeOK
  <1>1. IInv => TypeOK BY DEF IInv
  <1> QED BY InitInv, StepInv, <1>1, PTL DEF Spec

(* No window holds more than Limit executions of a user.                   *)
THEOREM WindowHolds == Spec => []WindowRespected
  <1>1. IInv => WindowRespected BY DEF IInv
  <1> QED BY InitInv, StepInv, <1>1, PTL DEF Spec

LEMMA DenialIsNeeded ==
  ASSUME IInv, NEW u \in Users, Deny(u)
  PROVE  Full(u)
  <1>0. TypeOK /\ BucketIsSuffix /\ HistoryOrdered BY DEF IInv
  <1>1. PICK k \in Nat : SuffixFrom(k, u) BY <1>0 DEF BucketIsSuffix
  <1>2. PICK m \in 0 .. Len(hits[u]) :
          Pops(hits[u], m) /\ Len(Popped(hits[u], m)) >= Limit
    BY DEF Deny
  <1>3. /\ hits[u] \in Seq(Nat) /\ admitted[u] \in Seq(Nat) /\ now \in Nat
        /\ Len(hits[u]) \in Nat /\ Len(admitted[u]) \in Nat
        /\ DOMAIN admitted[u] = 1 .. Len(admitted[u])
    BY <1>0 DEF TypeOK
  <1>4. Len(Popped(hits[u], m)) = Len(hits[u]) - m BY <1>3, PoppedShape
  <1>5. /\ Len(hits[u]) = Len(admitted[u]) - k
        /\ \A n \in 1 .. Len(hits[u]) : hits[u][n] = admitted[u][n + k]
    BY <1>1 DEF SuffixFrom
  <1>6. m < Len(hits[u]) /\ m + 1 \in 1 .. Len(hits[u]) BY <1>2, <1>3, <1>4
  <1>7. ~ (now - hits[u][m + 1] > Window) BY <1>2, <1>6 DEF Pops, Old
  <1> DEFINE oldest == Len(admitted[u]) + 1 - Limit
             first == (m + 1) + k
  <1>8. /\ Len(admitted[u]) >= Limit /\ oldest \in 1 .. Len(admitted[u])
        /\ first \in 1 .. Len(admitted[u]) /\ first <= oldest
    <2>1. Len(admitted[u]) - k - m >= Limit BY <1>2, <1>3, <1>4, <1>5
    <2>2. m \in Nat /\ k \in Nat BY <1>3
    <2> QED BY <1>3, <2>1, <2>2
  <1>9. hits[u][m + 1] = admitted[u][first] BY <1>5, <1>6
  <1> HIDE DEF first, oldest
  <1>10. admitted[u][first] <= admitted[u][oldest] BY <1>0, <1>3, <1>8 DEF HistoryOrdered
  <1>11. admitted[u][first] \in Nat /\ admitted[u][oldest] \in Nat
    <2>1. \A n \in 1 .. Len(admitted[u]) : admitted[u][n] \in Nat BY <1>3
    <2> QED BY <1>8, <2>1
  <1>12. now - admitted[u][first] <= Window BY <1>3, <1>7, <1>9, <1>11
  <1>13. now - admitted[u][oldest] <= Window BY <1>3, <1>10, <1>11, <1>12
  <1> QED BY <1>8, <1>13 DEF Full, oldest

LEMMA StepDenies == IInv /\ [Next]_vars => [\A u \in Users : Denied(u) => Full(u)]_vars
  <1> SUFFICES ASSUME IInv, Next, NEW u \in Users, Denied(u) PROVE Full(u) OBVIOUS
  <1>0. TypeOK /\ waiting'[u] < waiting[u] /\ waiting[u] \in Nat BY DEF IInv, Denied, TypeOK
  <1>1. ~ Tick
    <2> SUFFICES ASSUME Tick PROVE FALSE OBVIOUS
    <2>1. waiting' = waiting BY DEF Tick
    <2> QED BY <1>0, <2>1
  <1>2. ASSUME NEW v \in Users, PlanQuestion(v) PROVE FALSE
    <2>1. waiting' = [waiting EXCEPT ![v] = waiting[v] + 1] BY <1>2 DEF PlanQuestion
    <2>2. waiting'[u] = waiting[u] \/ waiting'[u] = waiting[u] + 1 BY <1>0, <2>1 DEF TypeOK
    <2> QED BY <1>0, <2>2
  <1>3. ASSUME NEW v \in Users, Admit(v) PROVE FALSE
    <2>1. admitted' = [admitted EXCEPT ![v] = Append(admitted[v], now)] BY <1>3 DEF Admit
    <2>2. admitted[v] \in Seq(Nat) /\ now \in Nat BY <1>0 DEF TypeOK
    <2>3. Len(admitted'[v]) = Len(admitted[v]) + 1 BY <1>0, <2>1, <2>2, AppendShape DEF TypeOK
    <2>4. admitted'[v] = admitted[v] BY DEF Denied
    <2>5. Len(admitted[v]) \in Nat BY <2>2
    <2> QED BY <2>3, <2>4, <2>5
  <1>4. ASSUME NEW v \in Users, Deny(v) PROVE Full(u)
    <2>1. waiting' = [waiting EXCEPT ![v] = waiting[v] - 1] BY <1>4 DEF Deny
    <2>2. v # u => waiting'[u] = waiting[u] BY <1>0, <2>1 DEF TypeOK
    <2>3. v = u BY <1>0, <2>2
    <2> QED BY <1>4, <2>3, DenialIsNeeded
  <1> QED BY <1>1, <1>2, <1>3, <1>4 DEF Next

(* Nobody is refused but for Limit executions of the same user in the      *)
(* window that ends now.                                                   *)
THEOREM DenialsNeeded == Spec => NoNeedlessDenial
  BY InitInv, StepInv, StepDenies, PTL DEF Spec, NoNeedlessDenial

=============================================================================
