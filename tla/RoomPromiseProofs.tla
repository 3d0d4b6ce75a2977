------------------------- MODULE RoomPromiseProofs -------------------------
(* Theorems about RoomPromise.                                             *)
EXTENDS RoomPromise, SequenceTheorems, TLAPS

\* Every room that is opened takes a positive number of players.
CapsPositive == Caps \subseteq Nat \ {0}

----------------------------------------------------------------------------
(* Lines of players.                                                       *)

Line(s) == {s[i] : i \in 1..Len(s)}

\* A line is a function over the places 1 to its length.
LEMMA LinePlaces ==
    ASSUME NEW S, NEW s \in Seq(S)
    PROVE  Len(s) \in Nat /\ s \in [1..Len(s) -> S]
  BY LenProperties

\* One player makes a line.
LEMMA OneInLine ==
    ASSUME NEW S, NEW u \in S
    PROVE  <<u>> \in Seq(S) /\ Len(<<u>>) = 1 /\ <<u>>[1] = u /\ Line(<<u>>) = {u}
<1>1. <<u>> \in Seq(S) /\ Len(<<u>>) = 1 /\ <<u>>[1] = u
  OBVIOUS
<1> QED
  BY <1>1 DEF Line

\* A player who enters stands behind all others.
LEMMA OneMoreInLine ==
    ASSUME NEW S, NEW s \in Seq(S), NEW u \in S
    PROVE  /\ Append(s, u) \in Seq(S)
           /\ Len(Append(s, u)) = Len(s) + 1
           /\ \A i \in 1..Len(s) : Append(s, u)[i] = s[i]
           /\ Line(Append(s, u)) = Line(s) \union {u}
<1>1. Len(s) \in Nat /\ s \in [1..Len(s) -> S]
  BY LinePlaces
<1>2. /\ Append(s, u) \in Seq(S) /\ Len(Append(s, u)) = Len(s) + 1
      /\ \A i \in 1..Len(s) : Append(s, u)[i] = s[i]
      /\ Append(s, u)[Len(s) + 1] = u
  BY <1>1, AppendProperties
<1>3. 1..(Len(s) + 1) = 1..Len(s) \union {Len(s) + 1}
  BY <1>1
<1> QED
  BY <1>2, <1>3 DEF Line

\* When u steps out the line is one shorter, the others keep their order at its
\* front, and everybody else is still in it.
LEMMA OneLessInLine ==
    ASSUME NEW S, NEW s \in Seq(S), NEW u \in Line(s)
    PROVE  /\ StepOut(s, u) \in Seq(S)
           /\ Len(StepOut(s, u)) = Len(s) - 1
           /\ Line(s) \ {u} \subseteq Line(StepOut(s, u))
           /\ Len(s) > 1 /\ s[1] # u => StepOut(s, u)[1] = s[1]
<1> DEFINE i == CHOOSE j \in 1..Len(s) : s[j] = u
           t == [j \in 1..(Len(s) - 1) |-> IF j < i THEN s[j] ELSE s[j + 1]]
<1>1. Len(s) \in Nat /\ s \in [1..Len(s) -> S]
  BY LinePlaces
<1>2. i \in 1..Len(s) /\ s[i] = u
  BY DEF Line
<1>3. StepOut(s, u) = t
  BY DEF StepOut
<1> HIDE DEF i
<1>4. Len(s) - 1 \in Nat
  BY <1>1, <1>2
<1>5. \A j \in 1..(Len(s) - 1) : t[j] \in S
  BY <1>1, <1>2
<1>6. t \in Seq(S) /\ Len(t) = Len(s) - 1
  BY <1>4, <1>5, SeqDef, LenProperties
<1>7. ASSUME NEW k \in 1..Len(s), s[k] # u
      PROVE  \E j \in 1..(Len(s) - 1) : t[j] = s[k]
  <2>1. CASE k < i
    <3>1. k \in 1..(Len(s) - 1) /\ t[k] = s[k]
      BY <1>1, <1>2, <2>1
    <3> QED
      BY <3>1
  <2>2. CASE ~(k < i)
    <3>1. k # i
      BY <1>2, <1>7
    <3>2. k - 1 \in 1..(Len(s) - 1) /\ ~(k - 1 < i) /\ (k - 1) + 1 = k
      BY <1>1, <1>2, <2>2, <3>1
    <3>3. t[k - 1] = s[k]
      BY <3>2
    <3> QED
      BY <3>2, <3>3
  <2> QED
    BY <2>1, <2>2
<1>8. Line(s) \ {u} \subseteq Line(t)
  BY <1>6, <1>7 DEF Line
<1>9. ASSUME Len(s) > 1, s[1] # u PROVE t[1] = s[1]
  <2>1. i # 1
    BY <1>2, <1>9
  <2>2. 1 \in 1..(Len(s) - 1) /\ 1 < i
    BY <1>1, <1>2, <1>9, <2>1
  <2> QED
    BY <2>2
<1> QED
  BY <1>3, <1>6, <1>8, <1>9

----------------------------------------------------------------------------
(* The invariant, which is inductive as it stands.                         *)

PromiseInv == TypeOK /\ HostIsFirst /\ NobodyInside /\ WithinCap /\ LaunchedOnce

\* It is what the rooms say one by one.
RoomInv(c, ph, ln, ht, cp, lc) ==
    /\ ph \in {"absent", "waiting", "playing", "closed"}
    /\ ln \in Seq(Users) /\ ht \in Users \union {NoUser} /\ cp \in Nat /\ lc \in Nat
    /\ ph \in {"waiting", "playing"} => ln # <<>> /\ ht = ln[1]
    /\ ph \in {"absent", "closed"} => ln = <<>>
    /\ Len(ln) <= cp
    /\ lc <= 1
    /\ ph \in {"absent", "waiting"} => lc = 0
    /\ ph = "playing" => lc = 1

\* A step that changes one room only need keep that room's part.
LEMMA OneRoom ==
    ASSUME PromiseInv, NEW c \in RoomCodes,
           NEW ph, NEW ln, NEW ht, NEW cp, NEW lc,
           phase' = [phase EXCEPT ![c] = ph], line' = [line EXCEPT ![c] = ln],
           host' = [host EXCEPT ![c] = ht], cap' = [cap EXCEPT ![c] = cp],
           launches' = [launches EXCEPT ![c] = lc],
           RoomInv(c, ph, ln, ht, cp, lc)
    PROVE  PromiseInv'
<1>1. TypeOK'
  BY DEF PromiseInv, TypeOK, RoomInv
<1>2. /\ phase'[c] = ph /\ line'[c] = ln /\ host'[c] = ht /\ cap'[c] = cp /\ launches'[c] = lc
      /\ \A d \in RoomCodes : d # c =>
             /\ phase'[d] = phase[d] /\ line'[d] = line[d] /\ host'[d] = host[d]
             /\ cap'[d] = cap[d] /\ launches'[d] = launches[d]
  BY DEF PromiseInv, TypeOK
<1>3. HostIsFirst'
  BY <1>2 DEF PromiseInv, HostIsFirst, RoomInv
<1>4. NobodyInside'
  BY <1>2 DEF PromiseInv, NobodyInside, RoomInv
<1>5. WithinCap'
  BY <1>2 DEF PromiseInv, WithinCap, RoomInv
<1>6. LaunchedOnce'
  BY <1>2 DEF PromiseInv, LaunchedOnce, RoomInv
<1> QED
  BY <1>1, <1>3, <1>4, <1>5, <1>6 DEF PromiseInv

\* What a step leaves alone is assigned its old value.
LEMMA Untouched ==
    ASSUME TypeOK, NEW c \in RoomCodes
    PROVE  /\ phase = [phase EXCEPT ![c] = phase[c]] /\ line = [line EXCEPT ![c] = line[c]]
           /\ host = [host EXCEPT ![c] = host[c]] /\ cap = [cap EXCEPT ![c] = cap[c]]
           /\ launches = [launches EXCEPT ![c] = launches[c]]
  BY DEF TypeOK

\* What the invariant says of room c.
LEMMA RoomKnown ==
    ASSUME PromiseInv, NEW c \in RoomCodes
    PROVE  RoomInv(c, phase[c], line[c], host[c], cap[c], launches[c])
  BY DEF PromiseInv, TypeOK, HostIsFirst, NobodyInside, WithinCap, LaunchedOnce, RoomInv

----------------------------------------------------------------------------
(* The steps.                                                              *)

\* A room is opened with its host alone in it.
LEMMA OpenKeeps ==
    ASSUME CapsPositive, PromiseInv, NEW c \in RoomCodes, NEW u \in Users, NEW n \in Caps,
           Open(u, c, n)
    PROVE  PromiseInv'
<1>1. RoomInv(c, phase[c], line[c], host[c], cap[c], launches[c])
  BY RoomKnown
<1>2. <<u>> \in Seq(Users) /\ Len(<<u>>) = 1 /\ <<u>>[1] = u /\ <<u>> # <<>>
  BY OneInLine
<1>3. n \in Nat /\ n >= 1
  BY DEF CapsPositive
<1>4. RoomInv(c, "waiting", <<u>>, u, n, launches[c])
  BY <1>1, <1>2, <1>3 DEF RoomInv, Open
<1>5. launches' = [launches EXCEPT ![c] = launches[c]]
  BY Untouched DEF PromiseInv, Open
<1> QED
  BY <1>4, <1>5, OneRoom DEF Open

\* A player enters a waiting room that has a free place.
LEMMA EnterKeeps ==
    ASSUME PromiseInv, NEW c \in RoomCodes, NEW u \in Users, Enter(u, c)
    PROVE  PromiseInv'
<1> DEFINE s == Append(line[c], u)
<1>1. RoomInv(c, phase[c], line[c], host[c], cap[c], launches[c])
  BY RoomKnown
<1>2. line[c] \in Seq(Users) /\ Len(line[c]) \in Nat /\ line[c] # <<>>
  BY <1>1, LinePlaces DEF RoomInv, Enter
<1>3. Len(line[c]) >= 1
  BY <1>2, EmptySeq
<1>4. s \in Seq(Users) /\ Len(s) = Len(line[c]) + 1 /\ s[1] = line[c][1] /\ s # <<>>
  BY <1>2, <1>3, OneMoreInLine
<1> HIDE DEF s
<1>5. RoomInv(c, phase[c], s, host[c], cap[c], launches[c])
  BY <1>1, <1>2, <1>4 DEF RoomInv, Enter
<1>6. line' = [line EXCEPT ![c] = s]
  BY DEF Enter, s
<1>7. /\ phase' = [phase EXCEPT ![c] = phase[c]] /\ host' = [host EXCEPT ![c] = host[c]]
      /\ cap' = [cap EXCEPT ![c] = cap[c]] /\ launches' = [launches EXCEPT ![c] = launches[c]]
  BY Untouched DEF PromiseInv, Enter
<1> QED
  BY <1>5, <1>6, <1>7, OneRoom

\* The last player closes the room.
LEMMA ExitLastKeeps ==
    ASSUME PromiseInv, NEW c \in RoomCodes, NEW u \in Users, ExitLast(u, c)
    PROVE  PromiseInv'
<1>1. RoomInv(c, phase[c], line[c], host[c], cap[c], launches[c])
  BY RoomKnown
<1>2. <<>> \in Seq(Users) /\ Len(<<>>) = 0
  BY EmptySeq
<1>3. RoomInv(c, "closed", <<>>, host[c], cap[c], launches[c])
  BY <1>1, <1>2 DEF RoomInv
<1>4. /\ host' = [host EXCEPT ![c] = host[c]] /\ cap' = [cap EXCEPT ![c] = cap[c]]
      /\ launches' = [launches EXCEPT ![c] = launches[c]]
  BY Untouched DEF PromiseInv, ExitLast
<1>5. line' = [line EXCEPT ![c] = <<>>] /\ phase' = [phase EXCEPT ![c] = "closed"]
  BY DEF ExitLast
<1> QED
  BY <1>3, <1>4, <1>5, OneRoom

\* One of several players goes; if it was the host, the next in line takes over.
LEMMA ExitKeeps ==
    ASSUME PromiseInv, NEW c \in RoomCodes, NEW u \in Users, Exit(u, c)
    PROVE  PromiseInv'
<1> DEFINE s == StepOut(line[c], u)
           h == IF u = host[c] THEN s[1] ELSE host[c]
<1>1. RoomInv(c, phase[c], line[c], host[c], cap[c], launches[c])
  BY RoomKnown
<1>2. line[c] \in Seq(Users) /\ Len(line[c]) \in Nat /\ u \in Line(line[c]) /\ Len(line[c]) > 1
  BY <1>1, LinePlaces DEF RoomInv, Exit, Present, Line
<1>3. /\ s \in Seq(Users) /\ Len(s) = Len(line[c]) - 1
      /\ line[c][1] # u => s[1] = line[c][1]
  BY <1>2, OneLessInLine
<1>4. s # <<>> /\ s[1] \in Users
  BY <1>2, <1>3, EmptySeq, ElementOfSeq
<1> HIDE DEF s
<1>5. line[c] # <<>> /\ phase[c] \in {"waiting", "playing"}
  BY <1>1, <1>2, EmptySeq DEF RoomInv
<1>6. RoomInv(c, phase[c], s, h, cap[c], launches[c])
  BY <1>1, <1>2, <1>3, <1>4, <1>5 DEF RoomInv
<1>7. line' = [line EXCEPT ![c] = s]
  BY DEF Exit, s
<1>8. line'[c] = s
  BY <1>7 DEF PromiseInv, TypeOK
<1>9. host' = [host EXCEPT ![c] = h]
  <2>1. host' = [host EXCEPT ![c] = IF u = host[c] THEN line'[c][1] ELSE host[c]]
    BY DEF Exit
  <2> QED
    BY <1>8, <2>1
<1>10. /\ phase' = [phase EXCEPT ![c] = phase[c]] /\ cap' = [cap EXCEPT ![c] = cap[c]]
       /\ launches' = [launches EXCEPT ![c] = launches[c]]
  BY Untouched DEF PromiseInv, Exit
<1> HIDE DEF h
<1> QED
  BY <1>6, <1>7, <1>9, <1>10, OneRoom

\* The game starts.
LEMMA LaunchKeeps ==
    ASSUME PromiseInv, NEW c \in RoomCodes, Launch(c)
    PROVE  PromiseInv'
<1>1. RoomInv(c, phase[c], line[c], host[c], cap[c], launches[c])
  BY RoomKnown
<1>2. RoomInv(c, "playing", line[c], host[c], cap[c], launches[c] + 1)
  BY <1>1 DEF RoomInv, Launch
<1>3. /\ line' = [line EXCEPT ![c] = line[c]] /\ host' = [host EXCEPT ![c] = host[c]]
      /\ cap' = [cap EXCEPT ![c] = cap[c]]
  BY Untouched DEF PromiseInv, Launch
<1>4. /\ phase' = [phase EXCEPT ![c] = "playing"]
      /\ launches' = [launches EXCEPT ![c] = launches[c] + 1]
  BY DEF Launch
<1> QED
  BY <1>2, <1>3, <1>4, OneRoom

----------------------------------------------------------------------------
(* The theorems.                                                           *)

\* Rooms behave as promised in every step.
LEMMA PromiseKept ==
    ASSUME CapsPositive, PromiseInv, [Next]_promiseVars
    PROVE  PromiseInv'
<1>1. CASE Next
  BY <1>1, OpenKeeps, EnterKeeps, ExitLastKeeps, ExitKeeps, LaunchKeeps DEF Next
<1>2. CASE UNCHANGED promiseVars
  BY <1>2 DEF promiseVars, PromiseInv, TypeOK, HostIsFirst, NobodyInside, WithinCap, LaunchedOnce
<1> QED
  BY <1>1, <1>2

\* Rooms nobody has opened are as promised.
LEMMA PromiseInit ==
    ASSUME Init
    PROVE  PromiseInv
<1>1. <<>> \in Seq(Users) /\ Len(<<>>) = 0
  BY EmptySeq
<1> QED
  BY <1>1 DEF Init, PromiseInv, TypeOK, HostIsFirst, NobodyInside, WithinCap, LaunchedOnce

\* For any users, rooms and positive limits: an open room has players, the one who
\* has been there longest is its host, it is never too full, and a game is started
\* once at most.
THEOREM PromiseCorrect ==
    CapsPositive => (Spec => [](TypeOK /\ HostIsFirst /\ NobodyInside /\ WithinCap /\ LaunchedOnce))
<1> SUFFICES ASSUME CapsPositive
             PROVE  Spec => [](TypeOK /\ HostIsFirst /\ NobodyInside /\ WithinCap /\ LaunchedOnce)
  OBVIOUS
<1>1. Init => PromiseInv
  BY PromiseInit
<1>2. PromiseInv /\ [Next]_promiseVars => PromiseInv'
  BY PromiseKept
<1> QED
  BY <1>1, <1>2, PTL DEF Spec, PromiseInv
=============================================================================
