----------------------------- MODULE TeamProofs -----------------------------
(***************************************************************************)
(* Proofs about the triggers of the oracles, the registry of a sidecar,    *)
(* the processes of an agent, the workers and nbs-hub, for every number of *)
(* sidecars, paths, launches, loops, tasks, commands and faults, and every *)
(* audit threshold, size of the hub's registry, and set of phases and      *)
(* documents.                                                              *)
(***************************************************************************)
EXTENDS Triggers, Registry, Agents, Workers, Hub, FiniteSetTheorems, SequenceTheorems,
        WellFoundedInduction, TLAPS

-----------------------------------------------------------------------------
(***************************************************************************)
(* The triggers: runs of an oracle are RECHECK apart.                      *)
(***************************************************************************)

\* The invariant holds at the start.
LEMMA TriggersInit == TInit => TInv
BY TriggersAssumption DEF TInit, TInv, TTypeOK, Steps, LockHeld, Past, Due, Rechecked,
                          StampKept, SeedSoon

\* Every step keeps it.
LEMMA TriggersStep == TInv /\ [TNext]_tvars => TInv'
<1> SUFFICES ASSUME TInv, [TNext]_tvars PROVE TInv'
  OBVIOUS
<1> USE TriggersAssumption DEF TInv, TTypeOK, Steps, LockHeld, Past, Due, Rechecked,
                          StampKept, SeedSoon, Goes, Elapsed
<1>1. CASE UNCHANGED tvars
  BY <1>1 DEF tvars
<1>2. ASSUME NEW s \in Sidecars, trigger_periodic_check(s) PROVE TInv'
  BY <1>2 DEF trigger_periodic_check
<1>3. ASSUME NEW s \in Sidecars, Seed(s) PROVE TInv'
  BY <1>3 DEF Seed
<1>4. ASSUME NEW s \in Sidecars, TryLock(s) PROVE TInv'
  BY <1>4 DEF TryLock
<1>5. ASSUME NEW s \in Sidecars, Recheck(s) PROVE TInv'
  BY <1>5 DEF Recheck
<1>6. ASSUME NEW s \in Sidecars, Claim(s) PROVE TInv'
  BY <1>6 DEF Claim
<1>7. ASSUME NEW s \in Sidecars, Spawn(s) PROVE TInv'
  BY <1>7 DEF Spawn
<1>8. ASSUME NEW s \in Sidecars, WorkerSessionActive(s) PROVE TInv'
  BY <1>8 DEF WorkerSessionActive, TFault
<1>9. ASSUME NEW s \in Sidecars, ClaimFails(s) PROVE TInv'
  BY <1>9 DEF ClaimFails, TFault
<1>10. ASSUME NEW s \in Sidecars, KillSidecar(s) PROVE TInv'
  BY <1>10 DEF KillSidecar, TFault
<1>11. CASE RestartTeam
  BY <1>11 DEF RestartTeam, TFault
<1>12. CASE TTick
  BY <1>12 DEF TTick
<1> QED
  BY <1>1, <1>2, <1>3, <1>4, <1>5, <1>6, <1>7, <1>8, <1>9, <1>10, <1>11, <1>12
     DEF TNext, Check

\* The inductive invariant of the triggers: the lock has one holder, and who
\* passed the second look at the timestamp (trigger_periodic_spawn) may claim.
THEOREM TriggersInvariance == TSpec => []TInv
<1>1. TInit => TInv
  BY TriggersInit
<1>2. TInv /\ [TNext]_tvars => TInv'
  BY TriggersStep
<1> QED
  BY <1>1, <1>2, PTL DEF TSpec

\* Only a claim records a run, and it is RECHECK after the last one.
LEMMA OnlyDueClaims ==
    ASSUME TInv, [TNext]_tvars
    PROVE  claimed' # claimed /\ claimed # 0 => claimed' >= claimed + RECHECK
<1> USE DEF tvars
<1>1. ASSUME NEW s \in Sidecars, Claim(s)
      PROVE  claimed' # claimed /\ claimed # 0 => claimed' >= claimed + RECHECK
  BY <1>1 DEF Claim, TInv, Rechecked, Due
<1>2. CASE ~ \E s \in Sidecars : Claim(s)
  BY <1>2 DEF TNext, Check, trigger_periodic_check, Seed, TryLock, Recheck, Spawn,
              WorkerSessionActive, ClaimFails, KillSidecar, RestartTeam, TTick
<1> QED
  BY <1>1, <1>2

\* The runs that trigger_periodic_spawn records for a role are RECHECK apart,
\* however many sidecars race for them.
THEOREM RunsApart == TSpec => ClaimsApart
<1>1. TInv /\ [TNext]_tvars =>
        [claimed' # claimed /\ claimed # 0 => claimed' >= claimed + RECHECK]_tvars
  BY OnlyDueClaims
<1> QED
  BY <1>1, TriggersInvariance, PTL DEF TSpec, ClaimsApart

-----------------------------------------------------------------------------
(***************************************************************************)
(* Induction over the lines of a file.                                     *)
(***************************************************************************)

\* A nonempty set of naturals has a least element.
LEMMA LeastNatural ==
    ASSUME NEW T \in SUBSET Nat, T # {}
    PROVE  \E n \in T : \A m \in T : n =< m
  <1> DEFINE U == {1 .. n : n \in T}
  <1>1. U \subseteq FiniteSubsetsOf(Nat)
    <2>1. \A n \in T : IsFiniteSet(1 .. n) /\ 1 .. n \subseteq Nat
      BY FS_Interval
    <2> QED BY <2>1 DEF FiniteSubsetsOf
  <1>2. U # {}
    OBVIOUS
  <1>3. IsWellFoundedOn(StrictSubsetOrdering(Nat), FiniteSubsetsOf(Nat))
    BY FS_StrictSubsetOrderingWellFounded
  <1>4. \E x \in U : \A y \in U : ~ (<<y, x>> \in StrictSubsetOrdering(Nat))
    <2> HIDE DEF U
    <2> QED BY <1>1, <1>2, <1>3, WFMin
  <1>5. PICK n \in T : \A m \in T : ~ (<<1 .. m, 1 .. n>> \in StrictSubsetOrdering(Nat))
    BY <1>4
  <1>6. ASSUME NEW m \in T, m < n PROVE FALSE
    <2>1. 1 .. m \subseteq 1 .. n /\ 1 .. m # 1 .. n
      BY <1>6
    <2>2. 1 .. m \in SUBSET Nat /\ 1 .. n \in SUBSET Nat
      OBVIOUS
    <2> QED BY <1>5, <2>1, <2>2 DEF StrictSubsetOrdering
  <1> QED BY <1>6

\* A set of numbers up to n that holds 0, and with each number the next, holds all.
LEMMA UpTo ==
    ASSUME NEW n \in Nat, NEW T, 0 \in T, \A i \in 1 .. n : i - 1 \in T => i \in T
    PROVE  \A i \in 0 .. n : i \in T
  <1> DEFINE F == {i \in 0 .. n : i \notin T}
  <1>1. SUFFICES ASSUME F # {} PROVE FALSE
    OBVIOUS
  <1>2. F \in SUBSET Nat
    OBVIOUS
  <1>3. PICK i \in F : \A m \in F : i =< m
    <2> HIDE DEF F
    <2> QED BY <1>1, <1>2, LeastNatural
  <1>4. i \in 1 .. n
    OBVIOUS
  <1>5. i - 1 \notin F
    BY <1>3, <1>4
  <1>6. i - 1 \in T
    BY <1>4, <1>5
  <1> QED BY <1>4, <1>6

\* f copies the lines of s that are in S.
Copies(f, s, S, n) ==
    f = [i \in 0 .. n |-> IF i = 0 THEN <<>>
                          ELSE IF s[i] \in S THEN Append(f[i - 1], s[i]) ELSE f[i - 1]]

LEMMA CopyExists ==
    ASSUME NEW s, NEW S, NEW n \in Nat
    PROVE  \E f : Copies(f, s, S, n)
  <1> DEFINE T == {k \in Nat : \E f : Copies(f, s, S, k)}
  <1>1. 0 \in T
    <2> DEFINE f == [i \in 0 .. 0 |-> <<>>]
    <2>1. Copies(f, s, S, 0)
      BY DEF Copies
    <2> QED BY <2>1
  <1>2. ASSUME NEW i \in 1 .. n, i - 1 \in T PROVE i \in T
    <2>1. PICK f : Copies(f, s, S, i - 1)
      BY <1>2
    <2> DEFINE x == IF s[i] \in S THEN Append(f[i - 1], s[i]) ELSE f[i - 1]
               g == [j \in 0 .. i |-> IF j = i THEN x ELSE f[j]]
    <2>2. \A j \in 0 .. i - 1 : g[j] = f[j]
      OBVIOUS
    <2>3. \A j \in 0 .. i : g[j] = IF j = 0 THEN <<>>
                          ELSE IF s[j] \in S THEN Append(g[j - 1], s[j]) ELSE g[j - 1]
      <3> TAKE j \in 0 .. i
      <3>1. CASE j = i
        <4>1. g[j] = x /\ j # 0 /\ j - 1 \in 0 .. i - 1
          BY <3>1
        <4>2. g[j - 1] = f[i - 1]
          BY <3>1, <4>1, <2>2
        <4> HIDE DEF g
        <4> QED BY <3>1, <4>1, <4>2
      <3>2. CASE j # i
        <4>1. j \in 0 .. i - 1
          BY <3>2
        <4>2. g[j] = f[j]
          BY <4>1, <2>2
        <4>3. j # 0 => g[j - 1] = f[j - 1]
          <5>1. j # 0 => j - 1 \in 0 .. i - 1
            BY <4>1
          <5> QED BY <5>1, <2>2
        <4> HIDE DEF g
        <4>4. f[j] = IF j = 0 THEN <<>>
                     ELSE IF s[j] \in S THEN Append(f[j - 1], s[j]) ELSE f[j - 1]
          BY <4>1, <2>1 DEF Copies
        <4> QED BY <4>2, <4>3, <4>4
      <3> QED BY <3>1, <3>2
    <2>4. g = [j \in 0 .. i |-> g[j]]
      OBVIOUS
    <2> HIDE DEF g
    <2>5. Copies(g, s, S, i)
      BY <2>3, <2>4 DEF Copies
    <2> QED BY <2>5
  <1> HIDE DEF T
  <1>3. n \in 0 .. n
    OBVIOUS
  <1>4. n \in T
    BY <1>1, <1>2, <1>3, UpTo
  <1> QED BY <1>4 DEF T

LEMMA LinesInCopies ==
    ASSUME NEW s \in Seq(Paths), NEW S
    PROVE  \E f : Copies(f, s, S, Len(s)) /\ LinesIn(s, S) = f[Len(s)]
  <1> DEFINE f == CHOOSE f : Copies(f, s, S, Len(s))
  <1>1. Len(s) \in Nat
    OBVIOUS
  <1>2. Copies(f, s, S, Len(s))
    <2>1. \E g : Copies(g, s, S, Len(s))
      BY <1>1, CopyExists
    <2> QED BY <2>1
  <1>3. LinesIn(s, S) = f[Len(s)]
    BY DEF LinesIn, Copies
  <1> QED BY <1>2, <1>3

\* What of the first k lines was copied into c.
Copied(c, s, S, k) ==
    /\ c \in Seq(Paths)
    /\ \A p : (\E j \in 1 .. Len(c) : c[j] = p) <=> p \in S /\ \E i \in 1 .. k : s[i] = p
    /\ IsInjective(s) => IsInjective(c)

\* The lines of S are copied, no others, and none twice.
LEMMA LinesInFacts ==
    ASSUME NEW s \in Seq(Paths), NEW S
    PROVE  Copied(LinesIn(s, S), s, S, Len(s))
  <1>1. Len(s) \in Nat
    OBVIOUS
  <1>2. PICK f : Copies(f, s, S, Len(s)) /\ LinesIn(s, S) = f[Len(s)]
    BY LinesInCopies
  <1> DEFINE T == {k \in 0 .. Len(s) : Copied(f[k], s, S, k)}
  <1>3. 0 \in T
    <2>1. f[0] = <<>>
      BY <1>1, <1>2 DEF Copies
    <2>2. f[0] \in Seq(Paths) /\ Len(f[0]) = 0 /\ DOMAIN f[0] = {}
      BY <2>1
    <2>3. IsInjective(f[0])
      BY <2>2 DEF IsInjective
    <2>4. 0 \in 0 .. Len(s) /\ 1 .. 0 = {}
      BY <1>1
    <2> QED BY <2>2, <2>3, <2>4 DEF Copied
  <1>4. ASSUME NEW k \in 1 .. Len(s), k - 1 \in T PROVE k \in T
    <2>1. f[k] = IF s[k] \in S THEN Append(f[k - 1], s[k]) ELSE f[k - 1]
      <3>1. k \in 0 .. Len(s) /\ k # 0
        BY <1>1
      <3> QED BY <1>2, <3>1, Zenon DEF Copies
    <2>2. Copied(f[k - 1], s, S, k - 1)
      BY <1>4
    <2>3. s[k] \in Paths
      OBVIOUS
    <2> SUFFICES ASSUME NEW c, c = f[k - 1], NEW d, d = f[k] PROVE Copied(d, s, S, k)
      OBVIOUS
    <2>4. Copied(c, s, S, k - 1) /\ d = IF s[k] \in S THEN Append(c, s[k]) ELSE c
      BY <2>1, <2>2
    <2>5. c \in Seq(Paths)
      BY <2>4 DEF Copied
    <2>6. \A p : (\E i \in 1 .. k : s[i] = p) <=> (p = s[k] \/ \E i \in 1 .. k - 1 : s[i] = p)
      OBVIOUS
    <2>7. CASE s[k] \in S
      <3>1. d = Append(c, s[k])
        BY <2>4, <2>7
      <3>2. d \in Seq(Paths) /\ Len(d) = Len(c) + 1 /\ d[Len(c) + 1] = s[k]
            /\ \A j \in 1 .. Len(c) : d[j] = c[j]
        BY <3>1, <2>3, <2>5
      <3>3. \A p : (\E j \in 1 .. Len(d) : d[j] = p)
                      <=> (p = s[k] \/ \E j \in 1 .. Len(c) : c[j] = p)
        <4>1. Len(c) \in Nat
          BY <2>5
        <4>2. 1 .. Len(d) = (1 .. Len(c)) \cup {Len(c) + 1}
          BY <4>1, <3>2
        <4> QED BY <4>2, <3>2, Zenon
      <3>4. \A p : (\E j \in 1 .. Len(d) : d[j] = p) <=> p \in S /\ \E i \in 1 .. k : s[i] = p
        BY <3>3, <2>4, <2>6, <2>7 DEF Copied
      <3>5. ASSUME IsInjective(s) PROVE IsInjective(d)
        <4>1. IsInjective(c)
          BY <3>5, <2>4 DEF Copied
        <4>2. ASSUME NEW j \in 1 .. Len(c) PROVE c[j] # s[k]
          <5>1. PICK i \in 1 .. k - 1 : s[i] = c[j]
            BY <2>4 DEF Copied
          <5>2. i \in DOMAIN s /\ k \in DOMAIN s /\ i # k
            OBVIOUS
          <5> QED BY <5>1, <5>2, <3>5 DEF IsInjective
        <4>3. \A a, b \in 1 .. Len(c) : c[a] = c[b] => a = b
          BY <4>1, <2>5 DEF IsInjective
        <4>4. ASSUME NEW a \in 1 .. Len(d), NEW b \in 1 .. Len(d), d[a] = d[b] PROVE a = b
          <5>1. CASE a \in 1 .. Len(c) /\ b \in 1 .. Len(c)
            BY <5>1, <4>3, <4>4, <3>2
          <5>2. CASE a = Len(c) + 1 /\ b \in 1 .. Len(c)
            BY <5>2, <4>2, <4>4, <3>2
          <5>3. CASE b = Len(c) + 1 /\ a \in 1 .. Len(c)
            BY <5>3, <4>2, <4>4, <3>2
          <5> QED BY <5>1, <5>2, <5>3, <3>2
        <4>5. DOMAIN d = 1 .. Len(d)
          BY <3>2
        <4> QED BY <4>4, <4>5 DEF IsInjective
      <3> QED BY <3>2, <3>4, <3>5 DEF Copied
    <2>8. CASE s[k] \notin S
      <3>1. d = c
        BY <2>4, <2>8
      <3>2. \A p : (\E j \in 1 .. Len(d) : d[j] = p) <=> p \in S /\ \E i \in 1 .. k : s[i] = p
        BY <3>1, <2>4, <2>6, <2>8 DEF Copied
      <3> QED BY <3>1, <3>2, <2>4 DEF Copied
    <2> QED BY <2>7, <2>8
  <1> HIDE DEF T
  <1>5. Len(s) \in 0 .. Len(s)
    BY <1>1
  <1>6. Len(s) \in T
    BY <1>1, <1>3, <1>4, <1>5, UpTo
  <1> QED BY <1>2, <1>6 DEF T

-----------------------------------------------------------------------------
(***************************************************************************)
(* The inbox decides.                                                      *)
(***************************************************************************)

CommandFor(c, p) == c.verb # "none" /\ c.path = p

\* The lines of the inbox whose effect is in the registry for good.
Done == IF rpc = "work" THEN total - Len(batch) ELSE control_inbox_line

Listed(p) == \E i \in 1 .. Len(registry) : registry[i] = p

RTypeOK ==
    /\ files \subseteq Paths
    /\ registry \in Seq(Paths) /\ IsInjective(registry)
    /\ inbox \in Seq(Commands)
    /\ control_inbox_line \in Nat /\ total \in Nat
    /\ batch \in Seq(Commands)
    /\ rpc \in {"seed", "idle", "work"}

\* The batch is the rest of what was read of the inbox.
BatchInv ==
    /\ rpc = "seed" => control_inbox_line = 0
    /\ control_inbox_line =< Len(inbox)
    /\ rpc = "work" =>
          /\ total =< Len(inbox) /\ Len(batch) =< total
          /\ control_inbox_line =< total - Len(batch)
          /\ \A k \in 1 .. Len(batch) : batch[k] = inbox[total - Len(batch) + k]

\* A line that is done and is the last one for its path has its effect.
LastInv ==
    \A p \in Paths, i \in 1 .. Len(inbox) :
        /\ i =< Done /\ CommandFor(inbox[i], p)
        /\ \A j \in 1 .. Len(inbox) : j > i => ~CommandFor(inbox[j], p)
        => (Listed(p) <=> inbox[i].verb = "register")

RInv == RTypeOK /\ BatchInv /\ LastInv

\* An appended path is listed once.
LEMMA AppendFacts ==
    ASSUME RTypeOK, NEW q \in Paths, ~registry_contains(q)
    PROVE  /\ registry_append(q) \in Seq(Paths) /\ IsInjective(registry_append(q))
           /\ \A p : (\E i \in 1 .. Len(registry_append(q)) : registry_append(q)[i] = p)
                        <=> Listed(p) \/ p = q
  <1> SUFFICES ASSUME NEW d, d = registry_append(q)
               PROVE  /\ d \in Seq(Paths) /\ IsInjective(d)
                      /\ \A p : (\E i \in 1 .. Len(d) : d[i] = p) <=> Listed(p) \/ p = q
    BY Zenon
  <1>1. registry \in Seq(Paths) /\ Len(registry) \in Nat /\ DOMAIN registry = 1 .. Len(registry)
    BY DEF RTypeOK
  <1>2. /\ d \in Seq(Paths) /\ Len(d) = Len(registry) + 1 /\ d[Len(registry) + 1] = q
        /\ \A i \in 1 .. Len(registry) : d[i] = registry[i]
    BY <1>1 DEF registry_append
  <1>3. 1 .. Len(d) = (1 .. Len(registry)) \cup {Len(registry) + 1} /\ DOMAIN d = 1 .. Len(d)
    BY <1>1, <1>2
  <1>4. \A p : (\E i \in 1 .. Len(d) : d[i] = p) <=> Listed(p) \/ p = q
    BY <1>2, <1>3, Zenon DEF Listed
  <1>5. \A a, b \in 1 .. Len(registry) : registry[a] = registry[b] => a = b
    BY <1>1 DEF RTypeOK, IsInjective
  <1>6. \A a \in 1 .. Len(registry) : registry[a] # q
    BY <1>1 DEF registry_contains
  <1>7. ASSUME NEW a \in DOMAIN d, NEW b \in DOMAIN d, d[a] = d[b] PROVE a = b
    <2>1. CASE a \in 1 .. Len(registry) /\ b \in 1 .. Len(registry)
      BY <2>1, <1>2, <1>5, <1>7, Zenon
    <2>2. CASE a = Len(registry) + 1 /\ b \in 1 .. Len(registry)
      BY <2>2, <1>2, <1>6, <1>7, Zenon
    <2>3. CASE b = Len(registry) + 1 /\ a \in 1 .. Len(registry)
      BY <2>3, <1>2, <1>6, <1>7, Zenon
    <2>4. /\ a \in 1 .. Len(registry) \/ a = Len(registry) + 1
          /\ b \in 1 .. Len(registry) \/ b = Len(registry) + 1
      BY <1>3
    <2> QED BY <2>1, <2>2, <2>3, <2>4, Zenon
  <1> QED BY <1>2, <1>4, <1>7 DEF IsInjective

\* A removed path is no longer listed, the others are.
LEMMA RemoveFacts ==
    ASSUME RTypeOK, NEW q \in Paths
    PROVE  /\ registry_remove(q) \in Seq(Paths) /\ IsInjective(registry_remove(q))
           /\ \A p \in Paths : (\E i \in 1 .. Len(registry_remove(q)) : registry_remove(q)[i] = p)
                                  <=> Listed(p) /\ p # q
  <1>1. registry \in Seq(Paths) /\ IsInjective(registry)
    BY DEF RTypeOK
  <1>2. Copied(registry_remove(q), registry, Paths \ {q}, Len(registry))
    BY <1>1, LinesInFacts DEF registry_remove
  <1> QED BY <1>1, <1>2 DEF Copied, Listed

LEMMA RInvInit == RInit => RInv
  <1> SUFFICES ASSUME RInit PROVE RInv
    OBVIOUS
  <1> QED BY DEF RInit, RInv, RTypeOK, BatchInv, LastInv, IsInjective, Done

LEMMA CommandTyped ==
    ASSUME NEW c \in Commands
    PROVE  c.verb \in {"register", "unregister", "none"} /\ (c.verb # "none" => c.path \in Paths)
  BY DEF Commands

\* A step that changes neither the registry nor the inbox, and does not count
\* more lines as done.
LEMMA LastInvKept ==
    ASSUME RInv, UNCHANGED <<registry, inbox>>, Done' =< Done, Done \in Int, Done' \in Int
    PROVE  LastInv'
  <1>1. \A p : Listed(p)' <=> Listed(p)
    BY DEF Listed
  <1>2. ASSUME NEW p \in Paths, NEW i \in 1 .. Len(inbox),
               i =< Done', CommandFor(inbox[i], p),
               \A j \in 1 .. Len(inbox) : j > i => ~CommandFor(inbox[j], p)
        PROVE  Listed(p) <=> inbox[i].verb = "register"
    <2>1. i =< Done
      BY <1>2
    <2> QED BY <2>1, <1>2 DEF RInv, LastInv
  <1> QED BY <1>1, <1>2 DEF LastInv

\* What is left of a sequence after its first c elements.
LEMMA RestFacts ==
    ASSUME NEW S, NEW s \in Seq(S), NEW c \in Nat, c < Len(s)
    PROVE  /\ SubSeq(s, c + 1, Len(s)) \in Seq(S) /\ Len(SubSeq(s, c + 1, Len(s))) = Len(s) - c
           /\ \A k \in 1 .. Len(s) - c : SubSeq(s, c + 1, Len(s))[k] = s[c + k]
  OBVIOUS

LEMMA RInvStep == RInv /\ [RNext]_rvars => RInv'
  <1> SUFFICES ASSUME RInv, [RNext]_rvars PROVE RInv'
    OBVIOUS
  <1> USE DEF RInv
  <1>0. /\ Len(inbox) \in Nat /\ Len(batch) \in Nat /\ Len(registry) \in Nat
        /\ Done \in Int
    BY DEF RTypeOK, Done
  <1>1. CASE UNCHANGED rvars
    <2>1. RTypeOK' /\ BatchInv' /\ Done' = Done
      BY <1>1 DEF rvars, RTypeOK, BatchInv, Done
    <2> QED BY <2>1, <1>0, <1>1, LastInvKept DEF rvars
  <1>2. CASE registry_seed
    <2>1. CASE UNCHANGED registry
      <3>1. RTypeOK' /\ BatchInv' /\ Done' = Done
        BY <2>1, <1>2 DEF registry_seed, RTypeOK, BatchInv, Done, RFault
      <3> QED BY <2>1, <3>1, <1>0, <1>2, LastInvKept DEF registry_seed
    <2>2. CASE registry' # registry
      <3>1. PICK p \in files : ~registry_contains(p) /\ registry' = registry_append(p)
        BY <2>2, <1>2 DEF registry_seed
      <3>2. p \in Paths
        BY DEF RTypeOK
      <3>3. registry' \in Seq(Paths) /\ IsInjective(registry')
        BY <3>1, <3>2, AppendFacts
      <3>4. /\ rpc' = rpc /\ rpc = "seed"
            /\ UNCHANGED <<files, inbox, control_inbox_line, batch, total>>
        BY <3>1, <2>2, <1>2 DEF registry_seed
      <3>5. RTypeOK' /\ BatchInv' /\ Done' = 0
        BY <3>3, <3>4 DEF RTypeOK, BatchInv, Done
      <3>6. LastInv'
        BY <3>5 DEF LastInv
      <3> QED BY <3>5, <3>6
    <2> QED BY <2>1, <2>2
  <1>3. CASE ReadInbox
    <2> DEFINE c == control_inbox_line
    <2>1. c \in Nat /\ c < Len(inbox) /\ inbox \in Seq(Commands)
      BY <1>3, <1>0 DEF ReadInbox, RTypeOK
    <2>2. batch' = SubSeq(inbox, c + 1, Len(inbox)) /\ rpc = "idle" /\ rpc' = "work"
          /\ total' = Len(inbox) /\ UNCHANGED <<files, registry, inbox, control_inbox_line>>
      BY <1>3 DEF ReadInbox
    <2>3. /\ batch' \in Seq(Commands) /\ Len(batch') = Len(inbox) - c
          /\ \A k \in 1 .. Len(inbox) - c : batch'[k] = inbox[c + k]
      <3> HIDE DEF c
      <3>1. /\ SubSeq(inbox, c + 1, Len(inbox)) \in Seq(Commands)
            /\ Len(SubSeq(inbox, c + 1, Len(inbox))) = Len(inbox) - c
            /\ \A k \in 1 .. Len(inbox) - c : SubSeq(inbox, c + 1, Len(inbox))[k] = inbox[c + k]
        BY <2>1, RestFacts
      <3> QED BY <3>1, <2>2
    <2> HIDE DEF c
    <2>4. total' - Len(batch') = c
      BY <2>1, <2>2, <2>3, <1>0
    <2>5. RTypeOK'
      BY <2>2, <2>3, <1>0 DEF RTypeOK
    <2>6. BatchInv'
      <3>1. Len(batch') \in Nat /\ Len(batch') =< total' /\ total' =< Len(inbox')
        BY <2>1, <2>2, <2>3, <1>0
      <3>2. \A k \in 1 .. Len(batch') : batch'[k] = inbox'[total' - Len(batch') + k]
        BY <2>2, <2>3, <2>4
      <3>3. control_inbox_line' =< total' - Len(batch') /\ control_inbox_line' =< Len(inbox')
        BY <2>1, <2>2, <2>4, <1>0 DEF c
      <3> QED BY <3>1, <3>2, <3>3, <2>2 DEF BatchInv
    <2>7. Done' = Done
      BY <2>2, <2>4 DEF Done, c
    <2> QED BY <2>2, <2>5, <2>6, <2>7, <1>0, LastInvKept
  <1>4. CASE process_control_command
    <2> DEFINE c == Head(batch)
               d == total - Len(batch)
    <2>1. /\ rpc = "work" /\ batch # <<>> /\ batch' = Tail(batch)
          /\ UNCHANGED <<files, inbox, control_inbox_line, total, rpc>>
      BY <1>4 DEF process_control_command
    <2>2. /\ batch \in Seq(Commands) /\ Len(batch) \in Nat \ {0} /\ c = batch[1] /\ c \in Commands
          /\ batch' \in Seq(Commands) /\ Len(batch') = Len(batch) - 1
          /\ \A k \in 1 .. Len(batch) - 1 : batch'[k] = batch[k + 1]
      BY <2>1 DEF RTypeOK
    <2>3. /\ d \in Nat /\ total \in Nat /\ d + 1 \in 1 .. Len(inbox) /\ d + 1 =< total
          /\ inbox[d + 1] = c /\ control_inbox_line =< d
          /\ total =< Len(inbox)
      BY <2>1, <2>2, <1>0 DEF BatchInv, RTypeOK
    <2>4. total' - Len(batch') = d + 1
      BY <2>1, <2>2, <2>3
    <2>5. Done = d /\ Done' = d + 1
      BY <2>1, <2>4 DEF Done
    <2>6. BatchInv'
      <3>1. \A k \in 1 .. Len(batch') : batch'[k] = inbox'[total' - Len(batch') + k]
        <4> TAKE k \in 1 .. Len(batch')
        <4>1. k + 1 \in 1 .. Len(batch) /\ batch'[k] = batch[k + 1]
          BY <2>2
        <4>2. batch[k + 1] = inbox[d + (k + 1)]
          BY <4>1, <2>1 DEF BatchInv
        <4>3. d + (k + 1) = d + 1 + k
          BY <2>2, <2>3
        <4> HIDE DEF d
        <4> QED BY <4>1, <4>2, <4>3, <2>1, <2>4
      <3>2. Len(batch') =< total'
        BY <2>1, <2>2, <2>3
      <3>3. control_inbox_line =< d + 1 /\ control_inbox_line =< Len(inbox)
        BY <2>3, <1>0 DEF RTypeOK
      <3> HIDE DEF d
      <3> QED BY <3>1, <3>2, <3>3, <2>1, <2>3, <2>4 DEF BatchInv
    <2> HIDE DEF d
    <2>7. /\ registry' \in Seq(Paths) /\ IsInjective(registry')
          /\ \A p \in Paths : Listed(p)' <=> IF CommandFor(c, p) THEN c.verb = "register" ELSE Listed(p)
      <3>1. registry' = CASE c.verb = "register" ->
                               IF registry_contains(c.path) THEN registry
                               ELSE registry_append(c.path)
                          [] c.verb = "unregister" -> registry_remove(c.path)
                          [] OTHER -> registry
        BY <1>4 DEF process_control_command
      <3> HIDE DEF c
      <3>2. c.verb \in {"register", "unregister", "none"} /\ (c.verb # "none" => c.path \in Paths)
        BY <2>2, CommandTyped
      <3>3. CASE c.verb = "register" /\ ~registry_contains(c.path)
        <4>1. registry' = registry_append(c.path)
          BY <3>1, <3>3
        <4>2. /\ registry' \in Seq(Paths) /\ IsInjective(registry')
              /\ \A p : (\E i \in 1 .. Len(registry') : registry'[i] = p) <=> Listed(p) \/ p = c.path
          BY <3>2, <3>3, <4>1, AppendFacts
        <4> QED BY <4>2, <3>3 DEF Listed, CommandFor
      <3>4. CASE c.verb = "register" /\ registry_contains(c.path)
        <4>3. DOMAIN registry = 1 .. Len(registry)
          BY DEF RTypeOK
        <4>4. Listed(c.path)
          BY <3>4, <4>3, Zenon DEF registry_contains, Listed
        <4>5. registry' = registry
          BY <3>1, <3>4
        <4>1. registry' = registry /\ Listed(c.path)
          BY <4>4, <4>5
        <4>2. \A p : Listed(p)' <=> Listed(p)
          BY <4>1 DEF Listed
        <4> QED BY <4>1, <4>2, <3>4 DEF CommandFor, RTypeOK
      <3>5. CASE c.verb = "unregister"
        <4>1. registry' = registry_remove(c.path)
          BY <3>1, <3>5
        <4>2. /\ registry' \in Seq(Paths) /\ IsInjective(registry')
              /\ \A p \in Paths : (\E i \in 1 .. Len(registry') : registry'[i] = p)
                                     <=> Listed(p) /\ p # c.path
          <5>1. c.path \in Paths
            BY <3>2, <3>5
          <5>2. /\ registry_remove(c.path) \in Seq(Paths) /\ IsInjective(registry_remove(c.path))
                /\ \A p \in Paths :
                      (\E i \in 1 .. Len(registry_remove(c.path)) : registry_remove(c.path)[i] = p)
                         <=> Listed(p) /\ p # c.path
            BY <5>1, RemoveFacts, Zenon
          <5> QED BY <5>2, <4>1, Zenon
        <4> QED BY <4>2, <3>5 DEF Listed, CommandFor
      <3>6. CASE c.verb = "none"
        <4>1. registry' = registry
          BY <3>1, <3>6
        <4>2. \A p : Listed(p)' <=> Listed(p)
          BY <4>1 DEF Listed
        <4> QED BY <4>1, <4>2, <3>6 DEF CommandFor, RTypeOK
      <3> QED BY <3>2, <3>3, <3>4, <3>5, <3>6
    <2>8. RTypeOK'
      BY <2>1, <2>2, <2>7 DEF RTypeOK
    <2>9. LastInv'
      <3> SUFFICES ASSUME NEW p \in Paths, NEW i \in 1 .. Len(inbox),
                          i =< d + 1, CommandFor(inbox[i], p),
                          \A j \in 1 .. Len(inbox) : j > i => ~CommandFor(inbox[j], p)
                   PROVE  Listed(p)' <=> inbox[i].verb = "register"
        BY <2>1, <2>5 DEF LastInv
      <3> HIDE DEF c
      <3>1. CASE i = d + 1
        BY <3>1, <2>3, <2>7
      <3>2. CASE i =< d
        <4>1. ~CommandFor(c, p)
          BY <3>2, <2>3
        <4>2. Listed(p) <=> inbox[i].verb = "register"
          BY <3>2, <2>5 DEF LastInv
        <4> QED BY <4>1, <4>2, <2>7
      <3> QED BY <3>1, <3>2, <2>3
    <2> QED BY <2>6, <2>8, <2>9
  <1>5. CASE InboxDone
    <2>1. RTypeOK' /\ BatchInv' /\ Done' = Done
      BY <1>0, <1>5 DEF InboxDone, RTypeOK, BatchInv, Done
    <2> QED BY <2>1, <1>0, <1>5, LastInvKept DEF InboxDone
  <1>6. CASE InboxFails
    <2>1. RTypeOK' /\ BatchInv' /\ Done' =< Done /\ Done' \in Int
      BY <1>0, <1>6 DEF InboxFails, RTypeOK, BatchInv, Done
    <2> QED BY <2>1, <1>0, <1>6, LastInvKept DEF InboxFails
  <1>8. CASE RestartSidecar
    <2>1. RTypeOK' /\ BatchInv' /\ Done' = 0 /\ Done >= 0
      BY <1>0, <1>8 DEF RestartSidecar, RTypeOK, BatchInv, Done
    <2> QED BY <2>1, <1>0, <1>8, LastInvKept DEF RestartSidecar
  <1>9. ASSUME NEW p \in Paths, FileChanges(p) PROVE RInv'
    <2>1. RTypeOK' /\ BatchInv' /\ Done' = Done
      BY <1>0, <1>9 DEF FileChanges, RTypeOK, BatchInv, Done
    <2> QED BY <2>1, <1>0, <1>9, LastInvKept DEF FileChanges
  <1>10. ASSUME NEW c \in Commands, Command(c) PROVE RInv'
    <2>1. inbox' = Append(inbox, c) /\ inbox \in Seq(Commands)
          /\ UNCHANGED <<files, registry, control_inbox_line, batch, total, rpc>>
      BY <1>10 DEF Command, RTypeOK
    <2>2. /\ inbox' \in Seq(Commands) /\ Len(inbox') = Len(inbox) + 1
          /\ inbox'[Len(inbox) + 1] = c
          /\ \A i \in 1 .. Len(inbox) : inbox'[i] = inbox[i]
      BY <2>1
    <2>3. RTypeOK'
      BY <2>1, <2>2 DEF RTypeOK
    <2>4. Done' = Done /\ Done =< Len(inbox)
      BY <2>1, <1>0 DEF Done, BatchInv, RTypeOK
    <2>5. BatchInv'
      <3>1. CASE rpc = "work"
        <4>1. \A k \in 1 .. Len(batch) : total - Len(batch) + k \in 1 .. Len(inbox)
          BY <3>1, <1>0 DEF BatchInv, RTypeOK
        <4>2. \A k \in 1 .. Len(batch) : batch[k] = inbox'[total - Len(batch) + k]
          BY <4>1, <3>1, <2>2 DEF BatchInv
        <4>3. total =< Len(inbox') /\ control_inbox_line =< Len(inbox')
          BY <3>1, <2>2, <1>0 DEF BatchInv, RTypeOK
        <4> QED BY <4>2, <4>3, <3>1, <2>1 DEF BatchInv
      <3>2. CASE rpc # "work"
        BY <3>2, <2>1, <2>2, <1>0 DEF BatchInv, RTypeOK
      <3> QED BY <3>1, <3>2
    <2>6. LastInv'
      <3> SUFFICES ASSUME NEW p \in Paths, NEW i \in 1 .. Len(inbox'),
                          i =< Done, CommandFor(inbox'[i], p),
                          \A j \in 1 .. Len(inbox') : j > i => ~CommandFor(inbox'[j], p)
                   PROVE  Listed(p)' <=> inbox'[i].verb = "register"
        BY <2>4 DEF LastInv
      <3>1. i \in 1 .. Len(inbox) /\ inbox'[i] = inbox[i]
        BY <2>2, <2>4, <1>0
      <3>2. \A j \in 1 .. Len(inbox) : j > i => ~CommandFor(inbox[j], p)
        <4> TAKE j \in 1 .. Len(inbox)
        <4>1. j \in 1 .. Len(inbox') /\ inbox'[j] = inbox[j]
          BY <2>2, <1>0
        <4> QED BY <4>1
      <3>3. Listed(p)' <=> Listed(p)
        BY <2>1 DEF Listed
      <3>4. Listed(p) <=> inbox[i].verb = "register"
        BY <3>1, <3>2 DEF LastInv
      <3> QED BY <3>1, <3>3, <3>4
    <2> QED BY <2>3, <2>5, <2>6
  <1> QED BY <1>1, <1>2, <1>3, <1>4, <1>5, <1>6, <1>8, <1>9, <1>10 DEF RNext, RStep

\* The last of some lines.
LEMMA LastOf ==
    ASSUME NEW n \in Nat, NEW A \in SUBSET (1 .. n), A # {}
    PROVE  \E i \in A : \A j \in A : j =< i
  <1> DEFINE T == {n - i : i \in A}
  <1>0. \A i \in A : i \in 1 .. n /\ n - i \in Nat
    OBVIOUS
  <1>1. T \in SUBSET Nat /\ T # {}
    BY <1>0, Zenon
  <1>2. PICK m \in T : \A k \in T : m =< k
    <2> HIDE DEF T
    <2> QED BY <1>1, LeastNatural
  <1>3. PICK i \in A : m = n - i
    OBVIOUS
  <1>4. \A j \in A : n - i =< n - j
    BY <1>2, <1>3
  <1>5. \A j \in A : j =< i
    BY <1>0, <1>4
  <1> QED BY <1>5

LEMMA RInvDecides == RInv => InboxDecides
  <1> SUFFICES ASSUME RInv, rpc = "idle", control_inbox_line = Len(inbox) PROVE InboxDecides
    BY DEF InboxDecides
  <1> USE DEF RInv
  <1>1. /\ Len(inbox) \in Nat /\ registry \in Seq(Paths) /\ IsInjective(registry)
        /\ inbox \in Seq(Commands) /\ DOMAIN inbox = 1 .. Len(inbox)
    BY DEF RTypeOK
  <1>2. ASSUME NEW p \in Paths, LastFor(p) # "none"
        PROVE  Listed(p) <=> LastFor(p) = "register"
    <2> DEFINE at == {i \in DOMAIN inbox : inbox[i].verb # "none" /\ inbox[i].path = p}
    <2>1. LastFor(p) = IF at = {} THEN "none" ELSE inbox[CHOOSE i \in at : \A j \in at : j =< i].verb
      BY DEF LastFor
    <2>2. at # {} /\ at \in SUBSET (1 .. Len(inbox))
      BY <2>1, <1>1, <1>2
    <2>3. \A i \in at : CommandFor(inbox[i], p)
      BY DEF CommandFor
    <2>4. \A i \in 1 .. Len(inbox) : CommandFor(inbox[i], p) => i \in at
      BY <1>1 DEF CommandFor
    <2> HIDE DEF at
    <2>5. PICK i \in at : i = (CHOOSE k \in at : \A j \in at : j =< k) /\ \A j \in at : j =< i
      <3>1. \E k \in at : \A j \in at : j =< k
        BY <2>2, <1>1, LastOf
      <3> QED BY <3>1
    <2>6. i \in 1 .. Len(inbox) /\ i =< Done
      BY <2>2, <1>1 DEF Done
    <2>7. \A j \in 1 .. Len(inbox) : j > i => ~CommandFor(inbox[j], p)
      BY <2>4, <2>5, <2>6
    <2>8. Listed(p) <=> inbox[i].verb = "register"
      BY <2>3, <2>6, <2>7 DEF LastInv
    <2> QED BY <2>1, <2>2, <2>5, <2>8
  <1>3. Copied(registry_for_each, registry, files, Len(registry))
    BY <1>1, LinesInFacts DEF registry_for_each
  <1>4. \A p : Contains(registry_for_each, p) <=> p \in files /\ Listed(p)
    BY <1>3 DEF Copied, Contains, Listed
  <1>5. ASSUME NEW p \in files, LastFor(p) = "register" PROVE Contains(registry_for_each, p)
    BY <1>2, <1>4, <1>5 DEF RTypeOK
  <1>6. ASSUME NEW p \in Paths, LastFor(p) = "unregister"
        PROVE  ~Contains(registry_for_each, p) /\ p \notin registry_find_first
    <2>1. ~Listed(p)
      BY <1>2, <1>6
    <2>2. registry # <<>> => registry[1] # p
      BY <2>1, <1>1 DEF Listed
    <2> QED BY <2>1, <2>2, <1>4 DEF registry_find_first
  <1>7. IsInjective(registry_for_each)
    BY <1>1, <1>3 DEF Copied
  <1> QED BY <1>5, <1>6, <1>7 DEF InboxDecides

\* The last command for a chat decides whether the sidecar visits it, for any
\* number of chats, commands, restarts and failed writes (process_control_command,
\* registry_process_inbox, registry_seed).
THEOREM InboxDecidesTheorem == RSpec => []InboxDecides
  BY RInvInit, RInvStep, RInvDecides, PTL DEF RSpec

-----------------------------------------------------------------------------
(***************************************************************************)
(* The PID file of an agent.                                               *)
(***************************************************************************)

ATypeOK ==
    /\ claude \in [Launches -> {"none", "launched", "meta", "create", "loop", "poll",
                                "clean_pid", "clean_meta", "clean_loop", "clean_session",
                                "gone"}]
    /\ session \in [Launches -> {"none", "alive", "dead", "removed"}]

\* a is the last launch.
Newest(a) == \A b \in Launches : b > a => claude[b] = "none"

\* The launches come in their order, one at a time: the script waits for a new
\* one to write its PID file.
OrderInv ==
    /\ \A a, b \in Launches : b < a /\ claude[a] # "none" => claude[b] # "none"
    /\ \A a \in Launches : claude[a] = "launched" => op = "verify" /\ Newest(a)

\* nbs-team-kill starts when no launch is under way, and nobody can launch
\* until it is over.
TeamKillInv ==
    /\ op \in {"team_sidecars", "team_sessions"} =>
           \A a \in Launches : claude[a] \notin {"launched", "meta", "create", "loop"}
    /\ \A a \in Launches : claude[a] \in {"loop", "poll"} => session[a] # "none"

\* The PID file names a launch until a later one writes its own.
Unwritten(a) == claude[a] \in {"none", "launched"}
WrittenInv ==
    /\ pidfile \in Launches \cup {None}
    /\ \A a, b \in Launches : b < a /\ pidfile = b => Unwritten(a)

\* A cleanup that removes the PID file found its own there: every later launch
\* has written, or will write, while it is between the cat and the rm.
TornInv ==
    \A a, b \in Launches :
        b < a /\ claude[b] = "clean_pid" => Unwritten(a) \/ a \in torn

\* The last launch has its PID file from its first step to the end of its
\* poll, unless it wrote it in a cleanup, until a script removes it that is
\* about to launch, or one that has removed the session.
PidfileInv ==
    \A a \in Launches :
        /\ claude[a] \in {"meta", "create", "loop", "poll"}
        /\ Newest(a)
        /\ op # "kick_launch"
        /\ a \notin torn
        => pidfile = a \/ (claude[a] = "poll" /\ ~Alive(a))

AInv == ATypeOK /\ OrderInv /\ TeamKillInv /\ WrittenInv /\ TornInv /\ PidfileInv

\* Steps of loops and sidecars, and of scripts that start and kill them, leave
\* the launches alone.
Apart ==
    /\ UNCHANGED <<claude, session, pidfile, torn>>
    /\ op \notin {"verify", "kick_launch"}
    /\ op' \notin {"verify", "kick_launch", "team_sidecars", "team_sessions"}

\* Every step keeps the invariant of the PID file.
LEMMA AStep ==
    ASSUME AInv, [ANext]_avars
    PROVE  AInv'
  <1> USE AgentsAssumption DEF AInv, ATypeOK, OrderInv, TeamKillInv, WrittenInv, Unwritten,
                               TornInv, PidfileInv, Newest, Alive, Loops, procs, loops, script
  <1>1. CASE UNCHANGED <<claude, session, pidfile, torn, op>>
    BY <1>1
  <1>2. CASE Apart
    BY <1>2 DEF Apart
  <1>3. ASSUME NEW a \in Launches, WritePidfile(a) PROVE AInv'
    BY <1>3 DEF WritePidfile, Stage
  <1>4. ASSUME NEW a \in Launches, WriteMeta(a) PROVE AInv'
    BY <1>4 DEF WriteMeta, Stage
  <1>5. ASSUME NEW a \in Launches, CreateSession(a) PROVE AInv'
    BY <1>5 DEF CreateSession, Stage
  <1>6. ASSUME NEW a \in Launches, StartLoop(a) PROVE AInv'
    BY <1>6 DEF StartLoop, Stage
  <1>7. ASSUME NEW a \in Launches, PollEnds(a) PROVE AInv'
    BY <1>7 DEF PollEnds, Stage, None
  <1>7a. ASSUME NEW a \in Launches, RemovePidfile(a) PROVE AInv'
    BY <1>7a DEF RemovePidfile, Stage, None
  <1>8. ASSUME NEW a \in Launches, CleanMeta(a) PROVE AInv'
    BY <1>8 DEF CleanMeta, Stage
  <1>9. ASSUME NEW a \in Launches, CleanLoop(a) PROVE AInv'
    BY <1>9 DEF CleanLoop, Stage
  <1>10. ASSUME NEW a \in Launches, CleanSession(a) PROVE AInv'
    BY <1>10 DEF CleanSession, Stage
  <1>11. ASSUME NEW a \in Launches, SessionDies(a) PROVE AInv'
    BY <1>11 DEF SessionDies
  <1>12. ASSUME NEW a \in Launches, ClaudeKilled(a) PROVE AInv'
    BY <1>12 DEF ClaudeKilled, Stage
  <1>13. CASE FirstLaunch
    BY <1>13 DEF FirstLaunch, Launch
  <1>14. CASE KickSession
    BY <1>14 DEF KickSession, Begin
  <1>15. CASE KickClean
    BY <1>15 DEF KickClean, Step, None
  <1>16. CASE KickLaunch
    BY <1>16 DEF KickLaunch, Launch, Step
  <1>17. CASE ContinueKill
    BY <1>17 DEF ContinueKill, Begin
  <1>18. CASE ContinueClean
    BY <1>18 DEF ContinueClean, Step, None
  <1>19. CASE Verify
    BY <1>19 DEF Verify, Step
  <1>20. CASE TeamKillLoops
    BY <1>20 DEF TeamKillLoops, Begin, Settled
  <1>21. CASE TeamKillSidecars
    BY <1>21 DEF TeamKillSidecars, Step
  <1>22. CASE TeamKillSessions
    BY <1>22 DEF TeamKillSessions, Step, None
  <1>23. Collect \/ KillLoops \/ KillSidecars \/ SpawnOne \/ Respawn \/ TeamKillLoopsAgain => Apart
    BY DEF Collect, KillLoops, KillSidecars, SpawnOne, Respawn, RespawnFirst, RespawnHealthy,
           RespawnKills, RespawnOne, TeamKillLoopsAgain, Begin, Step, Apart
  <1>24. ASSUME NEW l \in Loops, Loop(l) \/ SidecarStep(l) \/ SidecarCrashes(l)
        PROVE  UNCHANGED <<claude, session, pidfile, torn, op>>
    BY <1>24 DEF Loop, LockRead, LockWrite, StartSidecar, SidecarExited, SidecarStep,
           pid_marker_check, pid_marker_write, SidecarEnds, SidecarCrashes
  <1>25. UNCHANGED avars => UNCHANGED <<claude, session, pidfile, torn, op>>
    BY DEF avars
  <1> HIDE DEF AInv
  <1> QED BY <1>1, <1>2, <1>3, <1>4, <1>5, <1>6, <1>7, <1>8, <1>9, <1>10, <1>11, <1>12, <1>13, <1>14, <1>15, <1>16, <1>17, <1>18, <1>19, <1>20, <1>21, <1>22, <1>23, <1>24, <1>25, <1>7a DEF ANext, NbsClaude, Script

\* The invariant of the PID file.
THEOREM AInvariant == ASpec => []AInv
  <1>1. AInit => AInv
    BY DEF AInit, AInv, ATypeOK, OrderInv, TeamKillInv, WrittenInv, Unwritten, TornInv, PidfileInv
  <1>2. AInv /\ [ANext]_avars => AInv'
    BY AStep
  <1> QED BY <1>1, <1>2, PTL DEF ASpec

\* Past its launch nbs-claude has its PID file, whatever an earlier launch of
\* the handle cleans up and whichever scripts of the operator run.
THEOREM PidfileCorrect == ASpec => []OwnPidfile
  <1>1. AInv => OwnPidfile
    BY DEF AInv, PidfileInv, Newest, OwnPidfile
  <1> QED BY <1>1, AInvariant, PTL

-----------------------------------------------------------------------------
(***************************************************************************)
(* The monitor of a worker.                                                *)
(***************************************************************************)

\* A monitor found no session but the one of its own launch.
TargetInv ==
    /\ DOMAIN target = Tasks
    /\ \A i \in Tasks : target[i] \subseteq {i}

\* The name of a session has the suffix of its launch.
LEMMA MatchingOwn ==
    ASSUME NEW i \in Tasks
    PROVE  Matching(i) \subseteq {i}
  BY DEF Matching, SessionName

\* Every step keeps it.
LEMMA TargetStep ==
    ASSUME TargetInv, [Next]_vars
    PROVE  TargetInv'
  <1>1. CASE UNCHANGED target
    BY <1>1 DEF TargetInv
  <1>2. ASSUME NEW i \in Tasks, MonitorDiscover(i) PROVE TargetInv'
    BY <1>2, MatchingOwn DEF MonitorDiscover, TargetInv
  <1>3. ASSUME NEW i \in Tasks, Agent(i) \/ MonitorPoll(i) \/ MonitorTimeout(i) \/ Reap(i)
        PROVE  UNCHANGED target
    BY <1>3 DEF Agent, AgentStart, AgentStop, AgentPost, Age, AgentReport, MonitorPoll,
                MonitorTimeout, MonitorEnd, Reap, monitor
  <1>4. ASSUME NEW i \in Tasks, NEW r \in Roles, SpawnDirect(i, r) PROVE UNCHANGED target
    BY <1>4 DEF SpawnDirect, StartSession
  <1>5. ASSUME NEW p \in Procs, Cli(p) \/ SpawnFail(p) \/ Crash(p) PROVE UNCHANGED target
    BY <1>5 DEF Cli, SpawnLaunch, StartSession, StatusReport, DismissKill, DismissState,
                DismissStamp, SpawnFail, Crash, monitor
  <1>6. ASSUME NEW p \in Procs, NEW i \in Tasks, StatusCall(p, i) \/ DismissCall(p, i)
        PROVE  UNCHANGED target
    BY <1>6 DEF StatusCall, DismissCall, monitor
  <1>7. ASSUME NEW p \in Procs, NEW i \in Tasks, NEW r \in Roles, SpawnFile(p, i, r)
        PROVE  UNCHANGED target
    BY <1>7 DEF SpawnFile, monitor
  <1>8. UNCHANGED vars => UNCHANGED target
    BY DEF vars, monitor
  <1> QED BY <1>1, <1>2, <1>3, <1>4, <1>5, <1>6, <1>7, <1>8 DEF Next, Watch

\* "prevents monitors from different launches killing each other's sessions":
\* a session that a monitor ends belongs to a launch whose own file reports a
\* final state or whose own polls are over.
THEOREM MonitorCorrect == Spec => MonitorKillsOwn
  <1>1. Init => TargetInv
    BY DEF Init, TargetInv
  <1>2. TargetInv /\ [Next]_vars => TargetInv'
    BY TargetStep
  <1>3. TargetInv /\ [Next]_vars =>
           [\A i \in Tasks : Watch(i) =>
               \A j \in Tasks : sess[j] = "alive" /\ sess'[j] = "dead" =>
                   FirstState(j) \in Final \/ polls[j] = POLLS]_vars
    <2> SUFFICES ASSUME TargetInv, NEW i \in Tasks, Watch(i), NEW j \in Tasks,
                        sess[j] = "alive", sess'[j] = "dead"
                 PROVE  FirstState(j) \in Final \/ polls[j] = POLLS
      OBVIOUS
    <2>1. ~MonitorDiscover(i)
      BY DEF MonitorDiscover, agent
    <2>2. CASE MonitorPoll(i)
      <3>1. FirstState(i) \in Final /\ Kill(target[i])
        BY <2>2 DEF MonitorPoll, agent
      <3>2. j = i
        BY <3>1 DEF Kill, TargetInv
      <3> QED BY <3>1, <3>2
    <2>3. CASE MonitorTimeout(i)
      <3>1. polls[i] = POLLS /\ Kill(target[i])
        BY <2>3 DEF MonitorTimeout
      <3>2. j = i
        BY <3>1 DEF Kill, TargetInv
      <3> QED BY <3>1, <3>2
    <2> QED BY <2>1, <2>2, <2>3 DEF Watch
  <1> QED BY <1>1, <1>2, <1>3, PTL DEF Spec, MonitorKillsOwn

-----------------------------------------------------------------------------
(***************************************************************************)
(* The hub, run by one supervisor, whose commands come one after the       *)
(* other.                                                                  *)
(***************************************************************************)

\* One supervisor.
OneSupervisor == \E p : HubProcs = {p}

-----------------------------------------------------------------------------
(***************************************************************************)
(* The inductive invariant.                                                *)
(***************************************************************************)

StateFile == [phase_num : Nat, phase_name : Phases \cup {"none"},
              audit_counter : Nat, audit_required : {0, 1},
              last_spawn_time : {0}]
ManifestFile ==
    [Slots \X {"name", "path"} -> Docs \cup DocPaths \cup {"none"}]

HubTypeOK ==
    /\ made \in BOOLEAN
    /\ stored \in [state : StateFile, manifest : ManifestFile]
    /\ DOMAIN todo = HubProcs
    /\ DOMAIN copy = HubProcs
    /\ doc \in [HubProcs -> [name : Docs \cup {"none"},
                             path : DocPaths \cup {"none"}]]
    /\ unaudited \in Nat
    /\ DOMAIN registered = Docs
    /\ crashes \in Nat
    /\ failures \in Nat

\* The writes of the commands.
Numbered(n) == Write("state", "phase_num", n)
Named(n)    == Write("state", "phase_name", n)
Counted(n)  == Write("state", "audit_counter", n)
Required(n) == Write("state", "audit_required", n)
Spawned     == Write("state", "last_spawn_time", 0)
SlotName(i, d)    == Write("manifest", <<i, "name">>, d)
SlotPath(i, path) == Write("manifest", <<i, "path">>, path)

\* The first slot with the name of the document, before the first free one, in
\* the manifest m, and what doc read makes of it.
Found(m, d) == {i \in Slots : /\ m[<<i, "name">>] = d
                              /\ \A j \in Slots :
                                    j < i => m[<<j, "name">>] \notin {d, "none"}}
ReadOf(m, d) == IF Found(m, d) = {} THEN "none"
                ELSE m[<<CHOOSE i \in Found(m, d) : TRUE, "path">>]

\* The counter has missed at most one result per fault, and the gate is closed
\* when there are too many.
Balanced(u) ==
    /\ u <= stored.state.audit_counter + Faults
    /\ stored.state.audit_required = 0 => u < AUDIT_THRESHOLD + Faults

\* Where a command can be: what it still has to write, and what is true until
\* it has.
Quiet(p) ==
    /\ todo[p] \in {<<>>, <<Spawned>>}
    /\ doc[p] = NoDoc
    /\ Balanced(unaudited)

Setup(p) ==
    /\ \/ todo[p] = <<Numbered(0), Named("PLANNING"), Counted(0), Required(0),
                      Spawned>>
       \/ todo[p] = <<Named("PLANNING"), Counted(0), Required(0), Spawned>>
       \/ todo[p] = <<Counted(0), Required(0), Spawned>>
       \/ todo[p] = <<Required(0), Spawned>>
    /\ doc[p] = NoDoc
    /\ unaudited = 0

Result(p) ==
    LET counter == stored.state.audit_counter + 1
    IN  /\ \/ todo[p] = <<Counted(counter)>> /\ counter < AUDIT_THRESHOLD
           \/ /\ todo[p] = <<Counted(counter), Required(1)>>
              /\ counter >= AUDIT_THRESHOLD
        /\ doc[p] = NoDoc
        /\ Balanced(unaudited - 1)

Closing(p) ==
    /\ todo[p] = <<Required(1)>>
    /\ doc[p] = NoDoc
    /\ unaudited <= stored.state.audit_counter + Faults
    /\ stored.state.audit_required = 0 => unaudited <= AUDIT_THRESHOLD + Faults

Audit(p) ==
    /\ todo[p] \in {<<Counted(0), Required(0)>>, <<Required(0)>>}
    /\ doc[p] = NoDoc
    /\ unaudited = 0

Gate(p) ==
    /\ \/ todo[p] = <<Numbered(stored.state.phase_num + 1), Named("UNNAMED")>>
       \/ todo[p] = <<Named("UNNAMED")>>
    /\ doc[p] = NoDoc
    /\ Balanced(unaudited)

Naming(p) ==
    \E phase \in Phases :
        /\ todo[p] = <<Named(phase)>>
        /\ doc[p] = NoDoc
        /\ Balanced(unaudited)

Registering(p, d, path, i) ==
    /\ todo[p] = <<SlotName(i, d), SlotPath(i, path)>>
    /\ failures = 0 => i \in SlotsFor(d)

Filling(p, d, path, i) ==
    /\ todo[p] = <<SlotPath(i, path)>>
    /\ failures = 0 => i \in Found(stored.manifest, d)

Document(p) ==
    \E d \in Docs, path \in DocPaths, i \in Slots :
        /\ Registering(p, d, path, i) \/ Filling(p, d, path, i)
        /\ doc[p] = [name |-> d, path |-> path]
        /\ Balanced(unaudited)

Place(p) ==
    \/ Quiet(p) \/ Setup(p) \/ Result(p) \/ Closing(p) \/ Audit(p)
    \/ Gate(p) \/ Naming(p) \/ Document(p)

\* The copy of state_write is the file as it is.
CopyOK(p) ==
    copy[p] # NoCopy =>
        todo[p] # <<>> /\ copy[p] = stored[Head(todo[p])[1]]

HubInv ==
    /\ HubTypeOK
    /\ ~made => unaudited = 0
    /\ DocReadsBack
    /\ \A p \in HubProcs : Place(p) /\ CopyOK(p)

-----------------------------------------------------------------------------
(***************************************************************************)
(* The files.                                                              *)
(***************************************************************************)

\* The files of a state that has its type.
LEMMA StoredParts ==
    ASSUME HubTypeOK
    PROVE  /\ stored.state \in StateFile /\ stored.manifest \in ManifestFile
           /\ stored = [state |-> stored.state, manifest |-> stored.manifest]
           /\ stored.state.audit_counter \in Nat
           /\ stored.state.audit_required \in {0, 1}
           /\ stored.state.phase_num \in Nat
           /\ Faults \in Nat
  <1>1. /\ stored.state \in StateFile /\ stored.manifest \in ManifestFile
        /\ stored = [state |-> stored.state, manifest |-> stored.manifest]
    BY DEF HubTypeOK
  <1>2. Faults \in Nat
    BY DEF HubTypeOK, Faults
  <1> QED BY <1>1, <1>2 DEF StateFile

\* A write of the state file: the key and nothing else changes, because the
\* copy is the file as it is.
LEMMA StateWritten ==
    ASSUME HubInv, NEW p \in HubProcs, StateWriteRename(p), NEW k, NEW v,
           Head(todo[p]) = Write("state", k, v)
    PROVE  /\ stored'.state = [stored.state EXCEPT ![k] = v]
           /\ stored'.manifest = stored.manifest
           /\ stored' = [state |-> stored'.state, manifest |-> stored'.manifest]
  <1>1. Head(todo[p])[1] = "state" /\ Head(todo[p])[2] = k /\ Head(todo[p])[3] = v
    BY DEF Write
  <1>2. copy[p] = stored["state"]
    BY <1>1 DEF HubInv, CopyOK, StateWriteRename
  <1>3. HubTypeOK
    BY DEF HubInv
  <1>4. stored["state"] = stored.state
    BY <1>3, StoredParts
  <1>5. stored' = [stored EXCEPT !["state"] = [stored.state EXCEPT ![k] = v]]
    BY <1>1, <1>2, <1>4 DEF StateWriteRename
  <1> QED BY <1>3, <1>5, StoredParts

\* The same for the manifest.
LEMMA ManifestWritten ==
    ASSUME HubInv, NEW p \in HubProcs, StateWriteRename(p), NEW k, NEW v,
           Head(todo[p]) = Write("manifest", k, v)
    PROVE  /\ stored'.manifest = [stored.manifest EXCEPT ![k] = v]
           /\ stored'.state = stored.state
           /\ stored' = [state |-> stored'.state, manifest |-> stored'.manifest]
  <1>1. /\ Head(todo[p])[1] = "manifest" /\ Head(todo[p])[2] = k
        /\ Head(todo[p])[3] = v
    BY DEF Write
  <1>2. copy[p] = stored["manifest"]
    BY <1>1 DEF HubInv, CopyOK, StateWriteRename
  <1>3. HubTypeOK
    BY DEF HubInv
  <1>4. stored["manifest"] = stored.manifest
    BY <1>3, StoredParts
  <1>5. stored' = [stored EXCEPT !["manifest"] = [stored.manifest EXCEPT ![k] = v]]
    BY <1>1, <1>2, <1>4 DEF StateWriteRename
  <1> QED BY <1>3, <1>5, StoredParts

\* What doc read does, as a function of the manifest.
LEMMA ReadIs ==
    ASSUME NEW d
    PROVE  /\ CmdDocRead(d) = ReadOf(stored.manifest, d)
           /\ CmdDocRead(d)' = ReadOf(stored'.manifest, d)
  BY DEF CmdDocRead, ReadOf, Found, DocName, DocPath

\* The slot doc read finds is the only one.
LEMMA ReadsSlot ==
    ASSUME NEW m, NEW d
    PROVE  /\ \A i \in Found(m, d) : ReadOf(m, d) = m[<<i, "path">>]
           /\ ReadOf(m, d) # "none" =>
                 \E i \in Found(m, d) : ReadOf(m, d) = m[<<i, "path">>]
  <1>1. ASSUME NEW i \in Found(m, d), NEW j \in Found(m, d) PROVE i = j
    BY HubAssumption DEF Found, Slots
  <1>2. ASSUME NEW i \in Found(m, d) PROVE ReadOf(m, d) = m[<<i, "path">>]
    <2>1. (CHOOSE j \in Found(m, d) : TRUE) \in Found(m, d)
      BY <1>2
    <2>2. (CHOOSE j \in Found(m, d) : TRUE) = i
      BY <1>1, <2>1
    <2> QED BY <1>2, <2>2 DEF ReadOf
  <1>3. ReadOf(m, d) # "none" => Found(m, d) # {}
    BY DEF ReadOf
  <1> QED BY <1>2, <1>3

-----------------------------------------------------------------------------
(***************************************************************************)
(* The commands.                                                           *)
(***************************************************************************)

\* There is nobody else.
LEMMA OneStep ==
    ASSUME OneSupervisor, NEW p \in HubProcs, HubTypeOK',
           ~made' => unaudited' = 0, DocReadsBack', Place(p)',
           CopyOK(p)'
    PROVE  HubInv'
  <1>1. \A q \in HubProcs : q = p
    BY DEF OneSupervisor
  <1> QED BY <1>1 DEF HubInv

\* Documents are found as long as the manifest and the reports are the same.
LEMMA DocsKept ==
    ASSUME HubInv, stored'.manifest = stored.manifest,
           UNCHANGED registered, failures' = 0 => failures = 0
    PROVE  DocReadsBack'
  <1> SUFFICES ASSUME failures' = 0, NEW d \in Docs, registered'[d] # "none"
               PROVE  CmdDocRead(d)' = registered'[d]
    BY DEF DocReadsBack
  <1>1. CmdDocRead(d) = registered[d]
    BY DEF HubInv, DocReadsBack
  <1> QED BY <1>1, ReadIs

\* A command starts when the one before it is over.
LEMMA IdleQuiet ==
    ASSUME HubInv, NEW p \in HubProcs, Idle(p)
    PROVE  /\ HubTypeOK /\ copy[p] = NoCopy /\ doc[p] = NoDoc
           /\ Balanced(unaudited)
  <1>1. HubTypeOK /\ Place(p) /\ CopyOK(p) /\ todo[p] = <<>>
    BY DEF HubInv, Idle
  <1>2. copy[p] = NoCopy
    BY <1>1 DEF CopyOK
  <1>3. Quiet(p)
    <2>1. ~Setup(p) /\ ~Result(p) /\ ~Closing(p) /\ ~Audit(p)
      BY <1>1 DEF Setup, Result, Closing, Audit
    <2>2. ~Gate(p) /\ ~Naming(p)
      BY <1>1 DEF Gate, Naming
    <2>3. ~Document(p)
      BY <1>1 DEF Document, Registering, Filling
    <2> QED BY <1>1, <2>1, <2>2, <2>3 DEF Place
  <1> QED BY <1>1, <1>2, <1>3 DEF Quiet

\* nbs-hub init.
LEMMA CmdInitInv ==
    ASSUME OneSupervisor, HubInv, NEW p \in HubProcs, CmdInit(p)
    PROVE  HubInv'
  <1>1. /\ HubTypeOK /\ copy[p] = NoCopy /\ doc[p] = NoDoc
        /\ unaudited = 0
    BY IdleQuiet DEF CmdInit, HubInv
  <1>2. /\ todo'[p] = <<Numbered(0), Named("PLANNING"), Counted(0), Required(0),
                        Spawned>>
        /\ made' = TRUE /\ UNCHANGED <<stored, copy, doc, unaudited, 
                                       registered, crashes, failures>>
    BY <1>1 DEF HubTypeOK, CmdInit, Queue, Numbered, Named, Counted, Required,
                Spawned
  <1>3. HubTypeOK'
    BY <1>1, <1>2 DEF HubTypeOK, CmdInit, Queue
  <1>4. DocReadsBack'
    BY <1>2, DocsKept
  <1>5. Setup(p)'
    BY <1>1, <1>2 DEF Setup
  <1>6. CopyOK(p)'
    BY <1>1, <1>2 DEF CopyOK
  <1> QED BY <1>2, <1>3, <1>4, <1>5, <1>6, OneStep DEF Place

\* nbs-hub spawn.
LEMMA CmdSpawnInv ==
    ASSUME OneSupervisor, HubInv, NEW p \in HubProcs, CmdSpawn(p)
    PROVE  HubInv'
  <1>1. /\ HubTypeOK /\ copy[p] = NoCopy /\ doc[p] = NoDoc
        /\ Balanced(unaudited)
    BY IdleQuiet DEF CmdSpawn
  <1>2. /\ todo'[p] = <<Spawned>>
        /\ UNCHANGED <<made, stored, copy, doc, unaudited, registered,
                       crashes, failures>>
    BY <1>1 DEF HubTypeOK, CmdSpawn, Queue, Spawned
  <1>3. HubTypeOK'
    BY <1>1, <1>2 DEF HubTypeOK, CmdSpawn, Queue
  <1>4. DocReadsBack'
    BY <1>2, DocsKept
  <1>5. Quiet(p)'
    BY <1>1, <1>2 DEF Quiet, Balanced, Faults
  <1>6. CopyOK(p)'
    BY <1>1, <1>2 DEF CopyOK
  <1>7. ~made' => unaudited' = 0
    BY <1>2 DEF HubInv
  <1> QED BY <1>3, <1>4, <1>5, <1>6, <1>7, OneStep DEF Place

\* Two writes in a row.
LEMMA TwoWrites ==
    ASSUME NEW a, NEW b
    PROVE  <<a>> \o <<b>> = <<a, b>> /\ <<a>> \o <<>> = <<a>>
  <1> DEFINE S == {a, b}
             t == <<a>> \o <<b>>
             u == <<a, b>>
  <1>1. /\ <<a>> \in Seq(S) /\ <<b>> \in Seq(S) /\ u \in Seq(S)
        /\ Len(<<a>>) = 1 /\ Len(<<b>>) = 1 /\ Len(u) = 2 /\ u[1] = a /\ u[2] = b
    OBVIOUS
  <1>2. t \in Seq(S) /\ Len(t) = 2 /\ t[1] = a /\ t[2] = b
    BY <1>1, ConcatProperties
  <1>3. <<a>> \o <<>> = <<a>>
    BY <1>1, ConcatEmptySeq
  <1> HIDE DEF t, u, S
  <1>4. t = u
    BY <1>1, <1>2, SeqEqual
  <1> QED BY <1>3, <1>4 DEF t, u

\* nbs-hub result.
LEMMA CmdResultInv ==
    ASSUME OneSupervisor, HubInv, NEW p \in HubProcs, CmdResult(p)
    PROVE  HubInv'
  <1> DEFINE c == stored.state.audit_counter + 1
  <1>1. /\ HubTypeOK /\ copy[p] = NoCopy /\ doc[p] = NoDoc
        /\ Balanced(unaudited)
    BY IdleQuiet DEF CmdResult
  <1>2. /\ todo'[p] = <<Counted(c)>> \o
                      IF c >= AUDIT_THRESHOLD THEN <<Required(1)>> ELSE <<>>
        /\ made' = made /\ made /\ unaudited' = unaudited + 1
        /\ UNCHANGED <<stored, copy, doc, registered, crashes, failures>>
    BY <1>1 DEF HubTypeOK, CmdResult, Queue, Counted, Required
  <1>3. HubTypeOK'
    BY <1>1, <1>2 DEF HubTypeOK, CmdResult, Queue
  <1>4. DocReadsBack'
    BY <1>2, DocsKept
  <1>5. c \in Nat /\ AUDIT_THRESHOLD \in Nat
    BY <1>1, StoredParts, HubAssumption
  <1>6. \/ todo'[p] = <<Counted(c)>> /\ c < AUDIT_THRESHOLD
        \/ todo'[p] = <<Counted(c), Required(1)>> /\ c >= AUDIT_THRESHOLD
    <2> HIDE DEF c
    <2>1. CASE c >= AUDIT_THRESHOLD
      BY <1>2, <2>1, TwoWrites
    <2>2. CASE c < AUDIT_THRESHOLD
      BY <1>2, <1>5, <2>2, TwoWrites
    <2> QED BY <1>5, <2>1, <2>2
  <1>7. unaudited' - 1 = unaudited
    BY <1>1, <1>2 DEF HubTypeOK
  <1>8. Balanced(unaudited - 1)'
    BY <1>1, <1>2, <1>7 DEF Balanced, Faults
  <1>9. Result(p)'
    BY <1>1, <1>2, <1>6, <1>8 DEF Result
  <1>10. CopyOK(p)'
    BY <1>1, <1>2 DEF CopyOK
  <1> QED BY <1>2, <1>3, <1>4, <1>9, <1>10, OneStep DEF Place

\* nbs-hub audit.
LEMMA CmdAuditInv ==
    ASSUME OneSupervisor, HubInv, NEW p \in HubProcs, CmdAudit(p)
    PROVE  HubInv'
  <1>1. /\ HubTypeOK /\ copy[p] = NoCopy /\ doc[p] = NoDoc
    BY IdleQuiet DEF CmdAudit
  <1>2. /\ todo'[p] = <<Counted(0), Required(0)>>
        /\ made' = made /\ made /\ unaudited' = 0
        /\ UNCHANGED <<stored, copy, doc, registered, crashes, failures>>
    BY <1>1 DEF HubTypeOK, CmdAudit, Queue, Counted, Required
  <1>3. HubTypeOK'
    BY <1>1, <1>2 DEF HubTypeOK, CmdAudit, Queue
  <1>4. DocReadsBack'
    BY <1>2, DocsKept
  <1>5. Audit(p)'
    BY <1>1, <1>2 DEF Audit, Faults
  <1>6. CopyOK(p)'
    BY <1>1, <1>2 DEF CopyOK
  <1> QED BY <1>2, <1>3, <1>4, <1>5, <1>6, OneStep DEF Place

\* nbs-hub gate.
LEMMA CmdGateInv ==
    ASSUME OneSupervisor, HubInv, NEW p \in HubProcs, NEW phase \in Phases,
           CmdGate(p, phase)
    PROVE  HubInv'
  <1>1. /\ HubTypeOK /\ copy[p] = NoCopy /\ doc[p] = NoDoc
        /\ Balanced(unaudited)
    BY IdleQuiet DEF CmdGate
  <1>2. /\ todo'[p] = <<Numbered(stored.state.phase_num + 1), Named("UNNAMED")>>
        /\ made' = made /\ made
        /\ UNCHANGED <<stored, copy, doc, unaudited, registered, crashes, failures>>
    BY <1>1 DEF HubTypeOK, CmdGate, Queue, Numbered, Named
  <1>3. HubTypeOK'
    BY <1>1, <1>2 DEF HubTypeOK, CmdGate, Queue
  <1>4. DocReadsBack'
    BY <1>2, DocsKept
  <1>5. Gate(p)'
    BY <1>1, <1>2 DEF Gate, Balanced, Faults
  <1>6. CopyOK(p)'
    BY <1>1, <1>2 DEF CopyOK
  <1> QED BY <1>2, <1>3, <1>4, <1>5, <1>6, OneStep DEF Place

\* nbs-hub phase name.
LEMMA CmdPhaseNameInv ==
    ASSUME OneSupervisor, HubInv, NEW p \in HubProcs, NEW phase \in Phases,
           CmdPhaseName(p, phase)
    PROVE  HubInv'
  <1>1. /\ HubTypeOK /\ copy[p] = NoCopy /\ doc[p] = NoDoc
        /\ Balanced(unaudited)
    BY IdleQuiet DEF CmdPhaseName
  <1>2. /\ todo'[p] = <<Named(phase)>> 
        /\ made' = made /\ made
        /\ UNCHANGED <<stored, copy, doc, unaudited, registered, crashes, failures>>
    BY <1>1 DEF HubTypeOK, CmdPhaseName, Queue, Named
  <1>3. HubTypeOK'
    BY <1>1, <1>2 DEF HubTypeOK, CmdPhaseName, Queue
  <1>4. DocReadsBack'
    BY <1>2, DocsKept
  <1>5. Naming(p)'
    BY <1>1, <1>2 DEF Naming, Balanced, Faults
  <1>6. CopyOK(p)'
    BY <1>1, <1>2 DEF CopyOK
  <1> QED BY <1>2, <1>3, <1>4, <1>5, <1>6, OneStep DEF Place

\* nbs-hub doc register.
LEMMA CmdDocRegisterInv ==
    ASSUME OneSupervisor, HubInv, NEW p \in HubProcs, NEW d \in Docs,
           NEW path \in DocPaths, CmdDocRegister(p, d, path)
    PROVE  HubInv'
  <1>1. /\ HubTypeOK /\ copy[p] = NoCopy
        /\ Balanced(unaudited)
    BY IdleQuiet DEF CmdDocRegister
  <1>2. PICK i \in SlotsFor(d) : todo'[p] = <<SlotName(i, d), SlotPath(i, path)>>
    BY <1>1 DEF HubTypeOK, CmdDocRegister, Queue, SlotName, SlotPath
  <1>3. /\ made' = made /\ made /\ doc'[p] = [name |-> d, path |-> path]
        /\ UNCHANGED <<stored, copy, unaudited, registered, crashes,
                       failures>>
    BY <1>1 DEF HubTypeOK, CmdDocRegister
  <1>4. HubTypeOK'
    <2>1. doc' \in [HubProcs -> [name : Docs \cup {"none"},
                                 path : DocPaths \cup {"none"}]]
      BY <1>1 DEF HubTypeOK, CmdDocRegister
    <2>2. DOMAIN todo' = HubProcs
      BY <1>1 DEF HubTypeOK, CmdDocRegister, Queue
    <2> QED BY <1>1, <1>3, <2>1, <2>2 DEF HubTypeOK
  <1>5. DocReadsBack'
    BY <1>3, DocsKept
  <1>6. SlotsFor(d)' = SlotsFor(d)
    BY <1>3 DEF SlotsFor, DocName
  <1>7. Registering(p, d, path, i)'
    BY <1>2, <1>6 DEF Registering
  <1>8. i \in Slots
    BY DEF SlotsFor
  <1>9. Balanced(unaudited)'
    BY <1>1, <1>3 DEF Balanced, Faults
  <1>10. Document(p)'
    BY <1>3, <1>7, <1>8, <1>9 DEF Document
  <1>11. CopyOK(p)'
    BY <1>1, <1>3 DEF CopyOK
  <1> QED BY <1>3, <1>4, <1>5, <1>10, <1>11, OneStep DEF Place

\* state_write reads the file.
LEMMA StateWriteReadInv ==
    ASSUME OneSupervisor, HubInv, NEW p \in HubProcs, StateWriteRead(p)
    PROVE  HubInv'
  <1>1. /\ HubTypeOK /\ Place(p) /\ todo[p] # <<>>
        /\ copy'[p] = stored[Head(todo[p])[1]]
        /\ UNCHANGED <<made, stored, todo, doc, unaudited, registered,
                       crashes, failures>>
    BY DEF HubInv, HubTypeOK, StateWriteRead, Idle
  <1>2. HubTypeOK'
    BY <1>1 DEF HubTypeOK, StateWriteRead
  <1>3. DocReadsBack'
    BY <1>1, DocsKept
  <1>4. Place(p)'
    <2>1. \A u \in Int : Balanced(u) => Balanced(u)'
      BY <1>1 DEF Balanced, Faults
    <2>2. Balanced(unaudited)' = Balanced(unaudited)
      BY <1>1 DEF Balanced, Faults
    <2>3. Balanced(unaudited - 1)' = Balanced(unaudited - 1)
      BY <1>1 DEF Balanced, Faults
    <2>5. CASE Quiet(p) \/ Setup(p) \/ Result(p)
      BY <1>1, <2>2, <2>3, <2>5 DEF Place, Quiet, Setup, Result
    <2>6. CASE Closing(p) \/ Audit(p) \/ Gate(p) \/ Naming(p)
      BY <1>1, <2>2, <2>6 DEF Place, Closing, Audit, Gate, Naming, Faults
    <2>7. CASE Document(p)
      <3>1. \A d \in Docs : SlotsFor(d)' = SlotsFor(d)
        BY <1>1 DEF SlotsFor, DocName
      <3> QED BY <1>1, <2>2, <2>7, <3>1
              DEF Place, Document, Registering, Filling
    <2> QED BY <1>1, <2>5, <2>6, <2>7 DEF Place
  <1>5. CopyOK(p)'
    BY <1>1 DEF CopyOK
  <1>6. ~made' => unaudited' = 0
    BY <1>1 DEF HubInv
  <1> QED BY <1>2, <1>3, <1>4, <1>5, <1>6, OneStep

-----------------------------------------------------------------------------
(***************************************************************************)
(* A write, a write that fails, and a command that is killed.              *)
(***************************************************************************)

\* One fault more covers the result a command is at.
LEMMA PlaceBalance ==
    ASSUME HubTypeOK, NEW p \in HubProcs, Place(p)
    PROVE  /\ unaudited <= stored.state.audit_counter + Faults + 1
           /\ stored.state.audit_required = 0 =>
                 unaudited < AUDIT_THRESHOLD + Faults + 1
  <1>1. /\ stored.state.audit_counter \in Nat /\ Faults \in Nat
        /\ AUDIT_THRESHOLD \in Nat \ {0} /\ unaudited \in Nat
    BY StoredParts, HubAssumption DEF HubTypeOK
  <1>2. CASE Quiet(p) \/ Gate(p) \/ Naming(p) \/ Document(p)
    <2>1. Balanced(unaudited)
      BY <1>2 DEF Quiet, Gate, Naming, Document
    <2> QED BY <1>1, <2>1 DEF Balanced
  <1>3. CASE Setup(p) \/ Audit(p)
    BY <1>1, <1>3 DEF Setup, Audit
  <1>4. CASE Result(p)
    BY <1>1, <1>4 DEF Result, Balanced
  <1>5. CASE Closing(p)
    BY <1>1, <1>5 DEF Closing
  <1> QED BY <1>2, <1>3, <1>4, <1>5 DEF Place

\* After a fault the balance holds.
LEMMA FaultBalance ==
    ASSUME HubTypeOK, NEW p \in HubProcs, Place(p), Faults' = Faults + 1,
           UNCHANGED <<stored, unaudited>>
    PROVE  /\ Balanced(unaudited)'
           /\ unaudited' <= stored'.state.audit_counter + Faults'
           /\ stored'.state.audit_required = 0 =>
                 unaudited' <= AUDIT_THRESHOLD + Faults'
  <1>1. /\ unaudited <= stored.state.audit_counter + Faults + 1
        /\ stored.state.audit_required = 0 =>
              unaudited < AUDIT_THRESHOLD + Faults + 1
    BY PlaceBalance
  <1>2. /\ stored.state.audit_counter \in Nat /\ Faults \in Nat
        /\ AUDIT_THRESHOLD \in Nat \ {0} /\ unaudited \in Nat
    BY StoredParts, HubAssumption DEF HubTypeOK
  <1>3. /\ unaudited' <= stored'.state.audit_counter + Faults'
        /\ stored'.state.audit_required = 0 =>
              unaudited' < AUDIT_THRESHOLD + Faults'
    BY <1>1, <1>2
  <1>4. Balanced(unaudited)'
    BY <1>3 DEF Balanced
  <1> QED BY <1>2, <1>3, <1>4

\* A command is killed: it is over.
LEMMA HubCrashInv ==
    ASSUME OneSupervisor, HubInv, NEW p \in HubProcs, HubCrash(p)
    PROVE  HubInv'
  <1>1. /\ HubTypeOK /\ Place(p) /\ todo'[p] = <<>> /\ copy'[p] = NoCopy
        /\ doc'[p] = NoDoc
        /\ UNCHANGED <<made, stored, unaudited, registered, failures>>
        /\ crashes' = crashes + 1
    BY DEF HubInv, HubTypeOK, HubCrash, Queue
  <1>2. HubTypeOK'
    <2>1. doc' \in [HubProcs -> [name : Docs \cup {"none"},
                                 path : DocPaths \cup {"none"}]]
      BY <1>1 DEF HubTypeOK, HubCrash, NoDoc
    <2>2. DOMAIN todo' = HubProcs /\ DOMAIN copy' = HubProcs
      BY <1>1 DEF HubTypeOK, HubCrash, Queue
    <2> QED BY <1>1, <2>1, <2>2 DEF HubTypeOK
  <1>3. DocReadsBack'
    BY <1>1, DocsKept
  <1>4. Faults' = Faults + 1
    BY <1>1 DEF Faults, HubTypeOK
  <1>5. Quiet(p)'
    BY <1>1, <1>4, FaultBalance DEF Quiet
  <1>6. CopyOK(p)'
    BY <1>1 DEF CopyOK
  <1>7. ~made' => unaudited' = 0
    BY <1>1 DEF HubInv
  <1> QED BY <1>2, <1>3, <1>5, <1>6, <1>7, OneStep DEF Place

\* What the end of a write does, whatever the write was.
LEMMA WriteEnds ==
    ASSUME HubInv, NEW p \in HubProcs, copy[p] # NoCopy, WriteDone(p)
    PROVE  /\ HubTypeOK /\ Place(p) /\ todo[p] # <<>>
           /\ todo'[p] = Tail(todo[p]) /\ copy'[p] = NoCopy
           /\ DOMAIN todo' = HubProcs /\ DOMAIN copy' = HubProcs
           /\ UNCHANGED <<made, unaudited, crashes>>
           /\ doc[p] = NoDoc => UNCHANGED <<registered, doc>>
           /\ doc[p] # NoDoc /\ Len(todo[p]) # 1 => UNCHANGED <<registered, doc>>
           /\ doc[p] # NoDoc /\ Len(todo[p]) = 1 =>
                 /\ doc'[p] = NoDoc
                 /\ registered' = [registered EXCEPT ![doc[p].name] = doc[p].path]
           /\ DOMAIN registered' = Docs
           /\ doc' \in [HubProcs -> [name : Docs \cup {"none"},
                                     path : DocPaths \cup {"none"}]]
           /\ CopyOK(p)'
           /\ ~made' => unaudited' = 0
  <1>1. HubTypeOK /\ Place(p) /\ todo[p] # <<>>
    BY DEF HubInv, CopyOK
  <1>2. /\ todo'[p] = Tail(todo[p]) /\ copy'[p] = NoCopy
        /\ DOMAIN todo' = HubProcs /\ DOMAIN copy' = HubProcs
        /\ UNCHANGED <<made, unaudited, crashes>>
    BY <1>1 DEF HubTypeOK, WriteDone, Queue
  <1>3. DOMAIN registered' = Docs
    BY <1>1 DEF HubTypeOK, WriteDone
  <1>4. doc' \in [HubProcs -> [name : Docs \cup {"none"},
                               path : DocPaths \cup {"none"}]]
    BY <1>1 DEF HubTypeOK, WriteDone, NoDoc
  <1>5. doc[p] = NoDoc => UNCHANGED <<registered, doc>>
    BY DEF WriteDone
  <1>6. doc[p] # NoDoc /\ Len(todo[p]) # 1 => UNCHANGED <<registered, doc>>
    BY DEF WriteDone
  <1>7. doc[p] # NoDoc /\ Len(todo[p]) = 1 =>
           /\ doc'[p] = NoDoc
           /\ registered' = [registered EXCEPT ![doc[p].name] = doc[p].path]
    BY <1>1 DEF WriteDone, HubTypeOK
  <1>8. CopyOK(p)'
    BY <1>2 DEF CopyOK
  <1>9. ~made' => unaudited' = 0
    BY <1>2 DEF HubInv
  <1> QED BY <1>1, <1>2, <1>3, <1>4, <1>5, <1>6, <1>7, <1>8, <1>9

\* What is left of a list of writes after the first.
LEMMA Tails ==
    ASSUME NEW a, NEW b
    PROVE  /\ Tail(<<a>>) = <<>> /\ Tail(<<a, b>>) = <<b>>
           /\ Head(<<a>>) = a /\ Head(<<a, b>>) = a
           /\ Len(<<a>>) = 1 /\ Len(<<a, b>>) = 2
           /\ <<a>> # <<>> /\ <<a, b>> # <<>>
  OBVIOUS

\* A document that is being registered is one.
LEMMA DocumentNamed ==
    ASSUME NEW d \in Docs, NEW path
    PROVE  [name |-> d, path |-> path] # NoDoc
  BY HubAssumption DEF NoDoc

\* A write fails: the command goes on.
LEMMA StateWriteFailInv ==
    ASSUME OneSupervisor, HubInv, NEW p \in HubProcs, StateWriteFail(p)
    PROVE  HubInv'
  <1>1. /\ copy[p] # NoCopy /\ WriteDone(p) /\ UNCHANGED stored
        /\ failures' = failures + 1
    BY DEF StateWriteFail
  <1>2. /\ HubTypeOK /\ Place(p) /\ todo[p] # <<>>
        /\ todo'[p] = Tail(todo[p]) /\ copy'[p] = NoCopy
        /\ UNCHANGED <<made, unaudited, crashes>>
        /\ doc[p] = NoDoc => doc'[p] = NoDoc
        /\ doc[p] # NoDoc /\ Len(todo[p]) # 1 => doc'[p] = doc[p]
        /\ doc[p] # NoDoc /\ Len(todo[p]) = 1 => doc'[p] = NoDoc
    BY <1>1, WriteEnds
  <1>3. HubTypeOK'
    BY <1>1, WriteEnds DEF HubTypeOK
  <1>4. failures' # 0
    BY <1>1, <1>2 DEF HubTypeOK
  <1>5. DocReadsBack'
    BY <1>4 DEF DocReadsBack
  <1>6. Faults' = Faults + 1
    BY <1>1, <1>2 DEF Faults, HubTypeOK
  <1>7. /\ Balanced(unaudited)'
        /\ unaudited' <= stored'.state.audit_counter + Faults'
        /\ stored'.state.audit_required = 0 =>
              unaudited' <= AUDIT_THRESHOLD + Faults'
    BY <1>1, <1>2, <1>6, FaultBalance
  <1>8. Place(p)'
    <2>1. CASE Quiet(p)
      <3>1. todo[p] = <<Spawned>> /\ doc'[p] = NoDoc
        BY <1>2, <2>1 DEF Quiet
      <3>2. todo'[p] = <<>>
        BY <1>2, <3>1, Tails
      <3> QED BY <1>7, <3>1, <3>2 DEF Place, Quiet
    <2>2. CASE Setup(p)
      <3>1. doc'[p] = NoDoc /\ unaudited' = 0
        BY <1>2, <2>2 DEF Setup
      <3>2. CASE todo[p] = <<Required(0), Spawned>>
        <4>1. todo'[p] = <<Spawned>>
          BY <1>2, <3>2
        <4> QED BY <1>7, <3>1, <4>1 DEF Place, Quiet
      <3>3. CASE todo[p] = <<Counted(0), Required(0), Spawned>>
        <4>1. todo'[p] = <<Required(0), Spawned>>
          BY <1>2, <3>3
        <4> QED BY <3>1, <4>1 DEF Place, Setup
      <3>4. CASE todo[p] = <<Named("PLANNING"), Counted(0), Required(0), Spawned>>
        <4>1. todo'[p] = <<Counted(0), Required(0), Spawned>>
          BY <1>2, <3>4
        <4> QED BY <3>1, <4>1 DEF Place, Setup
      <3>5. CASE todo[p] = <<Numbered(0), Named("PLANNING"), Counted(0),
                             Required(0), Spawned>>
        <4>1. todo'[p] = <<Named("PLANNING"), Counted(0), Required(0), Spawned>>
          BY <1>2, <3>5
        <4> QED BY <3>1, <4>1 DEF Place, Setup
      <3> QED BY <2>2, <3>2, <3>3, <3>4, <3>5 DEF Setup
    <2>3. CASE Result(p)
      <3> DEFINE c == stored.state.audit_counter + 1
      <3>1. /\ doc'[p] = NoDoc
            /\ \/ todo[p] = <<Counted(c)>>
               \/ todo[p] = <<Counted(c), Required(1)>>
        BY <1>2, <2>3 DEF Result
      <3> HIDE DEF c
      <3>2. CASE todo[p] = <<Counted(c)>>
        <4>1. todo'[p] = <<>>
          BY <1>2, <3>2
        <4> QED BY <1>7, <3>1, <4>1 DEF Place, Quiet
      <3>3. CASE todo[p] = <<Counted(c), Required(1)>>
        <4>1. todo'[p] = <<Required(1)>>
          BY <1>2, <3>3
        <4> QED BY <1>7, <3>1, <4>1 DEF Place, Closing
      <3> QED BY <3>1, <3>2, <3>3
    <2>4. CASE Closing(p)
      <3>1. doc'[p] = NoDoc /\ todo'[p] = <<>>
        BY <1>2, <2>4 DEF Closing
      <3> QED BY <1>7, <3>1 DEF Place, Quiet
    <2>5. CASE Audit(p)
      <3>1. /\ doc'[p] = NoDoc /\ unaudited' = 0
            /\ todo[p] = <<Counted(0), Required(0)>> \/ todo[p] = <<Required(0)>>
        BY <1>2, <2>5 DEF Audit
      <3>2. CASE todo[p] = <<Required(0)>>
        <4>1. todo'[p] = <<>>
          BY <1>2, <3>2
        <4> QED BY <1>7, <3>1, <4>1 DEF Place, Quiet
      <3>3. CASE todo[p] = <<Counted(0), Required(0)>>
        <4>1. todo'[p] = <<Required(0)>>
          BY <1>2, <3>3
        <4> QED BY <1>7, <3>1, <4>1 DEF Place, Audit
      <3> QED BY <3>1, <3>2, <3>3
    <2>6. CASE Gate(p)
      <3> DEFINE n == stored.state.phase_num + 1
      <3>1. /\ doc'[p] = NoDoc
            /\ \/ todo[p] = <<Numbered(n), Named("UNNAMED")>>
               \/ todo[p] = <<Named("UNNAMED")>>
        BY <1>2, <2>6 DEF Gate
      <3> HIDE DEF n
      <3>2. CASE todo[p] = <<Named("UNNAMED")>>
        <4>1. todo'[p] = <<>>
          BY <1>2, <3>2
        <4> QED BY <1>7, <3>1, <4>1 DEF Place, Quiet
      <3>3. CASE todo[p] = <<Numbered(n), Named("UNNAMED")>>
        <4>1. todo'[p] = <<Named("UNNAMED")>>
          BY <1>2, <3>3
        <4> QED BY <1>7, <3>1, <4>1 DEF Place, Gate
      <3> QED BY <3>1, <3>2, <3>3
    <2>7. CASE Naming(p)
      <3>1. doc'[p] = NoDoc /\ todo'[p] = <<>>
        BY <1>2, <2>7 DEF Naming
      <3> QED BY <1>7, <3>1 DEF Place, Quiet
    <2>8. CASE Document(p)
      <3>1. PICK d \in Docs, path \in DocPaths, i \in Slots :
               /\ Registering(p, d, path, i) \/ Filling(p, d, path, i)
               /\ doc[p] = [name |-> d, path |-> path]
        BY <2>8 DEF Document
      <3>2. doc[p] # NoDoc
        BY <3>1, DocumentNamed
      <3>3. CASE Registering(p, d, path, i)
        <4>1. todo'[p] = <<SlotPath(i, path)>> /\ doc'[p] = doc[p]
          BY <1>2, <3>2, <3>3 DEF Registering
        <4>2. Filling(p, d, path, i)'
          BY <1>4, <4>1 DEF Filling
        <4> QED BY <1>7, <3>1, <4>1, <4>2 DEF Place, Document
      <3>4. CASE Filling(p, d, path, i)
        <4>1. todo'[p] = <<>> /\ doc'[p] = NoDoc
          BY <1>2, <3>2, <3>4 DEF Filling
        <4> QED BY <1>7, <4>1 DEF Place, Quiet
      <3> QED BY <3>1, <3>3, <3>4
    <2> QED BY <1>2, <2>1, <2>2, <2>3, <2>4, <2>5, <2>6, <2>7, <2>8 DEF Place
  <1> QED BY <1>1, <1>3, <1>5, <1>8, WriteEnds, OneStep

\* The state file gets a new content, the manifest stays.
StateRewritten ==
    /\ stored'.state \in StateFile
    /\ stored'.manifest = stored.manifest
    /\ stored' = [state |-> stored'.state, manifest |-> stored'.manifest]

\* A write of the state file leaves the documents alone.
LEMMA StateFileStep ==
    ASSUME OneSupervisor, HubInv, NEW p \in HubProcs, StateWriteRename(p),
           doc[p] = NoDoc, StateRewritten, Place(p)'
    PROVE  HubInv'
  <1>1. copy[p] # NoCopy /\ WriteDone(p) /\ failures' = failures
    BY DEF StateWriteRename
  <1>2. stored' \in [state : StateFile, manifest : ManifestFile]
    <2>1. stored'.manifest \in ManifestFile
      BY StoredParts DEF HubInv, StateRewritten
    <2> QED BY <2>1 DEF StateRewritten
  <1>3. HubTypeOK'
    BY <1>1, <1>2, WriteEnds DEF HubTypeOK
  <1>4. DocReadsBack'
    BY <1>1, WriteEnds, DocsKept DEF StateRewritten
  <1> QED BY <1>1, <1>3, <1>4, WriteEnds, OneStep

\* What the write of a value to a key of the state file does to the others.
LEMMA StateKeyStep ==
    ASSUME HubInv, NEW p \in HubProcs, StateWriteRename(p), doc[p] = NoDoc, NEW v
    PROVE  /\ UNCHANGED <<unaudited, doc>> /\ Faults' = Faults
           /\ HubTypeOK
           /\ Head(todo[p]) = Numbered(v) /\ v \in Nat =>
                 /\ StateRewritten
                 /\ stored'.state.phase_name = stored.state.phase_name
                 /\ stored'.state.audit_counter = stored.state.audit_counter
                 /\ stored'.state.audit_required = stored.state.audit_required
           /\ Head(todo[p]) = Named(v) /\ v \in Phases =>
                 /\ StateRewritten
                 /\ stored'.state.phase_name = v
                 /\ stored'.state.audit_counter = stored.state.audit_counter
                 /\ stored'.state.audit_required = stored.state.audit_required
           /\ Head(todo[p]) = Counted(v) /\ v \in Nat =>
                 /\ StateRewritten
                 /\ stored'.state.phase_name = stored.state.phase_name
                 /\ stored'.state.audit_counter = v
                 /\ stored'.state.audit_required = stored.state.audit_required
           /\ Head(todo[p]) = Required(v) /\ v \in {0, 1} =>
                 /\ StateRewritten
                 /\ stored'.state.phase_name = stored.state.phase_name
                 /\ stored'.state.audit_counter = stored.state.audit_counter
                 /\ stored'.state.audit_required = v
           /\ Head(todo[p]) = Spawned =>
                 /\ StateRewritten
                 /\ stored'.state.phase_name = stored.state.phase_name
                 /\ stored'.state.audit_counter = stored.state.audit_counter
                 /\ stored'.state.audit_required = stored.state.audit_required
  <1>1. HubTypeOK /\ copy[p] # NoCopy /\ WriteDone(p) /\ failures' = failures
    BY DEF HubInv, StateWriteRename
  <1>2. stored.state \in StateFile
    BY <1>1, StoredParts
  <1>3. UNCHANGED <<unaudited, doc>> /\ Faults' = Faults
    BY <1>1, WriteEnds DEF Faults
  <1>4. ASSUME NEW k, NEW w, Head(todo[p]) = Write("state", k, w),
               [stored.state EXCEPT ![k] = w] \in StateFile
        PROVE  StateRewritten /\ stored'.state = [stored.state EXCEPT ![k] = w]
    BY <1>4, StateWritten DEF StateRewritten
  <1>5. ASSUME Head(todo[p]) = Numbered(v), v \in Nat
        PROVE  /\ StateRewritten
               /\ stored'.state.phase_name = stored.state.phase_name
               /\ stored'.state.audit_counter = stored.state.audit_counter
               /\ stored'.state.audit_required = stored.state.audit_required
    <2>1. [stored.state EXCEPT !["phase_num"] = v] \in StateFile
      BY <1>2, <1>5 DEF StateFile
    <2>2. /\ StateRewritten
          /\ stored'.state = [stored.state EXCEPT !["phase_num"] = v]
      BY <1>4, <1>5, <2>1 DEF Numbered
    <2> QED BY <1>2, <2>2 DEF StateFile
  <1>6. ASSUME Head(todo[p]) = Named(v), v \in Phases
        PROVE  /\ StateRewritten
               /\ stored'.state.phase_name = v
               /\ stored'.state.audit_counter = stored.state.audit_counter
               /\ stored'.state.audit_required = stored.state.audit_required
    <2>1. [stored.state EXCEPT !["phase_name"] = v] \in StateFile
      BY <1>2, <1>6 DEF StateFile
    <2>2. /\ StateRewritten
          /\ stored'.state = [stored.state EXCEPT !["phase_name"] = v]
      BY <1>4, <1>6, <2>1 DEF Named
    <2> QED BY <1>2, <2>2 DEF StateFile
  <1>7. ASSUME Head(todo[p]) = Counted(v), v \in Nat
        PROVE  /\ StateRewritten
               /\ stored'.state.phase_name = stored.state.phase_name
               /\ stored'.state.audit_counter = v
               /\ stored'.state.audit_required = stored.state.audit_required
    <2>1. [stored.state EXCEPT !["audit_counter"] = v] \in StateFile
      BY <1>2, <1>7 DEF StateFile
    <2>2. /\ StateRewritten
          /\ stored'.state = [stored.state EXCEPT !["audit_counter"] = v]
      BY <1>4, <1>7, <2>1 DEF Counted
    <2> QED BY <1>2, <2>2 DEF StateFile
  <1>8. ASSUME Head(todo[p]) = Required(v), v \in {0, 1}
        PROVE  /\ StateRewritten
               /\ stored'.state.phase_name = stored.state.phase_name
               /\ stored'.state.audit_counter = stored.state.audit_counter
               /\ stored'.state.audit_required = v
    <2>1. [stored.state EXCEPT !["audit_required"] = v] \in StateFile
      BY <1>2, <1>8 DEF StateFile
    <2>2. /\ StateRewritten
          /\ stored'.state = [stored.state EXCEPT !["audit_required"] = v]
      BY <1>4, <1>8, <2>1 DEF Required
    <2> QED BY <1>2, <2>2 DEF StateFile
  <1>9. ASSUME Head(todo[p]) = Spawned
        PROVE  /\ StateRewritten
               /\ stored'.state.phase_name = stored.state.phase_name
               /\ stored'.state.audit_counter = stored.state.audit_counter
               /\ stored'.state.audit_required = stored.state.audit_required
    <2>1. [stored.state EXCEPT !["last_spawn_time"] = 0] \in StateFile
      BY <1>2 DEF StateFile
    <2>2. /\ StateRewritten
          /\ stored'.state = [stored.state EXCEPT !["last_spawn_time"] = 0]
      BY <1>4, <1>9, <2>1 DEF Spawned
    <2> QED BY <1>2, <2>2 DEF StateFile
  <1> QED BY <1>1, <1>3, <1>5, <1>6, <1>7, <1>8, <1>9

\* The write of a spawn.
LEMMA QuietRenameInv ==
    ASSUME OneSupervisor, HubInv, NEW p \in HubProcs, StateWriteRename(p),
           todo'[p] = Tail(todo[p]), todo[p] # <<>>, Quiet(p)
    PROVE  HubInv'
  <1>1. /\ todo[p] = <<Spawned>> /\ doc[p] = NoDoc
        /\ Balanced(unaudited)
    BY DEF Quiet
  <1>2. Head(todo[p]) = Spawned /\ todo'[p] = <<>>
    BY <1>1
  <1>3. /\ UNCHANGED <<unaudited, doc>> /\ Faults' = Faults
        /\ StateRewritten
        /\ stored'.state.phase_name = stored.state.phase_name
        /\ stored'.state.audit_counter = stored.state.audit_counter
        /\ stored'.state.audit_required = stored.state.audit_required
    BY <1>1, <1>2, StateKeyStep
  <1>4. Quiet(p)'
    BY <1>1, <1>2, <1>3 DEF Quiet, Balanced
  <1> QED BY <1>1, <1>3, <1>4, StateFileStep DEF Place

\* The writes of init.
LEMMA SetupRenameInv ==
    ASSUME OneSupervisor, HubInv, NEW p \in HubProcs, StateWriteRename(p),
           todo'[p] = Tail(todo[p]), todo[p] # <<>>, Setup(p)
    PROVE  HubInv'
  <1>1. doc[p] = NoDoc /\ unaudited = 0
    BY DEF Setup
  <1>2. /\ UNCHANGED <<unaudited, doc>> /\ Faults' = Faults /\ HubTypeOK
    BY <1>1, StateKeyStep
  <1>3. CASE todo[p] = <<Required(0), Spawned>>
    <2>1. Head(todo[p]) = Required(0) /\ todo'[p] = <<Spawned>>
      BY <1>3
    <2>2. StateRewritten
      BY <1>1, <2>1, StateKeyStep
    <2>3. Faults' \in Nat /\ stored'.state.audit_counter \in Nat
      BY <1>2, <2>2, StoredParts DEF StateRewritten, StateFile
    <2>4. Balanced(unaudited)'
      BY <1>1, <1>2, <2>3, HubAssumption DEF Balanced
    <2>5. Quiet(p)'
      BY <1>1, <1>2, <2>1, <2>4 DEF Quiet
    <2> QED BY <1>1, <2>2, <2>5, StateFileStep DEF Place
  <1>4. CASE todo[p] = <<Counted(0), Required(0), Spawned>>
    <2>1. Head(todo[p]) = Counted(0) /\ todo'[p] = <<Required(0), Spawned>>
      BY <1>4
    <2>2. StateRewritten
      BY <1>1, <2>1, StateKeyStep
    <2>3. Setup(p)'
      BY <1>1, <1>2, <2>1 DEF Setup
    <2> QED BY <1>1, <2>2, <2>3, StateFileStep DEF Place
  <1>5. CASE todo[p] = <<Named("PLANNING"), Counted(0), Required(0), Spawned>>
    <2>1. /\ Head(todo[p]) = Named("PLANNING")
          /\ todo'[p] = <<Counted(0), Required(0), Spawned>>
      BY <1>5
    <2>2. StateRewritten
      BY <1>1, <2>1, StateKeyStep, HubAssumption
    <2>3. Setup(p)'
      BY <1>1, <1>2, <2>1 DEF Setup
    <2> QED BY <1>1, <2>2, <2>3, StateFileStep DEF Place
  <1>6. CASE todo[p] = <<Numbered(0), Named("PLANNING"), Counted(0), Required(0),
                         Spawned>>
    <2>1. /\ Head(todo[p]) = Numbered(0)
          /\ todo'[p] = <<Named("PLANNING"), Counted(0), Required(0), Spawned>>
      BY <1>6
    <2>2. StateRewritten
      BY <1>1, <2>1, StateKeyStep
    <2>3. Setup(p)'
      BY <1>1, <1>2, <2>1 DEF Setup
    <2> QED BY <1>1, <2>2, <2>3, StateFileStep DEF Place
  <1> QED BY <1>3, <1>4, <1>5, <1>6 DEF Setup

\* The first write of a result: the counter.
LEMMA ResultRenameInv ==
    ASSUME OneSupervisor, HubInv, NEW p \in HubProcs, StateWriteRename(p),
           todo'[p] = Tail(todo[p]), todo[p] # <<>>, Result(p)
    PROVE  HubInv'
  <1> DEFINE c == stored.state.audit_counter + 1
  <1>1. /\ doc[p] = NoDoc /\ Balanced(unaudited - 1)
        /\ \/ todo[p] = <<Counted(c)>> /\ c < AUDIT_THRESHOLD
           \/ todo[p] = <<Counted(c), Required(1)>>
    BY DEF Result
  <1>2. /\ UNCHANGED <<unaudited, doc>> /\ Faults' = Faults /\ HubTypeOK
    BY <1>1, StateKeyStep
  <1>3. /\ c \in Nat /\ stored.state.audit_counter \in Nat /\ Faults \in Nat
        /\ unaudited \in Nat /\ AUDIT_THRESHOLD \in Nat
    BY <1>2, StoredParts, HubAssumption DEF HubTypeOK
  <1>4. /\ unaudited <= c + Faults
        /\ stored.state.audit_required = 0 => unaudited <= AUDIT_THRESHOLD + Faults
        /\ c < AUDIT_THRESHOLD => unaudited < AUDIT_THRESHOLD + Faults
    <2>1. /\ unaudited - 1 <= stored.state.audit_counter + Faults
          /\ stored.state.audit_required = 0 =>
                unaudited - 1 < AUDIT_THRESHOLD + Faults
      BY <1>1 DEF Balanced
    <2>2. unaudited <= c + Faults
      BY <1>3, <2>1
    <2>3. stored.state.audit_required = 0 => unaudited <= AUDIT_THRESHOLD + Faults
      BY <1>3, <2>1
    <2> HIDE DEF c
    <2>4. c < AUDIT_THRESHOLD => unaudited < AUDIT_THRESHOLD + Faults
      BY <1>3, <2>2
    <2> QED BY <2>2, <2>3, <2>4
  <1> HIDE DEF c
  <1>5. Head(todo[p]) = Counted(c)
    BY <1>1
  <1>6. /\ StateRewritten
        /\ stored'.state.phase_name = stored.state.phase_name
        /\ stored'.state.audit_counter = c
        /\ stored'.state.audit_required = stored.state.audit_required
    BY <1>1, <1>3, <1>5, StateKeyStep
  <1>7. CASE todo[p] = <<Counted(c)>> /\ c < AUDIT_THRESHOLD
    <2>1. todo'[p] = <<>>
      BY <1>7
    <2>2. Quiet(p)'
      BY <1>1, <1>2, <1>4, <1>6, <1>7, <2>1 DEF Quiet, Balanced
    <2> QED BY <1>1, <1>6, <2>2, StateFileStep DEF Place
  <1>8. CASE todo[p] = <<Counted(c), Required(1)>>
    <2>1. todo'[p] = <<Required(1)>>
      BY <1>8
    <2>2. Closing(p)'
      BY <1>1, <1>2, <1>4, <1>6, <2>1 DEF Closing
    <2> QED BY <1>1, <1>6, <2>2, StateFileStep DEF Place
  <1> QED BY <1>1, <1>7, <1>8

\* The flag that closes the gate.
LEMMA ClosingRenameInv ==
    ASSUME OneSupervisor, HubInv, NEW p \in HubProcs, StateWriteRename(p),
           todo'[p] = Tail(todo[p]), todo[p] # <<>>, Closing(p)
    PROVE  HubInv'
  <1>1. /\ todo[p] = <<Required(1)>> /\ doc[p] = NoDoc
        /\ unaudited <= stored.state.audit_counter + Faults
    BY DEF Closing
  <1>2. Head(todo[p]) = Required(1) /\ todo'[p] = <<>>
    BY <1>1
  <1>3. /\ UNCHANGED <<unaudited, doc>> /\ Faults' = Faults
        /\ StateRewritten
        /\ stored'.state.phase_name = stored.state.phase_name
        /\ stored'.state.audit_counter = stored.state.audit_counter
        /\ stored'.state.audit_required = 1
    BY <1>1, <1>2, StateKeyStep
  <1>4. Quiet(p)'
    BY <1>1, <1>2, <1>3 DEF Quiet, Balanced
  <1> QED BY <1>1, <1>3, <1>4, StateFileStep DEF Place

\* The writes of an audit.
LEMMA AuditRenameInv ==
    ASSUME OneSupervisor, HubInv, NEW p \in HubProcs, StateWriteRename(p),
           todo'[p] = Tail(todo[p]), todo[p] # <<>>, Audit(p)
    PROVE  HubInv'
  <1>1. /\ doc[p] = NoDoc /\ unaudited = 0
        /\ todo[p] = <<Counted(0), Required(0)>> \/ todo[p] = <<Required(0)>>
    BY DEF Audit
  <1>2. /\ UNCHANGED <<unaudited, doc>> /\ Faults' = Faults /\ HubTypeOK
    BY <1>1, StateKeyStep
  <1>3. CASE todo[p] = <<Required(0)>>
    <2>1. Head(todo[p]) = Required(0) /\ todo'[p] = <<>>
      BY <1>3
    <2>2. StateRewritten /\ stored'.state.phase_name = stored.state.phase_name
      BY <1>1, <2>1, StateKeyStep
    <2>3. Faults' \in Nat /\ stored'.state.audit_counter \in Nat
      BY <1>2, <2>2, StoredParts DEF StateRewritten, StateFile
    <2>4. Balanced(unaudited)'
      BY <1>1, <1>2, <2>3, HubAssumption DEF Balanced
    <2>5. Quiet(p)'
      BY <1>1, <1>2, <2>1, <2>2, <2>4 DEF Quiet
    <2> QED BY <1>1, <2>2, <2>5, StateFileStep DEF Place
  <1>4. CASE todo[p] = <<Counted(0), Required(0)>>
    <2>1. Head(todo[p]) = Counted(0) /\ todo'[p] = <<Required(0)>>
      BY <1>4
    <2>2. StateRewritten /\ stored'.state.phase_name = stored.state.phase_name
      BY <1>1, <2>1, StateKeyStep
    <2>3. Audit(p)'
      BY <1>1, <1>2, <2>1, <2>2 DEF Audit
    <2> QED BY <1>1, <2>2, <2>3, StateFileStep DEF Place
  <1> QED BY <1>1, <1>3, <1>4

\* The writes of a gate: a new number, then the name that has no gate.
LEMMA GateRenameInv ==
    ASSUME OneSupervisor, HubInv, NEW p \in HubProcs, StateWriteRename(p),
           todo'[p] = Tail(todo[p]), todo[p] # <<>>, Gate(p)
    PROVE  HubInv'
  <1> DEFINE n == stored.state.phase_num + 1
  <1>1. /\ doc[p] = NoDoc /\ Balanced(unaudited)
        /\ \/ todo[p] = <<Numbered(n), Named("UNNAMED")>>
           \/ todo[p] = <<Named("UNNAMED")>>
    BY DEF Gate
  <1>2. /\ UNCHANGED <<unaudited, doc>> /\ Faults' = Faults /\ HubTypeOK
    BY <1>1, StateKeyStep
  <1>3. n \in Nat
    BY <1>2, StoredParts
  <1> HIDE DEF n
  <1>4. CASE todo[p] = <<Named("UNNAMED")>>
    <2>1. Head(todo[p]) = Named("UNNAMED") /\ todo'[p] = <<>>
      BY <1>4
    <2>2. /\ StateRewritten /\ stored'.state.phase_name = "UNNAMED"
          /\ stored'.state.audit_counter = stored.state.audit_counter
          /\ stored'.state.audit_required = stored.state.audit_required
      BY <1>1, <2>1, StateKeyStep, HubAssumption
    <2>3. Quiet(p)'
      BY <1>1, <1>2, <2>1, <2>2 DEF Quiet, Balanced
    <2> QED BY <1>1, <2>2, <2>3, StateFileStep DEF Place
  <1>5. CASE todo[p] = <<Numbered(n), Named("UNNAMED")>>
    <2>1. Head(todo[p]) = Numbered(n) /\ todo'[p] = <<Named("UNNAMED")>>
      BY <1>5
    <2>2. /\ StateRewritten
          /\ stored'.state.audit_counter = stored.state.audit_counter
          /\ stored'.state.audit_required = stored.state.audit_required
      BY <1>1, <1>3, <2>1, StateKeyStep
    <2>3. Gate(p)'
      BY <1>1, <1>2, <2>1, <2>2 DEF Gate, Balanced
    <2> QED BY <1>1, <2>2, <2>3, StateFileStep DEF Place
  <1> QED BY <1>1, <1>4, <1>5

\* The write of a phase's name.
LEMMA NamingRenameInv ==
    ASSUME OneSupervisor, HubInv, NEW p \in HubProcs, StateWriteRename(p),
           todo'[p] = Tail(todo[p]), todo[p] # <<>>, Naming(p)
    PROVE  HubInv'
  <1>1. PICK phase \in Phases : /\ todo[p] = <<Named(phase)>>
                                /\ doc[p] = NoDoc
                                /\ Balanced(unaudited)
    BY DEF Naming
  <1>2. Head(todo[p]) = Named(phase) /\ todo'[p] = <<>>
    BY <1>1
  <1>3. /\ UNCHANGED <<unaudited, doc>> /\ Faults' = Faults
        /\ StateRewritten /\ stored'.state.phase_name = phase
        /\ stored'.state.audit_counter = stored.state.audit_counter
        /\ stored'.state.audit_required = stored.state.audit_required
    BY <1>1, <1>2, StateKeyStep
  <1>4. Quiet(p)'
    BY <1>1, <1>2, <1>3 DEF Quiet, Balanced
  <1> QED BY <1>1, <1>3, <1>4, StateFileStep DEF Place

\* The manifest n is m with the name of the document in the slot that SlotsFor
\* gives it.
NameFilled(m, n, i, d) ==
    /\ m[<<i, "name">>] \in {d, "none"}
    /\ \A j \in Slots : j < i => m[<<j, "name">>] \notin {d, "none"}
    /\ n[<<i, "name">>] = d
    /\ \A j \in Slots : n[<<j, "path">>] = m[<<j, "path">>]
    /\ \A j \in Slots : j # i => n[<<j, "name">>] = m[<<j, "name">>]

\* A name written to the slot of a document, or to the first free slot: doc
\* read finds it there, and the others where they were, because the search for
\* them ends before the first free slot.
LEMMA NameFills ==
    ASSUME NEW m, NEW n, NEW d \in Docs, NEW i \in Slots, NameFilled(m, n, i, d)
    PROVE  /\ i \in Found(n, d)
           /\ \A e \in Docs : ReadOf(m, e) # "none" => ReadOf(n, e) = ReadOf(m, e)
  <1> USE DEF NameFilled
  <1>3. d # "none"
    BY HubAssumption
  <1>4. i \in Found(n, d)
    BY DEF Found, Slots
  <1>5. ASSUME NEW e \in Docs, ReadOf(m, e) # "none"
        PROVE  ReadOf(n, e) = ReadOf(m, e)
    <2>1. PICK k \in Found(m, e) : ReadOf(m, e) = m[<<k, "path">>]
      BY <1>5, ReadsSlot
    <2>2. /\ k \in Slots /\ m[<<k, "name">>] = e /\ e # "none"
          /\ \A j \in Slots : j < k => m[<<j, "name">>] \notin {e, "none"}
      BY HubAssumption DEF Found
    <2>3. k \in Found(n, e)
      <3>1. CASE m[<<i, "name">>] = d
        <4>1. \A j \in Slots : n[<<j, "name">>] = m[<<j, "name">>]
          BY <3>1
        <4> QED BY <2>2, <4>1 DEF Found
      <3>2. CASE m[<<i, "name">>] = "none"
        <4>1. k < i
          BY <2>2, <3>2, HubAssumption DEF Slots
        <4>2. \A j \in Slots : j <= k => n[<<j, "name">>] = m[<<j, "name">>]
          BY <2>2, <4>1 DEF Slots
        <4>3. n[<<k, "name">>] = e
          BY <2>2, <4>2 DEF Slots
        <4>4. \A j \in Slots : j < k => n[<<j, "name">>] \notin {e, "none"}
          BY <2>2, <4>2 DEF Slots
        <4> QED BY <2>2, <4>3, <4>4 DEF Found
      <3> QED BY <3>1, <3>2
    <2>4. ReadOf(n, e) = n[<<k, "path">>]
      BY <2>3, ReadsSlot
    <2> QED BY <2>1, <2>2, <2>4
  <1> QED BY <1>4, <1>5

\* A path written to the slot of a document: doc read answers it, and for the
\* others what it answered before.
LEMMA PathFills ==
    ASSUME NEW m, NEW d \in Docs, NEW path \in DocPaths, NEW i \in Found(m, d),
           NEW n, n[<<i, "path">>] = path,
           \A j \in Slots : n[<<j, "name">>] = m[<<j, "name">>],
           \A j \in Slots : j # i => n[<<j, "path">>] = m[<<j, "path">>]
    PROVE  /\ ReadOf(n, d) = path
           /\ \A e \in Docs : e # d /\ ReadOf(m, e) # "none" =>
                                 ReadOf(n, e) = ReadOf(m, e)
  <1>1. i \in Slots /\ m[<<i, "name">>] = d
    BY DEF Found
  <1>3. \A e \in Docs, k \in Slots : k \in Found(m, e) => k \in Found(n, e)
    BY DEF Found
  <1>4. ReadOf(n, d) = path
    BY <1>1, <1>3, ReadsSlot
  <1>5. ASSUME NEW e \in Docs, e # d, ReadOf(m, e) # "none"
        PROVE  ReadOf(n, e) = ReadOf(m, e)
    <2>1. PICK k \in Found(m, e) : ReadOf(m, e) = m[<<k, "path">>]
      BY <1>5, ReadsSlot
    <2>2. k \in Slots /\ m[<<k, "name">>] = e
      BY DEF Found
    <2>3. k # i /\ k \in Found(n, e)
      BY <1>1, <1>3, <1>5, <2>2
    <2>4. ReadOf(n, e) = n[<<k, "path">>]
      BY <2>3, ReadsSlot
    <2> QED BY <2>1, <2>2, <2>3, <2>4
  <1> QED BY <1>4, <1>5

\* A write of the manifest leaves the rest alone.
LEMMA ManifestStep ==
    ASSUME OneSupervisor, HubInv, NEW p \in HubProcs, StateWriteRename(p),
           stored'.manifest \in ManifestFile, stored'.state = stored.state,
           stored' = [state |-> stored'.state, manifest |-> stored'.manifest],
           DocReadsBack', Place(p)'
    PROVE  HubInv'
  <1>1. copy[p] # NoCopy /\ WriteDone(p) /\ failures' = failures
    BY DEF StateWriteRename
  <1>2. stored' \in [state : StateFile, manifest : ManifestFile]
    <2>1. stored'.state \in StateFile
      BY StoredParts DEF HubInv
    <2> QED BY <2>1
  <1>3. HubTypeOK'
    BY <1>1, <1>2, WriteEnds DEF HubTypeOK
  <1> QED BY <1>1, <1>3, WriteEnds, OneStep

\* The two writes of doc register.
LEMMA DocumentRenameInv ==
    ASSUME OneSupervisor, HubInv, NEW p \in HubProcs, StateWriteRename(p),
           Document(p)
    PROVE  HubInv'
  <1> DEFINE m == stored.manifest
             n == stored'.manifest
  <1>1. copy[p] # NoCopy /\ WriteDone(p) /\ failures' = failures
    BY DEF StateWriteRename
  <1>2. /\ HubTypeOK /\ todo'[p] = Tail(todo[p])
        /\ UNCHANGED <<unaudited, crashes>>
        /\ doc[p] # NoDoc /\ Len(todo[p]) # 1 => UNCHANGED <<registered, doc>>
        /\ doc[p] # NoDoc /\ Len(todo[p]) = 1 =>
              /\ doc'[p] = NoDoc
              /\ registered' = [registered EXCEPT ![doc[p].name] = doc[p].path]
    BY <1>1, WriteEnds
  <1>3. PICK d \in Docs, path \in DocPaths, i \in Slots :
           /\ Registering(p, d, path, i) \/ Filling(p, d, path, i)
           /\ doc[p] = [name |-> d, path |-> path]
           /\ Balanced(unaudited)
    BY DEF Document
  <1>4. doc[p] # NoDoc
    BY <1>3, DocumentNamed
  <1>5. m \in ManifestFile /\ Faults' = Faults
    BY <1>1, <1>2, StoredParts DEF Faults
  <1>6. ASSUME NEW e \in Docs, failures = 0, registered[e] # "none"
        PROVE  ReadOf(m, e) = registered[e]
    BY <1>6, ReadIs DEF HubInv, DocReadsBack
  <1>7. ASSUME stored'.state = stored.state
        PROVE  Balanced(unaudited)'
    BY <1>2, <1>3, <1>5, <1>7 DEF Balanced
  <1>8. CASE Registering(p, d, path, i)
    <2>1. /\ Head(todo[p]) = Write("manifest", <<i, "name">>, d)
          /\ todo'[p] = <<SlotPath(i, path)>> /\ Len(todo[p]) # 1
      BY <1>2, <1>8 DEF Registering, SlotName
    <2> DEFINE k == <<i, "name">>
    <2>2. /\ n = [m EXCEPT ![k] = d] /\ stored'.state = stored.state
          /\ stored' = [state |-> stored'.state, manifest |-> stored'.manifest]
      <3>1. Head(todo[p]) = Write("manifest", k, d)
        BY <2>1
      <3> HIDE DEF k
      <3> QED BY <3>1, ManifestWritten
    <2>3. /\ n \in ManifestFile /\ n[<<i, "name">>] = d
          /\ \A j \in Slots : n[<<j, "path">>] = m[<<j, "path">>]
          /\ \A j \in Slots : j # i => n[<<j, "name">>] = m[<<j, "name">>]
      BY <1>5, <2>2 DEF ManifestFile
    <2>4. ASSUME failures = 0
          PROVE  /\ i \in Found(n, d)
                 /\ \A e \in Docs : ReadOf(m, e) # "none" =>
                                       ReadOf(n, e) = ReadOf(m, e)
      <3>1. /\ m[<<i, "name">>] \in {d, "none"}
            /\ \A j \in Slots : j < i => m[<<j, "name">>] \notin {d, "none"}
        BY <1>8, <2>4 DEF Registering, SlotsFor, DocName
      <3>2. NameFilled(m, n, i, d)
        BY <2>3, <3>1 DEF NameFilled
      <3> HIDE DEF m, n
      <3> QED BY <3>2, NameFills
    <2>5. DocReadsBack'
      <3> SUFFICES ASSUME failures' = 0, NEW e \in Docs, registered'[e] # "none"
                   PROVE  CmdDocRead(e)' = registered'[e]
        BY DEF DocReadsBack
      <3>1. failures = 0 /\ registered'[e] = registered[e]
        BY <1>1, <1>2, <1>4, <2>1
      <3>2. CmdDocRead(e)' = ReadOf(n, e)
        BY ReadIs
      <3> QED BY <1>6, <2>4, <3>1, <3>2
    <2>6. Filling(p, d, path, i)'
      BY <1>1, <2>1, <2>4 DEF Filling
    <2>7. doc'[p] = [name |-> d, path |-> path]
      BY <1>2, <1>3, <1>4, <2>1
    <2>8. Document(p)'
      BY <1>7, <2>2, <2>6, <2>7 DEF Document
    <2> QED BY <2>2, <2>3, <2>5, <2>8, ManifestStep DEF Place
  <1>9. CASE Filling(p, d, path, i)
    <2>1. /\ Head(todo[p]) = Write("manifest", <<i, "path">>, path)
          /\ todo'[p] = <<>> /\ Len(todo[p]) = 1
      BY <1>2, <1>9 DEF Filling, SlotPath
    <2> DEFINE k == <<i, "path">>
    <2>2. /\ n = [m EXCEPT ![k] = path] /\ stored'.state = stored.state
          /\ stored' = [state |-> stored'.state, manifest |-> stored'.manifest]
      <3>1. Head(todo[p]) = Write("manifest", k, path)
        BY <2>1
      <3> HIDE DEF k
      <3> QED BY <3>1, ManifestWritten
    <2>3. /\ n \in ManifestFile /\ n[<<i, "path">>] = path
          /\ \A j \in Slots : n[<<j, "name">>] = m[<<j, "name">>]
          /\ \A j \in Slots : j # i => n[<<j, "path">>] = m[<<j, "path">>]
      BY <1>5, <2>2 DEF ManifestFile
    <2>4. ASSUME failures = 0
          PROVE  /\ ReadOf(n, d) = path
                 /\ \A e \in Docs : e # d /\ ReadOf(m, e) # "none" =>
                                       ReadOf(n, e) = ReadOf(m, e)
      <3>1. i \in Found(m, d)
        BY <1>9, <2>4 DEF Filling
      <3> HIDE DEF m, n
      <3> QED BY <2>3, <3>1, PathFills
    <2>5. doc'[p] = NoDoc /\ registered' = [registered EXCEPT ![d] = path]
      BY <1>2, <1>3, <1>4, <2>1
    <2>6. DocReadsBack'
      <3> SUFFICES ASSUME failures' = 0, NEW e \in Docs, registered'[e] # "none"
                   PROVE  CmdDocRead(e)' = registered'[e]
        BY DEF DocReadsBack
      <3>1. /\ failures = 0 /\ CmdDocRead(e)' = ReadOf(n, e)
            /\ DOMAIN registered = Docs
        BY <1>1, <1>2, ReadIs DEF HubTypeOK
      <3>2. CASE e = d
        BY <2>4, <2>5, <3>1, <3>2
      <3>3. CASE e # d
        <4>1. registered'[e] = registered[e]
          BY <2>5, <3>1, <3>3
        <4> QED BY <1>6, <2>4, <3>1, <3>3, <4>1
      <3> QED BY <3>2, <3>3
    <2>7. Quiet(p)'
      BY <1>7, <2>1, <2>2, <2>5 DEF Quiet
    <2> QED BY <2>2, <2>3, <2>6, <2>7, ManifestStep DEF Place
  <1> QED BY <1>3, <1>8, <1>9

\* A write succeeds.
LEMMA StateWriteRenameInv ==
    ASSUME OneSupervisor, HubInv, NEW p \in HubProcs, StateWriteRename(p)
    PROVE  HubInv'
  <1>1. Place(p) /\ todo[p] # <<>> /\ todo'[p] = Tail(todo[p])
    BY WriteEnds DEF StateWriteRename
  <1> QED BY <1>1, QuietRenameInv, SetupRenameInv, ResultRenameInv,
             ClosingRenameInv, AuditRenameInv, GateRenameInv, NamingRenameInv,
             DocumentRenameInv DEF Place

-----------------------------------------------------------------------------
(***************************************************************************)
(* The theorems.                                                           *)
(***************************************************************************)

\* The invariant holds at the start.
LEMMA HubInitInv ==
    ASSUME HubInit
    PROVE  HubInv
  <1>1. stored = [state |-> State0, manifest |-> Manifest0]
    BY DEF HubInit
  <1>2. State0 \in StateFile
    BY DEF State0, StateFile
  <1>3. Manifest0 \in ManifestFile
    BY DEF Manifest0, ManifestFile
  <1>4. HubTypeOK
    <2>1. stored \in [state : StateFile, manifest : ManifestFile]
      BY <1>1, <1>2, <1>3
    <2>2. doc \in [HubProcs -> [name : Docs \cup {"none"},
                                path : DocPaths \cup {"none"}]]
      BY DEF HubInit, NoDoc
    <2> QED BY <2>1, <2>2 DEF HubInit, HubTypeOK
  <1>5. DocReadsBack
    BY DEF HubInit, DocReadsBack
  <1>6. ASSUME NEW p \in HubProcs PROVE Place(p) /\ CopyOK(p)
    <2>1. todo[p] = <<>> /\ copy[p] = NoCopy /\ doc[p] = NoDoc
      BY DEF HubInit
    <2>2. stored.state.audit_counter = 0 /\ Faults = 0 /\ unaudited = 0
      BY <1>1 DEF HubInit, State0, Faults
    <2>3. Balanced(unaudited)
      BY <2>2, HubAssumption DEF Balanced
    <2> QED BY <2>1, <2>3 DEF Place, Quiet, CopyOK
  <1> QED BY <1>4, <1>5, <1>6 DEF HubInv, HubInit

\* Every step keeps it.
LEMMA HubStep ==
    ASSUME OneSupervisor, HubInv, [HubNext]_hubvars
    PROVE  HubInv'
  <1>1. CASE UNCHANGED hubvars
    <2>1. DocReadsBack'
      BY <1>1, DocsKept DEF hubvars
    <2>2. HubTypeOK' /\ (~made' => unaudited' = 0)
      BY <1>1 DEF hubvars, HubInv, HubTypeOK
    <2>3. ASSUME NEW p \in HubProcs PROVE Place(p)' /\ CopyOK(p)'
      <3>1. Place(p) /\ CopyOK(p)
        BY DEF HubInv
      <3>2. UNCHANGED <<made, stored, todo, copy, doc, unaudited, registered,
                        crashes, failures>>
        BY <1>1 DEF hubvars
      <3>3. CopyOK(p)'
        BY <3>1, <3>2 DEF CopyOK
      <3>4. /\ Balanced(unaudited) => Balanced(unaudited)'
            /\ Balanced(unaudited - 1) => Balanced(unaudited - 1)'
        BY <3>2 DEF Balanced, Faults
      <3>6. Quiet(p) => Quiet(p)'
        BY <3>2, <3>4 DEF Quiet
      <3>7. Setup(p) => Setup(p)'
        BY <3>2 DEF Setup
      <3>8. Result(p) => Result(p)'
        BY <3>2, <3>4 DEF Result
      <3>9. Closing(p) => Closing(p)'
        BY <3>2 DEF Closing, Faults
      <3>10. Audit(p) => Audit(p)'
        BY <3>2 DEF Audit
      <3>11. Gate(p) => Gate(p)'
        BY <3>2, <3>4 DEF Gate
      <3>12. Naming(p) => Naming(p)'
        BY <3>2, <3>4 DEF Naming
      <3>13. ASSUME NEW d \in Docs, NEW path \in DocPaths, NEW i \in Slots
             PROVE  /\ Registering(p, d, path, i) => Registering(p, d, path, i)'
                    /\ Filling(p, d, path, i) => Filling(p, d, path, i)'
        BY <3>2 DEF Registering, Filling, SlotsFor, DocName
      <3>14. Document(p) => Document(p)'
        BY <3>2, <3>4, <3>13 DEF Document
      <3> QED BY <3>1, <3>3, <3>6, <3>7, <3>8, <3>9, <3>10, <3>11, <3>12, <3>14 DEF Place
    <2> QED BY <2>1, <2>2, <2>3 DEF HubInv
  <1>2. CASE HubNext
    <2>1. PICK p \in HubProcs :
             \/ CmdInit(p) \/ CmdSpawn(p) \/ CmdResult(p) \/ CmdAudit(p)
             \/ \E phase \in Phases : CmdGate(p, phase) \/ CmdPhaseName(p, phase)
             \/ \E d \in Docs, path \in DocPaths : CmdDocRegister(p, d, path)
             \/ StateWriteRead(p) \/ StateWriteRename(p) \/ StateWriteFail(p)
             \/ HubCrash(p)
      BY <1>2 DEF HubNext
    <2> QED BY <2>1, CmdInitInv, CmdSpawnInv, CmdResultInv, CmdAuditInv,
               CmdGateInv, CmdPhaseNameInv, CmdDocRegisterInv, StateWriteReadInv,
               StateWriteRenameInv, StateWriteFailInv, HubCrashInv
  <1> QED BY <1>1, <1>2

\* The invariant, for one supervisor.
THEOREM HubInvariant == OneSupervisor => (HubSpec => []HubInv)
  <1> SUFFICES ASSUME OneSupervisor PROVE HubSpec => []HubInv
    OBVIOUS
  <1>1. HubInit => HubInv
    BY HubInitInv
  <1>2. HubInv /\ [HubNext]_hubvars => HubInv'
    BY HubStep
  <1> QED BY <1>1, <1>2, PTL DEF HubSpec

\* The registry of one supervisor: whatever its size, and whatever commands
\* were killed in the middle, a document reported as registered is found under
\* the path last registered, as long as no write failed.
THEOREM RegistryCorrect == OneSupervisor => (HubSpec => []DocReadsBack)
  <1>1. HubInv => DocReadsBack
    BY DEF HubInv
  <1> QED BY <1>1, HubInvariant, PTL

\* The audit gate of one supervisor: cmd_spawn lets a spawn through only while
\* fewer than AUDIT_THRESHOLD results were shown since the last audit, give or
\* take one for every fault.
THEOREM AuditGateCorrect == OneSupervisor => (HubSpec => SpawnGated)
  <1> SUFFICES ASSUME OneSupervisor PROVE HubSpec => SpawnGated
    OBVIOUS
  <1>1. HubInv /\ [HubNext]_hubvars =>
           [\A p \in HubProcs : CmdSpawn(p) =>
               unaudited < AUDIT_THRESHOLD + Faults]_hubvars
    <2> SUFFICES ASSUME HubInv, NEW p \in HubProcs, CmdSpawn(p)
                 PROVE  unaudited < AUDIT_THRESHOLD + Faults
      OBVIOUS
    <2>1. Balanced(unaudited)
      BY IdleQuiet DEF CmdSpawn
    <2> QED BY <2>1 DEF Balanced, CmdSpawn
  <1>2. HubSpec => []HubInv
    BY HubInvariant
  <1> QED BY <1>1, <1>2, PTL DEF HubSpec, SpawnGated
-----------------------------------------------------------------------------
(***************************************************************************)
(* The phase gate.                                                         *)
(***************************************************************************)

PhaseTypeOK ==
    /\ gate \in [HubProcs -> Phases \cup {"none"}]
    /\ passed \in [Phases -> Nat] /\ hit \in [Phases -> Nat]
    /\ gates \in Nat /\ hits \in Nat

\* No gate was passed.
NoneYet == passed = [phase \in Phases |-> 0] /\ gates = 0

\* The gate of every phase was passed at most once more than faults hit it.
Slack == \A phase \in Phases \ {"UNNAMED"} : passed[phase] <= 1 + hit[phase]

\* The phase may pass its gate.
Left(name) == name \in Phases \ {"UNNAMED"} => passed[name] <= hit[name]

\* The number, when k of the gates passed is still to be written to it.
Numbers(k) ==
    /\ stored.state.phase_num + k <= gates
    /\ gates <= stored.state.phase_num + k + hits

\* A command that passes a gate, before its first and its second write.
Passing(p) ==
    /\ gate[p] \in Phases /\ stored.state.phase_name = gate[p]
    /\ \/ todo[p] = <<Numbered(stored.state.phase_num + 1), Named("UNNAMED")>> /\ Numbers(1)
       \/ todo[p] = <<Named("UNNAMED")>> /\ Numbers(0)

\* Any other command, or none: what it writes to the name of the phase is a
\* name whose gate was not passed.
Waiting(p) ==
    /\ gate[p] = "none" /\ Numbers(0) /\ Left(stored.state.phase_name)
    /\ Setup(p) => NoneYet
    /\ \A n : todo[p] # <<Numbered(n), Named("UNNAMED")>>
    /\ \A phase \in Phases : todo[p] = <<Named(phase)>> => passed[phase] = 0

PhaseInv ==
    /\ PhaseTypeOK
    /\ ~made => NoneYet
    /\ Slack
    /\ \A p \in HubProcs : Passing(p) \/ Waiting(p)

\* The writes are told apart by their keys.
LEMMA KeysDiffer ==
    ASSUME NEW v, NEW w, NEW i, NEW d
    PROVE  /\ Named(v) \notin {Numbered(w), Counted(w), Required(w), Spawned, SlotPath(i, d)}
           /\ Numbered(v) \notin {Counted(w), Required(w), Spawned, SlotName(i, d)}
           /\ Named(v) = Named(w) <=> v = w
           /\ Numbered(v) = Numbered(w) <=> v = w
  BY DEF Numbered, Named, Counted, Required, Spawned, SlotPath, SlotName, Write

\* A write changes number and name of the phase by its key alone.
LEMMA PhaseWritten ==
    ASSUME HubInv, NEW p \in HubProcs, StateWriteRename(p), NEW v
    PROVE  /\ Head(todo[p]) = Numbered(v) =>
                 stored'.state.phase_num = v /\ stored'.state.phase_name = stored.state.phase_name
           /\ Head(todo[p]) = Named(v) =>
                 stored'.state.phase_num = stored.state.phase_num /\ stored'.state.phase_name = v
           /\ \/ Head(todo[p]) \in {Counted(v), Required(v), Spawned}
              \/ \E i, d : Head(todo[p]) \in {SlotName(i, d), SlotPath(i, d)}
              => /\ stored'.state.phase_num = stored.state.phase_num
                 /\ stored'.state.phase_name = stored.state.phase_name
  <1>1. stored.state \in StateFile
    BY StoredParts DEF HubInv
  <1>2. ASSUME NEW k, NEW w, Head(todo[p]) = Write("state", k, w)
        PROVE  stored'.state = [stored.state EXCEPT ![k] = w]
    BY <1>2, StateWritten
  <1>3. ASSUME NEW k, NEW w, Head(todo[p]) = Write("manifest", k, w)
        PROVE  stored'.state = stored.state
    BY <1>3, ManifestWritten
  <1>4. CASE Head(todo[p]) = Numbered(v)
    <2>1. stored'.state = [stored.state EXCEPT !["phase_num"] = v]
      BY <1>2, <1>4 DEF Numbered
    <2>2. /\ stored'.state.phase_num = v
          /\ stored'.state.phase_name = stored.state.phase_name
      BY <1>1, <2>1 DEF StateFile
    <2> QED BY <1>4, <2>2 DEF Numbered, Named, Counted, Required, Spawned, SlotPath, SlotName, Write
  <1>5. CASE Head(todo[p]) = Named(v)
    <2>1. stored'.state = [stored.state EXCEPT !["phase_name"] = v]
      BY <1>2, <1>5 DEF Named
    <2>2. /\ stored'.state.phase_num = stored.state.phase_num
          /\ stored'.state.phase_name = v
      BY <1>1, <2>1 DEF StateFile
    <2> QED BY <1>5, <2>2 DEF Numbered, Named, Counted, Required, Spawned, SlotPath, SlotName, Write
  <1>6. ASSUME Head(todo[p]) = Counted(v)
        PROVE  /\ stored'.state.phase_num = stored.state.phase_num
               /\ stored'.state.phase_name = stored.state.phase_name
    <2>1. stored'.state = [stored.state EXCEPT !["audit_counter"] = v]
      BY <1>2, <1>6 DEF Counted
    <2> QED BY <1>1, <2>1 DEF StateFile
  <1>7. ASSUME Head(todo[p]) = Required(v)
        PROVE  /\ stored'.state.phase_num = stored.state.phase_num
               /\ stored'.state.phase_name = stored.state.phase_name
    <2>1. stored'.state = [stored.state EXCEPT !["audit_required"] = v]
      BY <1>2, <1>7 DEF Required
    <2> QED BY <1>1, <2>1 DEF StateFile
  <1>8. ASSUME Head(todo[p]) = Spawned
        PROVE  /\ stored'.state.phase_num = stored.state.phase_num
               /\ stored'.state.phase_name = stored.state.phase_name
    <2>1. stored'.state = [stored.state EXCEPT !["last_spawn_time"] = 0]
      BY <1>2, <1>8 DEF Spawned
    <2> QED BY <1>1, <2>1 DEF StateFile
  <1>9. ASSUME NEW i, NEW d, Head(todo[p]) \in {SlotName(i, d), SlotPath(i, d)}
        PROVE  stored'.state = stored.state
    BY <1>3, <1>9 DEF SlotName, SlotPath
  <1> QED BY <1>4, <1>5, <1>6, <1>7, <1>8, <1>9

\* There is nobody else.
LEMMA OnePhaseStep ==
    ASSUME OneSupervisor, NEW p \in HubProcs, PhaseTypeOK', (~made => NoneYet)', Slack',
           (Passing(p) \/ Waiting(p))'
    PROVE  PhaseInv'
  <1>1. \A q \in HubProcs : q = p
    BY DEF OneSupervisor
  <1> QED BY <1>1 DEF PhaseInv

\* Between two commands.
LEMMA IdleWaits ==
    ASSUME HubInv, PhaseInv, NEW p \in HubProcs, Idle(p)
    PROVE  /\ HubTypeOK /\ PhaseTypeOK /\ Slack /\ gate[p] = "none" /\ Numbers(0)
           /\ Left(stored.state.phase_name)
           /\ gates \in Nat /\ hits \in Nat /\ stored.state.phase_num \in Nat
  <1>1. ~Passing(p)
    BY DEF Passing, Idle
  <1>2. HubTypeOK /\ PhaseTypeOK
    BY DEF HubInv, PhaseInv
  <1> QED BY <1>1, <1>2, StoredParts DEF PhaseInv, Waiting, PhaseTypeOK

\* A command that neither passes a gate nor names a phase nor makes the
\* directory.
LEMMA OtherCommand ==
    ASSUME OneSupervisor, HubInv, PhaseInv, NEW p \in HubProcs, Idle(p),
           UNCHANGED <<made, stored, gate, passed, hit, gates, hits>>,
           NEW w, todo'[p] = <<w>> \/ \E r : todo'[p] = <<w, r>>,
           \A v : w \notin {Numbered(v), Named(v), Required(v)}
    PROVE  PhaseInv'
  <1>1. /\ PhaseTypeOK /\ Slack /\ gate[p] = "none" /\ Numbers(0)
        /\ Left(stored.state.phase_name)
    BY IdleWaits
  <1>2. /\ ~Setup(p)'
        /\ \A n : todo'[p] # <<Numbered(n), Named("UNNAMED")>>
        /\ \A phase : todo'[p] # <<Named(phase)>>
    <2>1. CASE todo'[p] = <<w>>
      BY <2>1 DEF Setup
    <2>2. ASSUME NEW r, todo'[p] = <<w, r>>
          PROVE  /\ ~Setup(p)'
                 /\ \A n : todo'[p] # <<Numbered(n), Named("UNNAMED")>>
                 /\ \A phase : todo'[p] # <<Named(phase)>>
      BY <2>2 DEF Setup
    <2> QED BY <2>1, <2>2
  <1>3. Waiting(p)'
    BY <1>1, <1>2 DEF Waiting, Numbers, Left
  <1>4. PhaseTypeOK' /\ (~made => NoneYet)' /\ Slack'
    BY <1>1 DEF PhaseInv, PhaseTypeOK, NoneYet, Slack
  <1> QED BY <1>3, <1>4, OnePhaseStep

\* nbs-hub spawn, result, audit and doc register.
LEMMA OtherCommandsPhase ==
    ASSUME OneSupervisor, HubInv, PhaseInv, NEW p \in HubProcs,
           \/ CmdSpawn(p) \/ CmdResult(p) \/ CmdAudit(p)
           \/ \E d \in Docs, path \in DocPaths : CmdDocRegister(p, d, path)
    PROVE  PhaseInv'
  <1>1. DOMAIN todo = HubProcs
    BY DEF HubInv, HubTypeOK
  <1>2. CASE CmdSpawn(p)
    <2>1. /\ Idle(p) /\ UNCHANGED <<made, stored, gate, passed, hit, gates, hits>>
          /\ todo'[p] = <<Spawned>>
      BY <1>1, <1>2 DEF CmdSpawn, Queue, Spawned, history
    <2>2. \A v : Spawned \notin {Numbered(v), Named(v), Required(v)}
      BY DEF Spawned, Numbered, Named, Required, Write
    <2> QED BY <2>1, <2>2, OtherCommand
  <1>3. CASE CmdResult(p)
    <2> DEFINE c == stored.state.audit_counter + 1
    <2>1. /\ Idle(p) /\ UNCHANGED <<made, stored, gate, passed, hit, gates, hits>>
          /\ todo'[p] = <<Counted(c)>> \o
                        IF c >= AUDIT_THRESHOLD THEN <<Required(1)>> ELSE <<>>
      BY <1>1, <1>3 DEF CmdResult, Queue, Counted, Required, history
    <2>2. \A v : Counted(c) \notin {Numbered(v), Named(v), Required(v)}
      BY DEF Counted, Numbered, Named, Required, Write
    <2> HIDE DEF c
    <2>3. todo'[p] = <<Counted(c)>> \/ todo'[p] = <<Counted(c), Required(1)>>
      <3>1. CASE c >= AUDIT_THRESHOLD
        BY <2>1, <3>1, TwoWrites
      <3>2. CASE ~(c >= AUDIT_THRESHOLD)
        BY <2>1, <3>2, TwoWrites
      <3> QED BY <3>1, <3>2
    <2> QED BY <2>1, <2>2, <2>3, OtherCommand
  <1>4. CASE CmdAudit(p)
    <2>1. /\ Idle(p) /\ UNCHANGED <<made, stored, gate, passed, hit, gates, hits>>
          /\ todo'[p] = <<Counted(0), Required(0)>>
      BY <1>1, <1>4 DEF CmdAudit, Queue, Counted, Required, history
    <2>2. \A v : Counted(0) \notin {Numbered(v), Named(v), Required(v)}
      BY DEF Counted, Numbered, Named, Required, Write
    <2> QED BY <2>1, <2>2, OtherCommand
  <1>5. ASSUME NEW d \in Docs, NEW path \in DocPaths, CmdDocRegister(p, d, path)
        PROVE  PhaseInv'
    <2>1. PICK i \in SlotsFor(d) :
             Queue(p, <<Write("manifest", <<i, "name">>, d),
                        Write("manifest", <<i, "path">>, path)>>)
      BY <1>5 DEF CmdDocRegister
    <2>2. /\ Idle(p) /\ UNCHANGED <<made, stored, gate, passed, hit, gates, hits>>
      BY <1>5 DEF CmdDocRegister, history
    <2>3. todo'[p] = <<SlotName(i, d), SlotPath(i, path)>>
      BY <1>1, <2>1 DEF Queue, SlotName, SlotPath
    <2>4. \A v : SlotName(i, d) \notin {Numbered(v), Named(v), Required(v)}
      BY DEF SlotName, Numbered, Named, Required, Write
    <2> QED BY <2>2, <2>3, <2>4, OtherCommand
  <1> QED BY <1>2, <1>3, <1>4, <1>5

\* nbs-hub init: no gate was passed.
LEMMA CmdInitPhase ==
    ASSUME OneSupervisor, HubInv, PhaseInv, NEW p \in HubProcs, CmdInit(p)
    PROVE  PhaseInv'
  <1>1. /\ PhaseTypeOK /\ Slack /\ gate[p] = "none" /\ Numbers(0)
        /\ Left(stored.state.phase_name) /\ NoneYet
    BY IdleWaits DEF CmdInit, PhaseInv
  <1>2. /\ todo'[p] = <<Numbered(0), Named("PLANNING"), Counted(0), Required(0), Spawned>>
        /\ UNCHANGED <<stored, gate, passed, hit, gates, hits>>
    BY DEF HubInv, HubTypeOK, CmdInit, Queue, Numbered, Named, Counted, Required, Spawned,
           history
  <1>3. NoneYet' /\ Numbers(0)' /\ Left(stored.state.phase_name)' /\ gate'[p] = "none"
    BY <1>1, <1>2 DEF NoneYet, Numbers, Left
  <1>4. /\ \A n : todo'[p] # <<Numbered(n), Named("UNNAMED")>>
        /\ \A phase : todo'[p] # <<Named(phase)>>
    BY <1>2
  <1>5. Waiting(p)'
    BY <1>3, <1>4 DEF Waiting
  <1>6. PhaseTypeOK' /\ (~made => NoneYet)' /\ Slack'
    BY <1>1, <1>2, <1>3 DEF PhaseTypeOK, Slack
  <1> QED BY <1>5, <1>6, OnePhaseStep

\* nbs-hub gate: the phase had a passage to come.
LEMMA CmdGatePhase ==
    ASSUME OneSupervisor, HubInv, PhaseInv, NEW p \in HubProcs, NEW phase \in Phases,
           CmdGate(p, phase)
    PROVE  PhaseInv'
  <1>1. /\ PhaseTypeOK /\ Slack /\ Numbers(0) /\ Left(stored.state.phase_name)
        /\ gates \in Nat /\ hits \in Nat /\ stored.state.phase_num \in Nat
    BY IdleWaits DEF CmdGate
  <1>2. /\ todo'[p] = <<Numbered(stored.state.phase_num + 1), Named("UNNAMED")>>
        /\ made' = made /\ made /\ phase = stored.state.phase_name
        /\ gate' = [gate EXCEPT ![p] = phase] /\ gates' = gates + 1
        /\ passed' = [passed EXCEPT ![phase] = @ + 1]
        /\ UNCHANGED <<stored, hit, hits>>
    BY DEF HubInv, HubTypeOK, CmdGate, Queue, Numbered, Named
  <1>3. gate'[p] = phase
    BY <1>1, <1>2 DEF PhaseTypeOK
  <1>4. Numbers(1)'
    BY <1>1, <1>2 DEF Numbers
  <1>5. Passing(p)'
    BY <1>2, <1>3, <1>4 DEF Passing
  <1>6. PhaseTypeOK'
    BY <1>1, <1>2 DEF PhaseTypeOK
  <1>7. Slack'
    <2> SUFFICES ASSUME NEW x \in Phases \ {"UNNAMED"}
                 PROVE  passed'[x] <= 1 + hit'[x]
      BY DEF Slack
    <2>1. passed[x] \in Nat /\ hit[x] \in Nat /\ passed[x] <= 1 + hit[x]
      BY <1>1 DEF PhaseTypeOK, Slack
    <2>2. x # phase => passed'[x] = passed[x]
      BY <1>1, <1>2 DEF PhaseTypeOK
    <2>3. x = phase => passed[x] <= hit[x] /\ passed'[x] = passed[x] + 1
      BY <1>1, <1>2 DEF PhaseTypeOK, Left
    <2> QED BY <1>2, <2>1, <2>2, <2>3
  <1> QED BY <1>2, <1>5, <1>6, <1>7, OnePhaseStep

\* nbs-hub phase-name: the phase that is named has passed no gate.
LEMMA CmdPhaseNamePhase ==
    ASSUME OneSupervisor, HubInv, PhaseInv, NEW p \in HubProcs, NEW phase \in Phases,
           CmdPhaseName(p, phase)
    PROVE  PhaseInv'
  <1>1. /\ PhaseTypeOK /\ Slack /\ gate[p] = "none" /\ Numbers(0)
        /\ Left(stored.state.phase_name)
    BY IdleWaits DEF CmdPhaseName
  <1>2. /\ todo'[p] = <<Named(phase)>>
        /\ made' = made /\ made
        /\ passed' = [passed EXCEPT ![phase] = 0] /\ hit' = [hit EXCEPT ![phase] = 0]
        /\ UNCHANGED <<stored, gate, gates, hits>>
    BY DEF HubInv, HubTypeOK, CmdPhaseName, Queue, Named
  <1>3. /\ \A x \in Phases : passed'[x] = (IF x = phase THEN 0 ELSE passed[x])
        /\ \A x \in Phases : hit'[x] = (IF x = phase THEN 0 ELSE hit[x])
        /\ \A x \in Phases : passed[x] \in Nat /\ hit[x] \in Nat
    BY <1>1, <1>2 DEF PhaseTypeOK
  <1>4. PhaseTypeOK'
    BY <1>1, <1>2 DEF PhaseTypeOK
  <1>5. Slack'
    BY <1>1, <1>3 DEF Slack
  <1>6. Left(stored.state.phase_name)'
    BY <1>1, <1>2, <1>3 DEF Left
  <1>7. /\ ~Setup(p)' /\ \A n : todo'[p] # <<Numbered(n), Named("UNNAMED")>>
        /\ \A x \in Phases : todo'[p] = <<Named(x)>> => x = phase
    BY <1>2, KeysDiffer DEF Setup
  <1>8. Waiting(p)'
    BY <1>1, <1>2, <1>3, <1>6, <1>7 DEF Waiting, Numbers
  <1> QED BY <1>2, <1>4, <1>5, <1>8, OnePhaseStep

\* A gate that was hit may be passed once more, and the number may be one
\* behind for it.
LEMMA GateHit ==
    ASSUME PhaseTypeOK, Slack, NEW p \in HubProcs, Passing(p), HitGate(p), HubTypeOK,
           UNCHANGED <<stored, passed, gates>>
    PROVE  /\ hit' \in [Phases -> Nat] /\ hits' \in Nat /\ Slack'
           /\ Numbers(0)' /\ Left(stored.state.phase_name)'
  <1>1. /\ gate[p] \in Phases /\ gate[p] # "none" /\ stored.state.phase_name = gate[p]
        /\ Numbers(0) \/ Numbers(1)
    BY HubAssumption DEF Passing
  <1>2. hits' = hits + 1 /\ hit' = [hit EXCEPT ![gate[p]] = @ + 1]
    BY <1>1 DEF HitGate
  <1>3. /\ hit' \in [Phases -> Nat] /\ hits' \in Nat
        /\ hits \in Nat /\ gates \in Nat /\ stored.state.phase_num \in Nat
    BY <1>1, <1>2, StoredParts DEF PhaseTypeOK
  <1>4. Numbers(0)'
    BY <1>1, <1>2, <1>3 DEF Numbers
  <1>5. ASSUME NEW x \in Phases \ {"UNNAMED"}
        PROVE  /\ passed'[x] <= 1 + hit'[x]
               /\ x = gate[p] => passed'[x] <= hit'[x]
    <2>1. passed'[x] \in Nat /\ hit[x] \in Nat /\ passed'[x] <= 1 + hit[x]
      BY DEF PhaseTypeOK, Slack
    <2>2. hit'[x] = IF x = gate[p] THEN hit[x] + 1 ELSE hit[x]
      BY <1>1, <1>2 DEF PhaseTypeOK
    <2> QED BY <2>1, <2>2
  <1>6. Slack'
    BY <1>5 DEF Slack
  <1>7. Left(stored.state.phase_name)'
    BY <1>1, <1>5 DEF Left
  <1> QED BY <1>3, <1>4, <1>6, <1>7

\* A command is killed.
LEMMA HubCrashPhase ==
    ASSUME OneSupervisor, HubInv, PhaseInv, NEW p \in HubProcs, HubCrash(p)
    PROVE  PhaseInv'
  <1>1. /\ HubTypeOK /\ PhaseTypeOK /\ Slack /\ (Passing(p) \/ Waiting(p))
    BY DEF HubInv, PhaseInv
  <1>2. /\ todo'[p] = <<>> /\ gate' = [gate EXCEPT ![p] = "none"] /\ gate'[p] = "none"
        /\ HitGate(p) /\ UNCHANGED <<made, stored, passed, gates>>
    BY <1>1 DEF HubTypeOK, PhaseTypeOK, HubCrash, Queue
  <1>3. /\ hit' \in [Phases -> Nat] /\ hits' \in Nat /\ Slack'
        /\ Numbers(0)' /\ Left(stored.state.phase_name)'
    <2>1. CASE Passing(p)
      BY <1>1, <1>2, <2>1, GateHit
    <2>2. CASE Waiting(p)
      <3>1. hit' = hit /\ hits' = hits
        BY <1>2, <2>2 DEF Waiting, HitGate
      <3> QED BY <1>1, <1>2, <2>2, <3>1 DEF Waiting, PhaseTypeOK, Slack, Numbers, Left
    <2> QED BY <1>1, <2>1, <2>2
  <1>4. PhaseTypeOK'
    BY <1>1, <1>2, <1>3 DEF PhaseTypeOK
  <1>5. ~Setup(p)'
    BY <1>2 DEF Setup
  <1>6. Waiting(p)'
    BY <1>2, <1>3, <1>5 DEF Waiting
  <1>7. (~made => NoneYet)'
    BY <1>2 DEF PhaseInv, NoneYet
  <1> QED BY <1>3, <1>4, <1>6, <1>7, OnePhaseStep

\* What is left when there is at most one write and it names no phase.
LEMMA ShortRest ==
    ASSUME NEW p, NEW w, todo'[p] = <<>> \/ todo'[p] = <<w>>, \A v : w # Named(v)
    PROVE  /\ \A n : todo'[p] # <<Numbered(n), Named("UNNAMED")>>
           /\ \A phase : todo'[p] # <<Named(phase)>>
           /\ ~Setup(p)'
  <1>1. CASE todo'[p] = <<>>
    BY <1>1 DEF Setup
  <1>2. CASE todo'[p] = <<w>>
    BY <1>2 DEF Setup
  <1> QED BY <1>1, <1>2

\* What is left when the first of several writes is not of the phase's number.
LEMMA LongRest ==
    ASSUME NEW p, NEW a, NEW b, NEW c, NEW d,
           \/ todo'[p] = <<a, b, c, d>> \/ todo'[p] = <<a, b, c>> \/ todo'[p] = <<a, b>>,
           \A n : a # Numbered(n)
    PROVE  /\ \A n : todo'[p] # <<Numbered(n), Named("UNNAMED")>>
           /\ \A phase : todo'[p] # <<Named(phase)>>
  <1>1. CASE todo'[p] = <<a, b, c, d>>
    BY <1>1
  <1>2. CASE todo'[p] = <<a, b, c>>
    BY <1>2
  <1>3. CASE todo'[p] = <<a, b>>
    BY <1>3
  <1> QED BY <1>1, <1>2, <1>3

\* The next write of a command that passes no gate, and what is left after it.
LEMMA WaitingWrites ==
    ASSUME HubInv, NEW p \in HubProcs, PhaseTypeOK, Waiting(p), todo[p] # <<>>,
           todo'[p] = Tail(todo[p])
    PROVE  /\ \A n : todo'[p] # <<Numbered(n), Named("UNNAMED")>>
           /\ \A phase : todo'[p] # <<Named(phase)>>
           /\ Setup(p)' => NoneYet
           /\ \/ Head(todo[p]) = Numbered(0) /\ NoneYet
              \/ \E phase \in Phases : Head(todo[p]) = Named(phase) /\ passed[phase] = 0
              \/ \E v : Head(todo[p]) \in {Counted(v), Required(v), Spawned}
              \/ \E i, d : Head(todo[p]) \in {SlotName(i, d), SlotPath(i, d)}
  <1>1. Place(p)
    BY DEF HubInv
  <1>2. ASSUME NEW w, todo'[p] = <<>> \/ todo'[p] = <<w>>, \A v : w # Named(v)
        PROVE  /\ \A n : todo'[p] # <<Numbered(n), Named("UNNAMED")>>
               /\ \A phase : todo'[p] # <<Named(phase)>>
               /\ ~Setup(p)'
    BY <1>2, ShortRest
  <1>3. \A v, i, d : Required(v) # Named(d) /\ Spawned # Named(d) /\ SlotPath(i, v) # Named(d)
    BY KeysDiffer
  <1>4. CASE Quiet(p)
    <2>1. Head(todo[p]) = Spawned /\ todo'[p] = <<>>
      <3>1. todo[p] = <<Spawned>>
        BY <1>4 DEF Quiet
      <3> QED BY <3>1, Tails
    <2> QED BY <1>2, <1>3, <2>1
  <1>5. CASE Setup(p)
    <2>1. NoneYet /\ passed["PLANNING"] = 0 /\ "PLANNING" \in Phases
      BY <1>5, HubAssumption DEF Waiting, NoneYet
    <2>2. CASE todo[p] = <<Required(0), Spawned>>
      <3>1. Head(todo[p]) = Required(0) /\ todo'[p] = <<Spawned>>
        BY <2>2
      <3> QED BY <1>2, <1>3, <3>1
    <2>3. CASE todo[p] = <<Counted(0), Required(0), Spawned>>
      <3>1. Head(todo[p]) = Counted(0) /\ todo'[p] = <<Required(0), Spawned>>
        BY <2>3
      <3>2. /\ \A n : todo'[p] # <<Numbered(n), Named("UNNAMED")>>
            /\ \A phase : todo'[p] # <<Named(phase)>>
        BY <3>1, KeysDiffer, LongRest
      <3> QED BY <2>1, <3>1, <3>2
    <2>4. CASE todo[p] = <<Named("PLANNING"), Counted(0), Required(0), Spawned>>
      <3>1. Head(todo[p]) = Named("PLANNING") /\ todo'[p] = <<Counted(0), Required(0), Spawned>>
        BY <2>4
      <3>2. /\ \A n : todo'[p] # <<Numbered(n), Named("UNNAMED")>>
            /\ \A phase : todo'[p] # <<Named(phase)>>
        BY <3>1, KeysDiffer, LongRest
      <3> QED BY <2>1, <3>1, <3>2
    <2>5. CASE todo[p] = <<Numbered(0), Named("PLANNING"), Counted(0), Required(0), Spawned>>
      <3>1. /\ Head(todo[p]) = Numbered(0)
            /\ todo'[p] = <<Named("PLANNING"), Counted(0), Required(0), Spawned>>
        BY <2>5
      <3>2. /\ \A n : todo'[p] # <<Numbered(n), Named("UNNAMED")>>
            /\ \A phase : todo'[p] # <<Named(phase)>>
        <4>1. \A n : Named("PLANNING") # Numbered(n)
          BY KeysDiffer
        <4> QED BY <3>1, <4>1, LongRest
      <3> QED BY <2>1, <3>1, <3>2
    <2> QED BY <1>5, <2>2, <2>3, <2>4, <2>5 DEF Setup
  <1>6. CASE Result(p)
    <2> DEFINE c == stored.state.audit_counter + 1
    <2>1. Head(todo[p]) = Counted(c) /\ (todo'[p] = <<>> \/ todo'[p] = <<Required(1)>>)
      <3>1. todo[p] = <<Counted(c)>> \/ todo[p] = <<Counted(c), Required(1)>>
        BY <1>6 DEF Result
      <3> HIDE DEF c
      <3>2. CASE todo[p] = <<Counted(c)>>
        BY <3>2
      <3>3. CASE todo[p] = <<Counted(c), Required(1)>>
        BY <3>3
      <3> QED BY <3>1, <3>2, <3>3
    <2> QED BY <1>2, <1>3, <2>1
  <1>7. CASE Closing(p) \/ Audit(p)
    <2>1. /\ \E v : Head(todo[p]) \in {Counted(v), Required(v), Spawned}
          /\ todo'[p] = <<>> \/ todo'[p] = <<Required(0)>>
      <3>1. CASE todo[p] = <<Required(1)>>
        BY <3>1
      <3>2. CASE todo[p] = <<Required(0)>>
        BY <3>2
      <3>3. CASE todo[p] = <<Counted(0), Required(0)>>
        BY <3>3
      <3> QED BY <1>7, <3>1, <3>2, <3>3 DEF Closing, Audit
    <2> QED BY <1>2, <1>3, <2>1
  <1>8. CASE Gate(p) \/ Naming(p)
    <2>1. PICK phase \in Phases : todo[p] = <<Named(phase)>>
      BY <1>8, HubAssumption DEF Gate, Naming, Waiting
    <2>2. /\ Head(todo[p]) = Named(phase) /\ passed[phase] = 0 /\ todo'[p] = <<>>
      BY <2>1 DEF Waiting
    <2> QED BY <1>2, <1>3, <2>2
  <1>9. CASE Document(p)
    <2>1. PICK d \in Docs, path \in DocPaths, i \in Slots :
             Registering(p, d, path, i) \/ Filling(p, d, path, i)
      BY <1>9 DEF Document
    <2>2. CASE Registering(p, d, path, i)
      <3>1. Head(todo[p]) = SlotName(i, d) /\ todo'[p] = <<SlotPath(i, path)>>
        BY <2>2, Tails DEF Registering
      <3>2. /\ \A n : todo'[p] # <<Numbered(n), Named("UNNAMED")>>
            /\ \A phase : todo'[p] # <<Named(phase)>>
            /\ ~Setup(p)'
        <4>1. \A v : SlotPath(i, path) # Named(v)
          BY KeysDiffer
        <4> QED BY <1>2, <3>1, <4>1
      <3> QED BY <3>1, <3>2
    <2>3. CASE Filling(p, d, path, i)
      <3>1. Head(todo[p]) = SlotPath(i, path) /\ todo'[p] = <<>>
        BY <2>3 DEF Filling
      <3> QED BY <1>2, <1>3, <3>1
    <2> QED BY <2>1, <2>2, <2>3
  <1> QED BY <1>1, <1>4, <1>5, <1>6, <1>7, <1>8, <1>9 DEF Place

\* A write ends: the command that passes a gate is over with its second.
LEMMA GateEnds ==
    ASSUME HubInv, PhaseTypeOK, NEW p \in HubProcs, copy[p] # NoCopy, WriteDone(p)
    PROVE  /\ UNCHANGED <<made, passed, gates>> /\ todo'[p] = Tail(todo[p])
           /\ gate' \in [HubProcs -> Phases \cup {"none"}]
           /\ gate'[p] = IF Len(todo[p]) = 1 THEN "none" ELSE gate[p]
  <1>1. todo'[p] = Tail(todo[p])
    BY WriteEnds
  <1> QED BY <1>1 DEF WriteDone, PhaseTypeOK

\* A write fails.
LEMMA StateWriteFailPhase ==
    ASSUME OneSupervisor, HubInv, PhaseInv, NEW p \in HubProcs, StateWriteFail(p)
    PROVE  PhaseInv'
  <1>1. /\ HubTypeOK /\ PhaseTypeOK /\ Slack /\ (Passing(p) \/ Waiting(p))
        /\ (~made => NoneYet) /\ copy[p] # NoCopy /\ WriteDone(p) /\ HitGate(p)
        /\ stored' = stored
    BY DEF HubInv, PhaseInv, StateWriteFail
  <1>2. /\ UNCHANGED <<made, passed, gates>> /\ todo'[p] = Tail(todo[p]) /\ todo[p] # <<>>
        /\ gate' \in [HubProcs -> Phases \cup {"none"}]
        /\ gate'[p] = IF Len(todo[p]) = 1 THEN "none" ELSE gate[p]
    BY <1>1, GateEnds, WriteEnds
  <1>3. (~made => NoneYet)'
    BY <1>1, <1>2 DEF NoneYet
  <1>4. CASE Passing(p)
    <2>1. /\ hit' \in [Phases -> Nat] /\ hits' \in Nat /\ Slack'
          /\ Numbers(0)' /\ Left(stored.state.phase_name)'
      BY <1>1, <1>2, <1>4, GateHit
    <2>2. PhaseTypeOK'
      BY <1>1, <1>2, <2>1 DEF PhaseTypeOK
    <2>3. CASE todo[p] = <<Named("UNNAMED")>>
      <3>1. todo'[p] = <<>> /\ gate'[p] = "none"
        BY <1>2, <2>3
      <3>2. ~Setup(p)'
        BY <3>1 DEF Setup
      <3>3. Waiting(p)'
        BY <2>1, <3>1, <3>2 DEF Waiting
      <3> QED BY <1>3, <2>1, <2>2, <3>3, OnePhaseStep
    <2>4. CASE \E n : todo[p] = <<Numbered(n), Named("UNNAMED")>>
      <3>1. todo'[p] = <<Named("UNNAMED")>> /\ gate'[p] = gate[p]
        BY <1>2, <2>4
      <3>2. Passing(p)'
        BY <1>1, <1>4, <2>1, <3>1 DEF Passing
      <3> QED BY <1>3, <2>1, <2>2, <3>2, OnePhaseStep
    <2> QED BY <1>4, <2>3, <2>4 DEF Passing
  <1>5. CASE Waiting(p)
    <2>1. hit' = hit /\ hits' = hits /\ gate'[p] = "none"
      BY <1>1, <1>2, <1>5 DEF Waiting, HitGate
    <2>2. PhaseTypeOK' /\ Slack' /\ Numbers(0)' /\ Left(stored.state.phase_name)'
      BY <1>1, <1>2, <1>5, <2>1 DEF Waiting, PhaseTypeOK, Slack, Numbers, Left
    <2>3. /\ \A n : todo'[p] # <<Numbered(n), Named("UNNAMED")>>
          /\ \A phase : todo'[p] # <<Named(phase)>>
          /\ Setup(p)' => NoneYet
      BY <1>1, <1>2, <1>5, WaitingWrites
    <2>4. Waiting(p)'
      BY <1>2, <2>1, <2>2, <2>3 DEF Waiting, NoneYet
    <2> QED BY <1>3, <2>2, <2>4, OnePhaseStep
  <1> QED BY <1>1, <1>4, <1>5

\* A write succeeds.
LEMMA StateWriteRenamePhase ==
    ASSUME OneSupervisor, HubInv, PhaseInv, NEW p \in HubProcs, StateWriteRename(p)
    PROVE  PhaseInv'
  <1>1. /\ HubTypeOK /\ PhaseTypeOK /\ Slack /\ (Passing(p) \/ Waiting(p))
        /\ (~made => NoneYet) /\ copy[p] # NoCopy /\ WriteDone(p)
        /\ hit' = hit /\ hits' = hits
    BY DEF HubInv, PhaseInv, StateWriteRename
  <1>2. /\ UNCHANGED <<made, passed, gates>> /\ todo'[p] = Tail(todo[p]) /\ todo[p] # <<>>
        /\ gate' \in [HubProcs -> Phases \cup {"none"}]
        /\ gate'[p] = IF Len(todo[p]) = 1 THEN "none" ELSE gate[p]
    BY <1>1, GateEnds, WriteEnds
  <1>3. (~made => NoneYet)' /\ PhaseTypeOK' /\ Slack'
    BY <1>1, <1>2 DEF NoneYet, PhaseTypeOK, Slack
  <1>4. gates \in Nat /\ hits \in Nat /\ stored.state.phase_num \in Nat
    BY <1>1, StoredParts DEF PhaseTypeOK
  <1>5. CASE Passing(p)
    <2>1. CASE todo[p] = <<Named("UNNAMED")>> /\ Numbers(0)
      <3>1. Head(todo[p]) = Named("UNNAMED") /\ todo'[p] = <<>> /\ gate'[p] = "none"
        BY <1>2, <2>1
      <3>2. stored'.state.phase_num = stored.state.phase_num /\ stored'.state.phase_name = "UNNAMED"
        BY <3>1, PhaseWritten
      <3>3. Numbers(0)' /\ Left(stored.state.phase_name)' /\ ~Setup(p)'
        BY <1>1, <1>2, <2>1, <3>1, <3>2 DEF Numbers, Left, Setup
      <3>4. Waiting(p)'
        BY <3>1, <3>3 DEF Waiting
      <3> QED BY <1>3, <3>4, OnePhaseStep
    <2>2. CASE /\ todo[p] = <<Numbered(stored.state.phase_num + 1), Named("UNNAMED")>>
               /\ Numbers(1)
      <3> DEFINE n == stored.state.phase_num + 1
      <3>1. /\ Head(todo[p]) = Numbered(n) /\ todo'[p] = <<Named("UNNAMED")>>
            /\ gate'[p] = gate[p]
        BY <1>2, <2>2
      <3>2. stored'.state.phase_num = n /\ stored'.state.phase_name = stored.state.phase_name
        BY <3>1, PhaseWritten
      <3>3. Numbers(0)'
        BY <1>1, <1>2, <1>4, <2>2, <3>2 DEF Numbers
      <3>4. Passing(p)'
        BY <1>5, <3>1, <3>2, <3>3 DEF Passing
      <3> QED BY <1>3, <3>4, OnePhaseStep
    <2> QED BY <1>5, <2>1, <2>2 DEF Passing
  <1>6. CASE Waiting(p)
    <2>1. /\ \A n : todo'[p] # <<Numbered(n), Named("UNNAMED")>>
          /\ \A phase : todo'[p] # <<Named(phase)>>
          /\ Setup(p)' => NoneYet
          /\ \/ Head(todo[p]) = Numbered(0) /\ NoneYet
             \/ \E phase \in Phases : Head(todo[p]) = Named(phase) /\ passed[phase] = 0
             \/ \E v : Head(todo[p]) \in {Counted(v), Required(v), Spawned}
             \/ \E i, d : Head(todo[p]) \in {SlotName(i, d), SlotPath(i, d)}
      BY <1>1, <1>2, <1>6, WaitingWrites
    <2>2. Numbers(0) /\ Left(stored.state.phase_name) /\ gate'[p] = "none"
      BY <1>2, <1>6 DEF Waiting
    <2>3. Numbers(0)' /\ Left(stored.state.phase_name)'
      <3>1. CASE Head(todo[p]) = Numbered(0) /\ NoneYet
        <4>1. stored'.state.phase_num = 0 /\ stored'.state.phase_name = stored.state.phase_name
          BY <3>1, PhaseWritten
        <4> QED BY <1>1, <1>2, <1>4, <2>2, <3>1, <4>1 DEF Numbers, Left, NoneYet
      <3>2. ASSUME NEW phase \in Phases, Head(todo[p]) = Named(phase), passed[phase] = 0
            PROVE  Numbers(0)' /\ Left(stored.state.phase_name)'
        <4>1. stored'.state.phase_num = stored.state.phase_num /\ stored'.state.phase_name = phase
          BY <3>2, PhaseWritten
        <4>2. hit[phase] \in Nat
          BY <1>1 DEF PhaseTypeOK
        <4> QED BY <1>1, <1>2, <2>2, <3>2, <4>1, <4>2 DEF Numbers, Left
      <3>3. ASSUME /\ stored'.state.phase_num = stored.state.phase_num
                   /\ stored'.state.phase_name = stored.state.phase_name
            PROVE  Numbers(0)' /\ Left(stored.state.phase_name)'
        BY <1>1, <1>2, <2>2, <3>3 DEF Numbers, Left
      <3> QED BY <2>1, <3>1, <3>2, <3>3, PhaseWritten
    <2>4. Waiting(p)'
      BY <1>2, <2>1, <2>2, <2>3 DEF Waiting, NoneYet
    <2> QED BY <1>3, <2>4, OnePhaseStep
  <1> QED BY <1>1, <1>5, <1>6

\* Every step keeps it.
LEMMA PhaseStep ==
    ASSUME OneSupervisor, HubInv, PhaseInv, [HubNext]_hubvars
    PROVE  PhaseInv'
  <1>1. ASSUME UNCHANGED <<made, stored, todo, doc, gate, unaudited, passed, hit, gates, hits>>
        PROVE  PhaseInv'
    <2>1. PhaseTypeOK' /\ (~made => NoneYet)' /\ Slack'
      BY <1>1 DEF PhaseInv, PhaseTypeOK, NoneYet, Slack
    <2>2. ASSUME NEW p \in HubProcs PROVE (Passing(p) \/ Waiting(p))'
      <3>1. Numbers(0)' = Numbers(0) /\ Numbers(1)' = Numbers(1)
        BY <1>1 DEF Numbers
      <3>2. Setup(p)' = Setup(p) /\ NoneYet' = NoneYet
        BY <1>1 DEF Setup, NoneYet
      <3>3. Left(stored.state.phase_name)' = Left(stored.state.phase_name)
        BY <1>1 DEF Left
      <3>4. Passing(p) => Passing(p)'
        BY <1>1, <3>1 DEF Passing
      <3>5. Waiting(p) => Waiting(p)'
        BY <1>1, <3>1, <3>2, <3>3 DEF Waiting
      <3> QED BY <3>4, <3>5 DEF PhaseInv
    <2> QED BY <2>1, <2>2 DEF PhaseInv
  <1>2. CASE UNCHANGED hubvars
    BY <1>1, <1>2 DEF hubvars
  <1>3. ASSUME NEW p \in HubProcs, StateWriteRead(p) PROVE PhaseInv'
    BY <1>1, <1>3 DEF StateWriteRead, history
  <1>4. CASE HubNext
    <2>1. PICK p \in HubProcs :
             \/ CmdInit(p) \/ CmdSpawn(p) \/ CmdResult(p) \/ CmdAudit(p)
             \/ \E phase \in Phases : CmdGate(p, phase) \/ CmdPhaseName(p, phase)
             \/ \E d \in Docs, path \in DocPaths : CmdDocRegister(p, d, path)
             \/ StateWriteRead(p) \/ StateWriteRename(p) \/ StateWriteFail(p)
             \/ HubCrash(p)
      BY <1>4 DEF HubNext
    <2> QED BY <2>1, <1>3, CmdInitPhase, OtherCommandsPhase, CmdGatePhase, CmdPhaseNamePhase,
               StateWriteRenamePhase, StateWriteFailPhase, HubCrashPhase
  <1> QED BY <1>2, <1>4

\* The phase gate of one supervisor, whatever commands are killed and whatever
\* writes fail: the gate of a phase is passed once after it was named, and once
\* more for every fault that hit the writes of that gate; the number of the
\* phase is that of the gates passed, less at most the faults that hit a gate.
THEOREM PhaseGateCorrect == OneSupervisor => (HubSpec => []PhasePassedOnce)
  <1>1. ASSUME HubInit PROVE PhaseInv
    <2>1. stored = [state |-> State0, manifest |-> Manifest0] /\ State0.phase_num = 0
          /\ State0.phase_name = "none"
      BY <1>1 DEF HubInit, State0
    <2>2. PhaseTypeOK /\ NoneYet /\ hits = 0
      BY <1>1 DEF HubInit, PhaseTypeOK, NoneYet
    <2>3. Slack
      BY <2>2 DEF PhaseTypeOK, NoneYet, Slack
    <2>4. Numbers(0)
      BY <2>1, <2>2 DEF Numbers, NoneYet
    <2>5. Left(stored.state.phase_name)
      BY <2>1, HubAssumption DEF Left
    <2>6. ASSUME NEW p \in HubProcs PROVE Waiting(p)
      <3>1. todo[p] = <<>> /\ gate[p] = "none"
        BY <1>1 DEF HubInit
      <3> QED BY <2>2, <2>4, <2>5, <3>1 DEF Waiting
    <2> QED BY <2>2, <2>3, <2>6 DEF PhaseInv
  <1>2. ASSUME OneSupervisor, HubInv, PhaseInv PROVE PhasePassedOnce
    <2>1. PICK p \in HubProcs : TRUE
      BY <1>2 DEF OneSupervisor
    <2>2. \A phase \in Phases \ {"UNNAMED"} : passed[phase] <= 1 + hit[phase]
      BY <1>2 DEF PhaseInv, Slack
    <2>3. gates \in Nat /\ hits \in Nat /\ stored.state.phase_num \in Nat
      BY <1>2, StoredParts DEF PhaseInv, PhaseTypeOK, HubInv
    <2>4. stored.state.phase_num <= gates
      <3>1. Numbers(0) \/ Numbers(1)
        BY <1>2 DEF PhaseInv, Passing, Waiting
      <3> QED BY <2>3, <3>1 DEF Numbers
    <2>5. ASSUME \A q \in HubProcs : Idle(q)
          PROVE  /\ \A phase \in Phases \ {"UNNAMED"} :
                       stored.state.phase_name = phase => passed[phase] <= hit[phase]
                 /\ gates <= stored.state.phase_num + hits
      <3>1. Numbers(0) /\ Left(stored.state.phase_name)
        BY <1>2, <2>5, IdleWaits
      <3> QED BY <2>3, <3>1 DEF Numbers, Left
    <2> QED BY <2>2, <2>4, <2>5 DEF PhasePassedOnce
  <1> SUFFICES ASSUME OneSupervisor PROVE HubSpec => []PhasePassedOnce
    OBVIOUS
  <1>3. HubInv /\ PhaseInv /\ [HubNext]_hubvars => PhaseInv'
    BY PhaseStep
  <1>4. HubInv /\ PhaseInv => PhasePassedOnce
    BY <1>2
  <1>5. HubSpec => []HubInv
    BY HubInvariant
  <1> QED BY <1>1, <1>3, <1>4, <1>5, PTL DEF HubSpec
=============================================================================
