------------------------- MODULE ProviderRuntimeProofs -------------------------
(***************************************************************************)
(* Proofs about ProviderRuntime, for every bound on late workers, and      *)
(* whatever is called, however it takes SIGTERM and whatever it leaves     *)
(* behind.                                                                 *)
(*                                                                         *)
(* OkEndedAlone and TimedOutGroupGone speak of what the caller was given.  *)
(* They rest on what the three threads leave behind at each stage of the   *)
(* call before that (CallInv): who waits for the leader and when (LifeInv),  *)
(* that nobody is told to stop without one of the flags that the report    *)
(* and the caller look at (ToldInv), and that each of the ways to time out    *)
(* has seen the group gone, or killed it, by the time it goes on (GoneInv).   *)
(***************************************************************************)
EXTENDS ProviderRuntime, TLAPS

\* How the leader ended, and that it did, agree.
EndInv(r) ==
    /\ r.ended = "no" <=> r.leader \in {"none", "running"}
    /\ r.code = "none" <=> r.ended = "no"
    /\ r.ended = "signalled" => r.signalled

\* The leader is started first and has been waited for at the end; a call is
\* reported when its worker is done, and the caller is given nothing but that
\* report or "hung".
LifeInv(r) ==
    /\ r.stage = "spawn" => r.leader = "none" /\ r.watchdog = "off" /\ ~r.forced
    /\ r.stage \in {"comm", "grace", "drain"} => r.leader # "none"
    /\ r.stage = "final" => r.leader = "reaped"
    /\ r.stage = "done" =>
           \/ r.leader = "reaped" /\ r.report # "none"
           \/ r.report = "none" /\ r.result = "none" /\ caller = "idle"
    /\ r.stage # "done" => r.report = "none"
    /\ r.result # "none" => caller = "idle"
    /\ r.result \in {"ok", "error", "timed_out"} => r.report = r.result

\* The watchdog has begun to stop the group.
AtIt(r) == r.watchdog \in {"force", "grace"}

\* Who tells the group to stop sets a flag first, or is the caller, who then no
\* longer waits.
ToldInv(r) ==
    /\ r.stage \in {"spawn", "comm"} => ~r.timedOut
    /\ r.stage \in {"grace", "drain"} => r.timedOut
    /\ AtIt(r) => r.forced
    /\ r.signalled /\ caller = "wait" => r.timedOut \/ r.forced
    /\ (r.report = "ok" /\ caller = "wait") \/ r.result = "ok" =>
           r.ended = "alone" /\ r.code = "zero"

\* Who timed the call out has not gone on before the group was gone.
GoneInv(r) ==
    /\ r.stage = "drain" => Gone(r)
    /\ r.stage = "final" /\ r.timedOut => Gone(r)
    /\ r.stage = "done" /\ r.timedOut => Gone(r) \/ AtIt(r)
    /\ r.forced => Gone(r) \/ AtIt(r)
    /\ r.report = "timed_out" => r.timedOut

Parts(r) == EndInv(r) /\ LifeInv(r) /\ ToldInv(r) /\ GoneInv(r)

CallInv == TypeOK /\ Parts(call)

----------------------------------------------------------------------------
(* Processes and signals. *)

\* What signals and waiting leave alone.
Same(r, t) ==
    /\ t.kind = r.kind /\ t.nature = r.nature /\ t.clock = r.clock /\ t.stage = r.stage
    /\ t.forced = r.forced /\ t.timedOut = r.timedOut /\ t.hung = r.hung
    /\ t.report = r.report /\ t.result = r.result

\* A call with one field set is a call.
LEMMA Updates ==
  ASSUME NEW r \in CallType
  PROVE  /\ \A x \in SUBSET Kin : [r EXCEPT !.kin = x] \in CallType
         /\ \A x \in 0..3 : [r EXCEPT !.clock = x] \in CallType
         /\ \A x \in {"spawn", "comm", "grace", "drain", "final", "done"} :
               [r EXCEPT !.stage = x] \in CallType
         /\ \A x \in {"none", "running", "zombie", "reaped"} : [r EXCEPT !.leader = x] \in CallType
         /\ \A x \in {"none", "zero", "nonzero"} : [r EXCEPT !.code = x] \in CallType
         /\ \A x \in BOOLEAN : [r EXCEPT !.signalled = x] \in CallType
         /\ \A x \in {"no", "alone", "signalled"} : [r EXCEPT !.ended = x] \in CallType
         /\ \A x \in {"off", "armed", "saw", "force", "grace"} :
               [r EXCEPT !.watchdog = x] \in CallType
         /\ \A x \in BOOLEAN : [r EXCEPT !.forced = x] \in CallType
         /\ \A x \in BOOLEAN : [r EXCEPT !.timedOut = x] \in CallType
         /\ \A x \in BOOLEAN : [r EXCEPT !.hung = x] \in CallType
         /\ \A x \in Reports : [r EXCEPT !.report = x] \in CallType
         /\ \A x \in Reports \cup {"hung"} : [r EXCEPT !.result = x] \in CallType
<1>1. \A x \in SUBSET Kin : [r EXCEPT !.kin = x] \in CallType
  BY DEF CallType
<1>2. \A x \in 0..3 : [r EXCEPT !.clock = x] \in CallType
  BY DEF CallType
<1>3. \A x \in {"spawn", "comm", "grace", "drain", "final", "done"} :
         [r EXCEPT !.stage = x] \in CallType
  BY DEF CallType
<1>4. \A x \in {"none", "running", "zombie", "reaped"} : [r EXCEPT !.leader = x] \in CallType
  BY DEF CallType
<1>5. \A x \in {"none", "zero", "nonzero"} : [r EXCEPT !.code = x] \in CallType
  BY DEF CallType
<1>6. \A x \in BOOLEAN : [r EXCEPT !.signalled = x] \in CallType
  BY DEF CallType
<1>7. \A x \in {"no", "alone", "signalled"} : [r EXCEPT !.ended = x] \in CallType
  BY DEF CallType
<1>8. \A x \in {"off", "armed", "saw", "force", "grace"} : [r EXCEPT !.watchdog = x] \in CallType
  BY DEF CallType
<1>9. \A x \in BOOLEAN : [r EXCEPT !.forced = x] \in CallType
  BY DEF CallType
<1>10. \A x \in BOOLEAN : [r EXCEPT !.timedOut = x] \in CallType
  BY DEF CallType
<1>11. \A x \in BOOLEAN : [r EXCEPT !.hung = x] \in CallType
  BY DEF CallType
<1>12. \A x \in Reports : [r EXCEPT !.report = x] \in CallType
  BY DEF CallType
<1>13. \A x \in Reports \cup {"hung"} : [r EXCEPT !.result = x] \in CallType
  BY DEF CallType
<1> QED
  BY <1>1, <1>2, <1>3, <1>4, <1>5, <1>6, <1>7, <1>8, <1>9, <1>10, <1>11, <1>12, <1>13

\* A leader that ends: typed, and what else stays.
LEMMA EndsIs ==
  ASSUME NEW r \in CallType, NEW code \in {"zero", "nonzero"}
  PROVE  /\ Ends(r, code) \in CallType
         /\ Ends(r, code).leader = "zombie" /\ Ends(r, code).code = code
         /\ Ends(r, code).ended = IF r.signalled THEN "signalled" ELSE "alone"
         /\ Ends(r, code).kin = r.kin /\ Ends(r, code).signalled = r.signalled
         /\ Ends(r, code).watchdog = r.watchdog /\ Same(r, Ends(r, code))
<1> DEFINE l == [r EXCEPT !.leader = "zombie"]
           c == [l EXCEPT !.code = code]
<1>1. l \in CallType
  BY Updates
<1> HIDE DEF l
<1>2. c \in CallType
  BY <1>1, Updates
<1> HIDE DEF c
<1>3. [c EXCEPT !.ended = IF r.signalled THEN "signalled" ELSE "alone"] \in CallType
  BY <1>2, Updates
<1>4. Ends(r, code) = [c EXCEPT !.ended = IF r.signalled THEN "signalled" ELSE "alone"]
  BY DEF Ends, l, c
<1> QED
  BY <1>3, <1>4 DEF Ends, CallType, Same

\* A signal to the group of r: descendants may be gone, and the leader may have
\* ended by it.
Struck(r, t) ==
    /\ t \in CallType /\ Same(r, t) /\ t.watchdog = r.watchdog
    /\ t.signalled /\ t.kin \subseteq r.kin
    /\ \/ t.leader = r.leader /\ t.code = r.code /\ t.ended = r.ended
       \/ r.leader = "running" /\ t.leader = "zombie" /\ t.ended = "signalled"
          /\ t.code \in {"zero", "nonzero"}

\* SIGTERM is such a signal.
LEMMA TermedStrikes ==
  ASSUME NEW r \in CallType, NEW S \in SUBSET (r.kin \cap InGroup)
  PROVE  Struck(r, Termed(r, S))
<1> DEFINE s == [r EXCEPT !.kin = (@ \ InGroup) \cup S, !.signalled = TRUE]
<1>1. s \in CallType /\ s.kin \subseteq r.kin /\ s.signalled /\ Same(r, s)
      /\ s.watchdog = r.watchdog
      /\ s.leader = r.leader /\ s.code = r.code /\ s.ended = r.ended
  <2>1. /\ s = [r EXCEPT !.kin = s.kin, !.signalled = TRUE]
        /\ s.kin = (r.kin \ InGroup) \cup S
    BY DEF CallType
  <2>2. r.kin \in SUBSET Kin /\ s.kin \subseteq r.kin
    BY <2>1 DEF CallType
  <2> HIDE DEF s
  <2>3. s \in CallType
    BY <2>1, <2>2 DEF CallType
  <2>4. Same(r, s)
    BY <2>1 DEF CallType, Same
  <2> QED
    BY <2>1, <2>2, <2>3, <2>4 DEF CallType
<1>2. \/ Termed(r, S) = s
      \/ r.leader = "running" /\ Termed(r, S) \in {Ends(s, "nonzero"), Ends(s, "zero")}
  BY DEF Termed
<1> HIDE DEF s
<1>3. ASSUME NEW code \in {"zero", "nonzero"}, r.leader = "running" PROVE Struck(r, Ends(s, code))
  BY <1>1, <1>3, EndsIs DEF Same, Struck
<1> QED
  BY <1>1, <1>2, <1>3 DEF Struck

\* So is SIGKILL, and it leaves nobody of the group.
LEMMA KilledStrikes ==
  ASSUME NEW r \in CallType
  PROVE  Struck(r, Killed(r)) /\ Gone(Killed(r))
<1> DEFINE s == [r EXCEPT !.kin = @ \ InGroup, !.signalled = TRUE]
<1>1. s \in CallType /\ s.kin \subseteq r.kin /\ s.signalled /\ Same(r, s)
      /\ s.watchdog = r.watchdog
      /\ s.leader = r.leader /\ s.code = r.code /\ s.ended = r.ended
      /\ s.kin \cap InGroup = {}
  <2>1. /\ s = [r EXCEPT !.kin = s.kin, !.signalled = TRUE]
        /\ s.kin = r.kin \ InGroup
    BY DEF CallType
  <2>2. r.kin \in SUBSET Kin /\ s.kin \subseteq r.kin
    BY <2>1 DEF CallType
  <2> HIDE DEF s
  <2>3. s \in CallType
    BY <2>1, <2>2 DEF CallType
  <2>4. Same(r, s)
    BY <2>1 DEF CallType, Same
  <2>5. s.kin \cap InGroup = {}
    BY <2>1
  <2>6. /\ s.watchdog = r.watchdog /\ s.leader = r.leader /\ s.code = r.code
        /\ s.ended = r.ended /\ s.signalled
    BY <2>1 DEF CallType
  <2> QED
    BY <2>2, <2>3, <2>4, <2>5, <2>6
<1>2. Killed(r) = IF r.leader = "running" THEN Ends(s, "nonzero") ELSE s
  BY DEF Killed
<1> HIDE DEF s
<1>3. CASE r.leader = "running"
  BY <1>1, <1>2, <1>3, EndsIs DEF Same, Struck, Gone
<1>4. CASE r.leader # "running"
  BY <1>1, <1>2, <1>4 DEF Struck, Gone
<1> QED
  BY <1>3, <1>4

\* Waiting for the leader changes nothing if it runs.
LEMMA ReapedIs ==
  ASSUME NEW r \in CallType
  PROVE  /\ Reaped(r) \in CallType /\ Same(r, Reaped(r))
         /\ Reaped(r).kin = r.kin /\ Reaped(r).code = r.code
         /\ Reaped(r).ended = r.ended /\ Reaped(r).signalled = r.signalled
         /\ Reaped(r).leader = IF r.leader = "zombie" THEN "reaped" ELSE r.leader
         /\ AtIt(Reaped(r)) <=> AtIt(r)
<1>1. CASE r.leader = "zombie"
  <2> DEFINE t == Reaped(r)
  <2>1. /\ t = [r EXCEPT !.leader = "reaped", !.watchdog = t.watchdog]
        /\ t.watchdog = IF r.watchdog = "armed" THEN "off" ELSE r.watchdog
    BY <1>1 DEF Reaped, CallType
  <2> HIDE DEF t
  <2>2. t.watchdog \in {"off", "armed", "saw", "force", "grace"}
    BY <2>1 DEF CallType
  <2>3. t \in CallType
    <3> DEFINE l == [r EXCEPT !.leader = "reaped"]
    <3>1. l \in CallType
      BY Updates
    <3>2. t = [l EXCEPT !.watchdog = t.watchdog]
      BY <2>1
    <3> HIDE DEF l
    <3> QED
      BY <2>2, <3>1, <3>2, Updates
  <2>4. Same(r, t)
    BY <2>1 DEF CallType, Same
  <2>5. /\ t.kin = r.kin /\ t.code = r.code /\ t.ended = r.ended /\ t.signalled = r.signalled
        /\ t.leader = "reaped" /\ (AtIt(t) <=> AtIt(r))
    BY <2>1 DEF CallType, AtIt
  <2> QED
    BY <1>1, <2>3, <2>4, <2>5 DEF t
<1>2. CASE r.leader # "zombie"
  BY <1>2 DEF Reaped, Same, AtIt
<1> QED
  BY <1>1, <1>2

\* A group that is gone stays gone, whatever is sent to it.
LEMMA StruckGone ==
  ASSUME NEW r, NEW t, Struck(r, t), Gone(r)
  PROVE  Gone(t)
  BY DEF Struck, Gone

----------------------------------------------------------------------------
(* The steps. *)

\* A descendant ends.
LEMMA KinEndsKeeps ==
  ASSUME CallInv, KinEnds
  PROVE  call' \in CallType /\ Parts(call)'
<1>1. call \in CallType /\ EndInv(call) /\ LifeInv(call) /\ ToldInv(call) /\ GoneInv(call)
  BY DEF CallInv, Parts, TypeOK
<1>2. call' \in CallType
  <2>1. PICK k \in call.kin : call' = [call EXCEPT !.kin = @ \ {k}]
    BY DEF KinEnds, Becomes
  <2>2. call.kin \ {k} \in SUBSET Kin
    BY <1>1 DEF CallType
  <2> QED
    BY <1>1, <2>1, <2>2, Updates
<1>3. EndInv(call)'
  BY <1>1 DEF KinEnds, Becomes, EndInv, LifeInv, CallType
<1>4. LifeInv(call)'
  BY <1>1 DEF KinEnds, Becomes, LifeInv, EndInv, CallType
<1>5. ToldInv(call)'
  BY <1>1 DEF KinEnds, Becomes, ToldInv, AtIt, EndInv, LifeInv, CallType
<1>6. GoneInv(call)'
  BY <1>1 DEF KinEnds, Becomes, GoneInv, ToldInv, LifeInv, AtIt, Gone, CallType
<1> QED
  BY <1>2, <1>3, <1>4, <1>5, <1>6 DEF Parts

\* Time passes.
LEMMA TimeKeeps ==
  ASSUME CallInv, TimePasses
  PROVE  call' \in CallType /\ Parts(call)'
<1>1. call \in CallType /\ EndInv(call) /\ LifeInv(call) /\ ToldInv(call) /\ GoneInv(call)
  BY DEF CallInv, Parts, TypeOK
<1>2. call' \in CallType
  <2>1. call.clock + 1 \in 0..3
    BY <1>1 DEF TimePasses, CallType
  <2> QED
    BY <1>1, <2>1, Updates DEF TimePasses, Becomes
<1>3. EndInv(call)'
  BY <1>1 DEF TimePasses, Becomes, EndInv, LifeInv, CallType
<1>4. LifeInv(call)'
  BY <1>1 DEF TimePasses, Becomes, LifeInv, EndInv, CallType
<1>5. ToldInv(call)'
  BY <1>1 DEF TimePasses, Becomes, ToldInv, AtIt, EndInv, LifeInv, CallType
<1>6. GoneInv(call)'
  BY <1>1 DEF TimePasses, Becomes, GoneInv, ToldInv, LifeInv, AtIt, Gone, CallType
<1> QED
  BY <1>2, <1>3, <1>4, <1>5, <1>6 DEF Parts

\* The group has ended within the grace period.
LEMMA GraceEndsKeeps ==
  ASSUME CallInv, GraceEnds
  PROVE  call' \in CallType /\ Parts(call)'
<1>1. call \in CallType /\ EndInv(call) /\ LifeInv(call) /\ ToldInv(call) /\ GoneInv(call)
  BY DEF CallInv, Parts, TypeOK
<1>2. call' \in CallType
  BY <1>1, Updates DEF GraceEnds, Becomes, Alive
<1>3. EndInv(call)'
  BY <1>1 DEF GraceEnds, Becomes, Alive, EndInv, LifeInv, CallType
<1>4. LifeInv(call)'
  BY <1>1 DEF GraceEnds, Becomes, Alive, LifeInv, EndInv, CallType
<1>5. ToldInv(call)'
  BY <1>1 DEF GraceEnds, Becomes, Alive, ToldInv, AtIt, EndInv, LifeInv, CallType
<1>6. GoneInv(call)'
  BY <1>1 DEF GraceEnds, Becomes, Alive, GoneInv, ToldInv, LifeInv, AtIt, Gone, CallType
<1> QED
  BY <1>2, <1>3, <1>4, <1>5, <1>6 DEF Parts

\* The watchdog has seen a leader that runs.
LEMMA WatchdogForcesKeeps ==
  ASSUME CallInv, WatchdogForces
  PROVE  call' \in CallType /\ Parts(call)'
<1>1. call \in CallType /\ EndInv(call) /\ LifeInv(call) /\ ToldInv(call) /\ GoneInv(call)
  BY DEF CallInv, Parts, TypeOK
<1>2. call' \in CallType
  <2> DEFINE w == [call EXCEPT !.watchdog = "force"]
  <2>1. w \in CallType
    BY <1>1, Updates
  <2> HIDE DEF w
  <2>2. call' = [w EXCEPT !.forced = TRUE]
    BY DEF WatchdogForces, Becomes, w
  <2> QED
    BY <2>1, <2>2, Updates
<1>3. EndInv(call)'
  BY <1>1 DEF WatchdogForces, Becomes, EndInv, LifeInv, CallType
<1>4. LifeInv(call)'
  BY <1>1 DEF WatchdogForces, Becomes, LifeInv, EndInv, CallType
<1>5. ToldInv(call)'
  BY <1>1 DEF WatchdogForces, Becomes, ToldInv, AtIt, EndInv, LifeInv, CallType
<1>6. GoneInv(call)'
  BY <1>1 DEF WatchdogForces, Becomes, GoneInv, ToldInv, LifeInv, AtIt, Gone, CallType
<1> QED
  BY <1>2, <1>3, <1>4, <1>5, <1>6 DEF Parts

\* The caller takes the report.
LEMMA ReturnsKeeps ==
  ASSUME CallInv, Returns
  PROVE  call' \in CallType /\ Parts(call)'
<1>1. call \in CallType /\ EndInv(call) /\ LifeInv(call) /\ ToldInv(call) /\ GoneInv(call)
  BY DEF CallInv, Parts, TypeOK
<1>2. call' \in CallType
  <2>1. call.report \in Reports
    BY <1>1 DEF CallType
  <2> QED
    BY <1>1, <2>1, Updates DEF Returns
<1>3. EndInv(call)'
  BY <1>1 DEF Returns, EndInv, LifeInv, CallType
<1>4. LifeInv(call)'
  BY <1>1 DEF Returns, LifeInv, EndInv, CallType
<1>5. ToldInv(call)'
  BY <1>1 DEF Returns, ToldInv, AtIt, EndInv, LifeInv, CallType
<1>6. GoneInv(call)'
  BY <1>1 DEF Returns, GoneInv, ToldInv, LifeInv, AtIt, Gone, CallType
<1> QED
  BY <1>2, <1>3, <1>4, <1>5, <1>6 DEF Parts

\* The caller gives the call up.
LEMMA GivesUpKeeps ==
  ASSUME CallInv, GivesUp
  PROVE  call' \in CallType /\ Parts(call)'
<1>1. call \in CallType /\ EndInv(call) /\ LifeInv(call) /\ ToldInv(call) /\ GoneInv(call)
  BY DEF CallInv, Parts, TypeOK
<1>2. call' \in CallType
  BY <1>1, Updates DEF GivesUp, Reports
<1>3. EndInv(call)'
  BY <1>1 DEF GivesUp, EndInv, LifeInv, CallType
<1>4. LifeInv(call)'
  BY <1>1 DEF GivesUp, LifeInv, EndInv, CallType
<1>5. ToldInv(call)'
  BY <1>1 DEF GivesUp, ToldInv, AtIt, EndInv, LifeInv, CallType
<1>6. GoneInv(call)'
  BY <1>1 DEF GivesUp, GoneInv, ToldInv, LifeInv, AtIt, Gone, CallType
<1> QED
  BY <1>2, <1>3, <1>4, <1>5, <1>6 DEF Parts

\* The leader ends of its own accord.
LEMMA LeaderExitsKeeps ==
  ASSUME CallInv, LeaderExits
  PROVE  call' \in CallType /\ Parts(call)'
<1>1. call \in CallType /\ EndInv(call) /\ LifeInv(call) /\ ToldInv(call) /\ GoneInv(call)
  BY DEF CallInv, Parts, TypeOK
<1>p. PICK code \in {"zero", "nonzero"} : call' = Ends(call, code)
  BY DEF LeaderExits, Becomes
<1>a. /\ call' \in CallType /\ Same(call, call')
      /\ call'.leader = "zombie" /\ call'.code # "none" /\ call'.kin = call.kin
      /\ call'.ended = IF call.signalled THEN "signalled" ELSE "alone"
      /\ call'.signalled = call.signalled /\ call'.watchdog = call.watchdog
  BY <1>1, <1>p, EndsIs
<1>b. caller' = caller /\ call.leader = "running"
  BY DEF LeaderExits, Becomes
<1>2. call' \in CallType
  BY <1>a
<1>3. EndInv(call)'
  BY <1>1, <1>a, <1>b DEF Same, EndInv, LifeInv, CallType
<1>4. LifeInv(call)'
  BY <1>1, <1>a, <1>b DEF Same, LifeInv, EndInv, CallType
<1>5. ToldInv(call)'
  BY <1>1, <1>a, <1>b DEF Same, ToldInv, AtIt, EndInv, LifeInv, CallType
<1>6. GoneInv(call)'
  BY <1>1, <1>a, <1>b DEF Same, GoneInv, ToldInv, LifeInv, AtIt, Gone, CallType
<1> QED
  BY <1>2, <1>3, <1>4, <1>5, <1>6 DEF Parts

\* The worker starts the process.
LEMMA SpawnKeeps ==
  ASSUME CallInv, Spawn
  PROVE  call' \in CallType /\ Parts(call)'
<1>1. call \in CallType /\ EndInv(call) /\ LifeInv(call) /\ ToldInv(call) /\ GoneInv(call)
  BY DEF CallInv, Parts, TypeOK
<1>p. PICK kin \in Descents : call' = [call EXCEPT
           !.stage = "comm", !.leader = "running", !.kin = kin, !.watchdog = "armed"]
  BY DEF Spawn
<1>b. caller' = caller /\ call.stage = "spawn"
  BY DEF Spawn
<1>2. call' \in CallType
  <2> DEFINE a == [call EXCEPT !.stage = "comm"]
             b == [a EXCEPT !.leader = "running"]
             c == [b EXCEPT !.kin = kin]
  <2>1. a \in CallType
    BY <1>1, Updates
  <2> HIDE DEF a
  <2>2. b \in CallType
    BY <2>1, Updates
  <2> HIDE DEF b
  <2>3. c \in CallType
    BY <2>2, Updates, CallsAssumption
  <2> HIDE DEF c
  <2>4. call' = [c EXCEPT !.watchdog = "armed"]
    BY <1>p DEF a, b, c
  <2> QED
    BY <2>3, <2>4, Updates
<1>3. EndInv(call)'
  BY <1>1, <1>b, <1>p DEF Gone, EndInv, LifeInv, CallType
<1>4. LifeInv(call)'
  BY <1>1, <1>b, <1>p DEF Gone, LifeInv, EndInv, CallType
<1>5. ToldInv(call)'
  BY <1>1, <1>b, <1>p DEF Gone, ToldInv, AtIt, EndInv, LifeInv, CallType
<1>6. GoneInv(call)'
  BY <1>1, <1>b, <1>p DEF Gone, GoneInv, ToldInv, LifeInv, AtIt, Gone, CallType
<1> QED
  BY <1>2, <1>3, <1>4, <1>5, <1>6 DEF Parts

\* The pipes are closed, and the leader is waited for.
LEMMA CommEndsKeeps ==
  ASSUME CallInv, CommEnds
  PROVE  call' \in CallType /\ Parts(call)'
<1>1. call \in CallType /\ EndInv(call) /\ LifeInv(call) /\ ToldInv(call) /\ GoneInv(call)
  BY DEF CallInv, Parts, TypeOK
<1> DEFINE t == Reaped(call)
<1>a. /\ t \in CallType /\ Same(call, t) /\ t.kin = call.kin /\ t.code = call.code
      /\ t.ended = call.ended /\ t.signalled = call.signalled /\ t.leader = "reaped"
      /\ call.leader \in {"zombie", "reaped"}
      /\ AtIt(t) <=> AtIt(call)
  BY <1>1, ReapedIs DEF CommEnds, PipeOpen, LifeInv, CallType
<1>b. call' = [t EXCEPT !.stage = "final"] /\ caller' = caller /\ call.stage = "comm"
  BY DEF CommEnds, Becomes
<1> HIDE DEF t
<1>2. call' \in CallType
  BY <1>a, <1>b, Updates
<1>3. EndInv(call)'
  BY <1>1, <1>a, <1>b DEF Same, EndInv, LifeInv, CallType
<1>4. LifeInv(call)'
  BY <1>1, <1>a, <1>b DEF Same, LifeInv, EndInv, CallType
<1>5. ToldInv(call)'
  BY <1>1, <1>a, <1>b DEF Same, ToldInv, AtIt, EndInv, LifeInv, CallType
<1>6. GoneInv(call)'
  BY <1>1, <1>a, <1>b DEF Same, GoneInv, ToldInv, LifeInv, AtIt, Gone, CallType
<1> QED
  BY <1>2, <1>3, <1>4, <1>5, <1>6 DEF Parts

\* The worker times out and sends SIGTERM.
LEMMA TimesOutKeeps ==
  ASSUME CallInv, TimesOut
  PROVE  call' \in CallType /\ Parts(call)'
<1>1. call \in CallType /\ EndInv(call) /\ LifeInv(call) /\ ToldInv(call) /\ GoneInv(call)
  BY DEF CallInv, Parts, TypeOK
<1>p. PICK survivors \in Survivors : call' = [Termed(call, survivors) EXCEPT
           !.timedOut = TRUE, !.stage = IF Alive(call) THEN "grace" ELSE "drain"]
  BY DEF TimesOut, Becomes
<1> DEFINE t == Termed(call, survivors)
           next == IF Alive(call) THEN "grace" ELSE "drain"
<1>a. Struck(call, t) /\ (Gone(call) => Gone(t))
  BY <1>1, TermedStrikes, StruckGone DEF Survivors
<1>b. call' = [t EXCEPT !.timedOut = TRUE, !.stage = next] /\ caller' = caller /\ call.stage = "comm"
  BY <1>p DEF TimesOut, Becomes
<1>c. next \in {"grace", "drain"} /\ (next = "drain" => Gone(call))
  BY DEF Alive, Gone
<1> HIDE DEF t, next
<1>2. call' \in CallType
  <2> DEFINE w == [t EXCEPT !.timedOut = TRUE]
  <2>1. w \in CallType
    BY <1>a, Updates DEF Struck
  <2> HIDE DEF w
  <2>2. call' = [w EXCEPT !.stage = next]
    BY <1>b DEF w
  <2> QED
    BY <1>c, <2>1, <2>2, Updates
<1>3. EndInv(call)'
  BY <1>1, <1>a, <1>b, <1>c DEF Struck, Same, EndInv, LifeInv, CallType
<1>4. LifeInv(call)'
  BY <1>1, <1>a, <1>b, <1>c DEF Struck, Same, LifeInv, EndInv, CallType
<1>5. ToldInv(call)'
  BY <1>1, <1>a, <1>b, <1>c DEF Struck, Same, ToldInv, AtIt, EndInv, LifeInv, CallType
<1>6. GoneInv(call)'
  BY <1>1, <1>a, <1>b, <1>c DEF Struck, Same, GoneInv, ToldInv, LifeInv, AtIt, Gone, CallType
<1> QED
  BY <1>2, <1>3, <1>4, <1>5, <1>6 DEF Parts

\* The grace period has expired, and the worker sends SIGKILL.
LEMMA GraceExpiresKeeps ==
  ASSUME CallInv, GraceExpires
  PROVE  call' \in CallType /\ Parts(call)'
<1>1. call \in CallType /\ EndInv(call) /\ LifeInv(call) /\ ToldInv(call) /\ GoneInv(call)
  BY DEF CallInv, Parts, TypeOK
<1> DEFINE t == Killed(call)
           hung == Alive(call)
<1>a. Struck(call, t) /\ Gone(t)
  BY <1>1, KilledStrikes
<1>b. call' = [t EXCEPT !.hung = hung, !.stage = "drain"] /\ caller' = caller /\ call.stage = "grace"
  BY DEF GraceExpires, Becomes
<1>c. hung \in BOOLEAN
  BY DEF Alive
<1> HIDE DEF t, hung
<1>2. call' \in CallType
  <2> DEFINE w == [t EXCEPT !.hung = hung]
  <2>1. w \in CallType
    BY <1>a, <1>c, Updates DEF Struck
  <2> HIDE DEF w
  <2>2. call' = [w EXCEPT !.stage = "drain"]
    BY <1>b DEF w
  <2> QED
    BY <2>1, <2>2, Updates
<1>3. EndInv(call)'
  BY <1>1, <1>a, <1>b DEF Struck, Same, EndInv, LifeInv, CallType
<1>4. LifeInv(call)'
  BY <1>1, <1>a, <1>b DEF Struck, Same, LifeInv, EndInv, CallType
<1>5. ToldInv(call)'
  BY <1>1, <1>a, <1>b DEF Struck, Same, ToldInv, AtIt, EndInv, LifeInv, CallType
<1>6. GoneInv(call)'
  BY <1>1, <1>a, <1>b DEF Struck, Same, GoneInv, ToldInv, LifeInv, AtIt, Gone, CallType
<1> QED
  BY <1>2, <1>3, <1>4, <1>5, <1>6 DEF Parts

\* The pipes are closed at last; the group was gone before.
LEMMA DrainedKeeps ==
  ASSUME CallInv, Drained
  PROVE  call' \in CallType /\ Parts(call)'
<1>1. call \in CallType /\ EndInv(call) /\ LifeInv(call) /\ ToldInv(call) /\ GoneInv(call)
  BY DEF CallInv, Parts, TypeOK
<1> DEFINE t == Reaped(call)
<1>a. /\ t \in CallType /\ Same(call, t) /\ t.kin = call.kin /\ t.code = call.code
      /\ t.ended = call.ended /\ t.signalled = call.signalled /\ t.leader = "reaped"
      /\ call.leader \in {"zombie", "reaped"}
      /\ AtIt(t) <=> AtIt(call)
  BY <1>1, ReapedIs DEF Drained, PipeOpen, LifeInv, CallType
<1>c. ~Alive(t)
  BY <1>1, <1>a DEF Drained, GoneInv, Gone, Alive
<1>b. call' = [t EXCEPT !.stage = "final"] /\ caller' = caller /\ call.stage = "drain"
  BY <1>c DEF Drained, Becomes
<1> HIDE DEF t
<1>2. call' \in CallType
  BY <1>a, <1>b, Updates
<1>3. EndInv(call)'
  BY <1>1, <1>a, <1>b DEF Same, EndInv, LifeInv, CallType
<1>4. LifeInv(call)'
  BY <1>1, <1>a, <1>b DEF Same, LifeInv, EndInv, CallType
<1>5. ToldInv(call)'
  BY <1>1, <1>a, <1>b DEF Same, ToldInv, AtIt, EndInv, LifeInv, CallType
<1>6. GoneInv(call)'
  BY <1>1, <1>a, <1>b DEF Same, GoneInv, ToldInv, LifeInv, AtIt, Gone, CallType
<1> QED
  BY <1>2, <1>3, <1>4, <1>5, <1>6 DEF Parts

\* The worker reports.
LEMMA FinallyKeeps ==
  ASSUME CallInv, Finally
  PROVE  call' \in CallType /\ Parts(call)'
<1>1. call \in CallType /\ EndInv(call) /\ LifeInv(call) /\ ToldInv(call) /\ GoneInv(call)
  BY DEF CallInv, Parts, TypeOK
<1> DEFINE out == TimedOut(call)
           hung == call.hung \/ call.forced
           rep == Report(call)
<1>b. /\ call' = [call EXCEPT !.stage = "done", !.timedOut = out, !.hung = hung, !.report = rep]
      /\ caller' = caller /\ call.stage = "final"
  BY DEF Finally
<1>c. call.code \in {"zero", "nonzero"} /\ call.ended # "no"
  BY <1>1, <1>b DEF EndInv, LifeInv, CallType
<1>d. /\ out \in BOOLEAN /\ (out <=> call.timedOut \/ call.forced) /\ hung \in BOOLEAN
      /\ rep = IF out THEN "timed_out" ELSE IF call.code = "zero" THEN "ok" ELSE "error"
  BY <1>c DEF TimedOut, Report
<1> HIDE DEF out, hung, rep
<1>2. call' \in CallType
  <2> DEFINE a == [call EXCEPT !.stage = "done"]
             b == [a EXCEPT !.timedOut = out]
             c == [b EXCEPT !.hung = hung]
  <2>1. a \in CallType
    BY <1>1, Updates
  <2> HIDE DEF a
  <2>2. b \in CallType
    BY <1>d, <2>1, Updates
  <2> HIDE DEF b
  <2>3. c \in CallType
    BY <1>d, <2>2, Updates
  <2> HIDE DEF c
  <2>4. call' = [c EXCEPT !.report = rep]
    BY <1>b DEF a, b, c
  <2> QED
    BY <1>d, <2>3, <2>4, Updates DEF Reports
<1>3. EndInv(call)'
  BY <1>1, <1>b, <1>c, <1>d DEF Reports, EndInv, LifeInv, CallType
<1>4. LifeInv(call)'
  BY <1>1, <1>b, <1>c, <1>d DEF Reports, LifeInv, EndInv, CallType
<1>5. ToldInv(call)'
  BY <1>1, <1>b, <1>c, <1>d DEF Reports, ToldInv, AtIt, EndInv, LifeInv, CallType
<1>6. GoneInv(call)'
  BY <1>1, <1>b, <1>c, <1>d DEF Reports, GoneInv, ToldInv, LifeInv, AtIt, Gone, CallType
<1> QED
  BY <1>2, <1>3, <1>4, <1>5, <1>6 DEF Parts

\* The watchdog looks whether the leader runs.
LEMMA WatchdogPollsKeeps ==
  ASSUME CallInv, WatchdogPolls
  PROVE  call' \in CallType /\ Parts(call)'
<1>1. call \in CallType /\ EndInv(call) /\ LifeInv(call) /\ ToldInv(call) /\ GoneInv(call)
  BY DEF CallInv, Parts, TypeOK
<1> DEFINE t == Reaped(call)
<1>a. /\ t \in CallType /\ Same(call, t) /\ t.kin = call.kin /\ t.code = call.code
      /\ t.ended = call.ended /\ t.signalled = call.signalled
      /\ t.leader = IF call.leader = "zombie" THEN "reaped" ELSE call.leader
      /\ AtIt(t) <=> AtIt(call)
  BY <1>1, ReapedIs
<1>b. /\ call' = IF call.leader = "running" THEN [call EXCEPT !.watchdog = "saw"] ELSE t
      /\ caller' = caller /\ call.watchdog = "armed"
  BY DEF WatchdogPolls, Becomes
<1> HIDE DEF t
<1>2. call' \in CallType
  BY <1>1, <1>a, <1>b, Updates
<1>3. EndInv(call)'
  BY <1>1, <1>a, <1>b DEF Same, EndInv, LifeInv, CallType
<1>4. LifeInv(call)'
  BY <1>1, <1>a, <1>b DEF Same, LifeInv, EndInv, CallType
<1>5. ToldInv(call)'
  BY <1>1, <1>a, <1>b DEF Same, ToldInv, AtIt, EndInv, LifeInv, CallType
<1>6. GoneInv(call)'
  BY <1>1, <1>a, <1>b DEF Same, GoneInv, ToldInv, LifeInv, AtIt, Gone, CallType
<1> QED
  BY <1>2, <1>3, <1>4, <1>5, <1>6 DEF Parts

\* The watchdog sends SIGTERM.
LEMMA WatchdogTermsKeeps ==
  ASSUME CallInv, WatchdogTerms
  PROVE  call' \in CallType /\ Parts(call)'
<1>1. call \in CallType /\ EndInv(call) /\ LifeInv(call) /\ ToldInv(call) /\ GoneInv(call)
  BY DEF CallInv, Parts, TypeOK
<1>p. PICK survivors \in Survivors : call' = [Termed(call, survivors) EXCEPT
           !.watchdog = IF Alive(call) THEN "grace" ELSE "off"]
  BY DEF WatchdogTerms, Becomes
<1> DEFINE t == Termed(call, survivors)
           next == IF Alive(call) THEN "grace" ELSE "off"
<1>a. Struck(call, t) /\ (Gone(call) => Gone(t))
  BY <1>1, TermedStrikes, StruckGone DEF Survivors
<1>b. call' = [t EXCEPT !.watchdog = next] /\ caller' = caller /\ call.watchdog = "force"
  BY <1>p DEF WatchdogTerms, Becomes
<1>c. next \in {"grace", "off"} /\ (next = "off" => Gone(call))
  BY DEF Alive, Gone
<1> HIDE DEF t, next
<1>2. call' \in CallType
  BY <1>a, <1>b, <1>c, Updates DEF Struck
<1>3. EndInv(call)'
  BY <1>1, <1>a, <1>b, <1>c DEF Struck, Same, EndInv, LifeInv, CallType
<1>4. LifeInv(call)'
  BY <1>1, <1>a, <1>b, <1>c DEF Struck, Same, LifeInv, EndInv, CallType
<1>5. ToldInv(call)'
  BY <1>1, <1>a, <1>b, <1>c DEF Struck, Same, ToldInv, AtIt, EndInv, LifeInv, CallType
<1>6. GoneInv(call)'
  BY <1>1, <1>a, <1>b, <1>c DEF Struck, Same, GoneInv, ToldInv, LifeInv, AtIt, Gone, CallType
<1> QED
  BY <1>2, <1>3, <1>4, <1>5, <1>6 DEF Parts

\* The watchdog sends SIGKILL.
LEMMA WatchdogKillsKeeps ==
  ASSUME CallInv, WatchdogKills
  PROVE  call' \in CallType /\ Parts(call)'
<1>1. call \in CallType /\ EndInv(call) /\ LifeInv(call) /\ ToldInv(call) /\ GoneInv(call)
  BY DEF CallInv, Parts, TypeOK
<1> DEFINE t == Killed(call)
           forced == t.forced \/ Alive(call)
<1>a. Struck(call, t) /\ Gone(t)
  BY <1>1, KilledStrikes
<1>b. call' = [t EXCEPT !.watchdog = "off", !.forced = forced] /\ caller' = caller
  <2>1. call' = [t EXCEPT !.watchdog = "off", !.forced = @ \/ Alive(call)] /\ caller' = caller
    BY DEF WatchdogKills, Becomes
  <2> QED
    BY <2>1
<1>c. forced \in BOOLEAN /\ (t.forced => forced)
  OBVIOUS
<1>d. call.watchdog = "grace"
  BY DEF WatchdogKills
<1> HIDE DEF t, forced
<1>2. call' \in CallType
  <2> DEFINE w == [t EXCEPT !.watchdog = "off"]
  <2>1. w \in CallType
    BY <1>a, Updates DEF Struck
  <2> HIDE DEF w
  <2>2. call' = [w EXCEPT !.forced = forced]
    BY <1>b DEF w
  <2> QED
    BY <1>c, <2>1, <2>2, Updates
<1>3. EndInv(call)'
  BY <1>1, <1>a, <1>b, <1>c, <1>d DEF Struck, Same, EndInv, LifeInv, CallType
<1>4. LifeInv(call)'
  BY <1>1, <1>a, <1>b, <1>c, <1>d DEF Struck, Same, LifeInv, EndInv, CallType
<1>5. ToldInv(call)'
  BY <1>1, <1>a, <1>b, <1>c, <1>d DEF Struck, Same, ToldInv, AtIt, EndInv, LifeInv, CallType
<1>6. GoneInv(call)'
  BY <1>1, <1>a, <1>b, <1>c, <1>d DEF Struck, Same, GoneInv, ToldInv, LifeInv, AtIt, Gone, CallType
<1> QED
  BY <1>2, <1>3, <1>4, <1>5, <1>6 DEF Parts

\* The next call begins.
LEMMA CallKeeps ==
  ASSUME CallInv, Call
  PROVE  call' \in CallType /\ Parts(call)'
<1>1. call \in CallType /\ EndInv(call) /\ LifeInv(call) /\ ToldInv(call) /\ GoneInv(call)
  BY DEF CallInv, Parts, TypeOK
<1>p. PICK kind \in Kinds, nature \in Natures : call' = NewCall(kind, nature)
  BY DEF Call
<1>2. call' \in CallType
  BY <1>p, CallsAssumption DEF NewCall, CallType, Reports
<1>3. EndInv(call)'
  BY <1>1, <1>p DEF NewCall, EndInv, LifeInv, CallType
<1>4. LifeInv(call)'
  BY <1>1, <1>p DEF NewCall, LifeInv, EndInv, CallType
<1>5. ToldInv(call)'
  BY <1>1, <1>p DEF NewCall, ToldInv, AtIt, EndInv, LifeInv, CallType
<1>6. GoneInv(call)'
  BY <1>1, <1>p DEF NewCall, GoneInv, ToldInv, LifeInv, AtIt, Gone, CallType
<1> QED
  BY <1>2, <1>3, <1>4, <1>5, <1>6 DEF Parts

\* The caller kills the active group, and joins.
LEMMA OuterFiresKeeps ==
  ASSUME CallInv, OuterFires
  PROVE  call' \in CallType /\ Parts(call)'
<1>1. call \in CallType /\ EndInv(call) /\ LifeInv(call) /\ ToldInv(call) /\ GoneInv(call)
  BY DEF CallInv, Parts, TypeOK
<1>a. /\ call' = call \/ (Struck(call, call') /\ (Gone(call) => Gone(call')))
      /\ caller' = "join" /\ caller = "wait" /\ call.stage # "done"
  <2>1. Struck(call, Killed(call)) /\ Gone(Killed(call))
    BY <1>1, KilledStrikes
  <2>2. Struck(call, Termed(call, {}))
    BY <1>1, TermedStrikes
  <2>3. Termed(call, {}) \in CallType
    BY <2>2 DEF Struck
  <2>4. Struck(Termed(call, {}), Killed(Termed(call, {}))) /\ Gone(Killed(Termed(call, {})))
    BY <2>3, KilledStrikes
  <2>5. Struck(call, Killed(Termed(call, {})))
    BY <2>2, <2>4 DEF Struck, Same
  <2> QED
    BY <2>1, <2>4, <2>5 DEF OuterFires
<1>2. call' \in CallType
  BY <1>1, <1>a DEF Struck
<1>3. EndInv(call)'
  BY <1>1, <1>a DEF Struck, Same, EndInv, LifeInv, CallType
<1>4. LifeInv(call)'
  BY <1>1, <1>a DEF Struck, Same, LifeInv, EndInv, CallType
<1>5. ToldInv(call)'
  BY <1>1, <1>a DEF Struck, Same, ToldInv, AtIt, EndInv, LifeInv, CallType
<1>6. GoneInv(call)'
  BY <1>1, <1>a DEF Struck, Same, GoneInv, ToldInv, LifeInv, AtIt, Gone, CallType
<1> QED
  BY <1>2, <1>3, <1>4, <1>5, <1>6 DEF Parts

----------------------------------------------------------------------------
(* The invariant, and what follows from it. *)

\* Before the first call nothing has been started.
LEMMA InitInv == Init => CallInv
<1> SUFFICES ASSUME Init PROVE CallInv
  OBVIOUS
<1> DEFINE n == NewCall("provider", "plain")
<1>1. n \in CallType
  BY DEF NewCall, CallType, Reports
<1>2. call \in CallType
  <2> HIDE DEF n
  <2>1. [n EXCEPT !.stage = "done"] \in CallType
    BY <1>1, Updates
  <2> QED
    BY <2>1 DEF Init, n
<1>3. TypeOK
  <2>1. 0 \in 0..MaxLate
    BY CallsAssumption
  <2> QED
    BY <1>2, <2>1 DEF Init, TypeOK
<1>4. /\ call.stage = "done" /\ call.leader = "none" /\ call.ended = "no" /\ call.code = "none"
      /\ ~call.signalled /\ ~call.forced /\ ~call.timedOut /\ call.watchdog = "off"
      /\ call.report = "none" /\ call.result = "none" /\ caller = "idle"
  BY DEF Init, NewCall
<1> QED
  BY <1>3, <1>4 DEF CallInv, Parts, EndInv, LifeInv, ToldInv, GoneInv, AtIt

\* A step that is not about the call keeps what is known of it.
LEMMA OthersKeep ==
  ASSUME CallInv, UNCHANGED <<call, caller>>
  PROVE  call' \in CallType /\ Parts(call)'
  BY DEF CallInv, TypeOK, Parts, EndInv, LifeInv, ToldInv, GoneInv, AtIt, Gone

\* The caller, _active_pgid and the number of late workers are of their types.
LEMMA NextTyped ==
  CallInv /\ [Next]_vars =>
    caller' \in {"idle", "wait", "join"} /\ active' \in BOOLEAN /\ late' \in 0..MaxLate
<1> SUFFICES ASSUME CallInv, [Next]_vars
             PROVE  caller' \in {"idle", "wait", "join"} /\ active' \in BOOLEAN
                    /\ late' \in 0..MaxLate
  OBVIOUS
<1>1. caller \in {"idle", "wait", "join"} /\ active \in BOOLEAN /\ late \in 0..MaxLate
      /\ MaxLate \in Nat
  BY CallsAssumption DEF CallInv, TypeOK
<1>2. CASE Call
  <2>1. late' \in 0..MaxLate
    BY <1>1, <1>2 DEF Call
  <2> QED
    BY <1>1, <1>2, <2>1 DEF Call
<1>3. CASE LateWorkerEnds
  <2>1. late' \in 0..MaxLate
    BY <1>1, <1>3 DEF LateWorkerEnds
  <2> QED
    BY <1>1, <1>3, <2>1 DEF LateWorkerEnds
<1>4. CASE [Next]_vars /\ ~Call /\ ~LateWorkerEnds
  BY <1>1, <1>4 DEF Next, vars, Worker, Watchdog, Spawn, CommEnds, TimesOut, GraceEnds,
     GraceExpires, Drained, Finally, WatchdogPolls, WatchdogForces, WatchdogTerms, WatchdogKills, TimePasses,
     LeaderExits, KinEnds, Returns, OuterFires, GivesUp, Becomes
<1> QED
  BY <1>2, <1>3, <1>4

\* Every step keeps the invariant.
LEMMA NextInv == CallInv /\ [Next]_vars => CallInv'
<1> SUFFICES ASSUME CallInv, [Next]_vars PROVE CallInv'
  OBVIOUS
<1>1. call' \in CallType /\ Parts(call)'
  <2>1. CASE Worker
    <3>1. CASE Spawn
      BY <3>1, SpawnKeeps
    <3>2. CASE CommEnds
      BY <3>2, CommEndsKeeps
    <3>3. CASE TimesOut
      BY <3>3, TimesOutKeeps
    <3>4. CASE GraceEnds
      BY <3>4, GraceEndsKeeps
    <3>5. CASE GraceExpires
      BY <3>5, GraceExpiresKeeps
    <3>6. CASE Drained
      BY <3>6, DrainedKeeps
    <3>7. CASE Finally
      BY <3>7, FinallyKeeps
    <3> QED
      BY <2>1, <3>1, <3>2, <3>3, <3>4, <3>5, <3>6, <3>7 DEF Worker
  <2>2. CASE Watchdog
    <3>1. CASE WatchdogPolls
      BY <3>1, WatchdogPollsKeeps
    <3>2. CASE WatchdogForces
      BY <3>2, WatchdogForcesKeeps
    <3>3. CASE WatchdogTerms
      BY <3>3, WatchdogTermsKeeps
    <3>4. CASE WatchdogKills
      BY <3>4, WatchdogKillsKeeps
    <3> QED
      BY <2>2, <3>1, <3>2, <3>3, <3>4 DEF Watchdog
  <2>3. CASE Call
    BY <2>3, CallKeeps
  <2>4. CASE Returns
    BY <2>4, ReturnsKeeps
  <2>5. CASE OuterFires
    BY <2>5, OuterFiresKeeps
  <2>6. CASE GivesUp
    BY <2>6, GivesUpKeeps
  <2>7. CASE TimePasses
    BY <2>7, TimeKeeps
  <2>8. CASE LeaderExits
    BY <2>8, LeaderExitsKeeps
  <2>9. CASE KinEnds
    BY <2>9, KinEndsKeeps
  <2>10. CASE LateWorkerEnds \/ UNCHANGED vars
    <3>1. UNCHANGED <<call, caller>>
      BY <2>10 DEF LateWorkerEnds, vars
    <3> QED
      BY <3>1, OthersKeep
  <2> QED
    BY <2>1, <2>2, <2>3, <2>4, <2>5, <2>6, <2>7, <2>8, <2>9, <2>10 DEF Next
<1>2. caller' \in {"idle", "wait", "join"} /\ active' \in BOOLEAN /\ late' \in 0..MaxLate
  BY NextTyped
<1> QED
  BY <1>1, <1>2 DEF CallInv, TypeOK

\* The inductive invariant.
LEMMA CallInvariant == Spec => []CallInv
  BY InitInv, NextInv, PTL DEF Spec

\* Type correctness, for any bound on the workers that are late.
THEOREM TypeCorrect == Spec => []TypeOK
<1>1. CallInv => TypeOK
  BY DEF CallInv
<1> QED
  BY <1>1, CallInvariant, PTL

\* What the runner takes for a provider's success ended by itself with exit
\* code 0 (run_provider_with_heartbeat), whoever of worker, watchdog and caller
\* had begun to stop it.
THEOREM SuccessIsNoTimeout == Spec => []OkEndedAlone
<1>1. CallInv => OkEndedAlone
  BY DEF CallInv, Parts, ToldInv, OkEndedAlone
<1> QED
  BY <1>1, CallInvariant, PTL

\* A call that timed out, or was given up and let be, has left nobody of its
\* process group to write to the worktree.
THEOREM TimedOutLeavesNobody == Spec => []TimedOutGroupGone
<1>1. CallInv => TimedOutGroupGone
  <2> SUFFICES ASSUME CallInv PROVE TimedOutGroupGone
    OBVIOUS
  <2>1. call \in CallType /\ LifeInv(call) /\ GoneInv(call)
    BY DEF CallInv, Parts, TypeOK
  <2>2. CASE call.result = "timed_out" /\ ~AtIt(call)
    <3>1. call.report = "timed_out" /\ call.stage = "done"
      BY <2>1, <2>2 DEF LifeInv
    <3> QED
      BY <2>1, <2>2, <3>1 DEF GoneInv, TimedOutGroupGone
  <2>3. CASE call.result = "hung" /\ Settled
    <3>1. call.stage = "drain" => Gone(call)
      BY <2>1 DEF GoneInv
    <3>2. call.stage = "done" => call.report # "none"
      BY <2>1, <2>3 DEF LifeInv
    <3>3. call.stage = "done" /\ call.report = "timed_out" => Gone(call)
      BY <2>1, <2>3 DEF GoneInv, AtIt, Settled
    <3>4. call.report \in {"none", "ok", "error", "timed_out"}
      BY <2>1 DEF CallType, Reports
    <3>5. call.stage \in {"done", "drain"}
      BY <2>3 DEF Settled
    <3> QED
      BY <2>3, <3>1, <3>2, <3>3, <3>4, <3>5 DEF TimedOutGroupGone, EndedUnnoticed
  <2> QED
    BY <2>2, <2>3 DEF TimedOutGroupGone, AtIt
<1> QED
  BY <1>1, CallInvariant, PTL
=============================================================================
