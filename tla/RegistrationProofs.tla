------------------------- MODULE RegistrationProofs -------------------------
(***************************************************************************)
(* That the operations on the registry keep it, the schedule and the       *)
(* memory of the tasks in agreement.  What holds between two operations    *)
(* (RegistryConsistent) says nothing of the steps in between, so that the  *)
(* invariant also follows the tasks that are being unregistered.           *)
(***************************************************************************)
EXTENDS Registration, SequenceLemmas

\* The task is on the list of an application.
Listed(task) == \E fd \in Fds : task \in ToSet(queries[fd])

\* A task is on one list at most, once, and its query names the descriptor.
ListedOnce ==
  \A fd \in Fds : /\ IsInjective(queries[fd])
                  /\ \A task \in ToSet(queries[fd]) : query[task].fd = fd

\* Only an application that is registered has queries.
QueriesHaveOwner == \A fd \in Fds \ registered : queries[fd] = << >>

\* What is being unregistered is on no list any more.
VictimsUnchained ==
  /\ IsInjective(victims)
  /\ \A task \in ToSet(victims) : ~Listed(task)

\* Memory is in use for a list or until the task is freed.
LiveIsHeld == \A task \in Tasks : task \in live <=> task \in ToSet(victims) \/ Listed(task)

\* What is allocated is scheduled, but for the task that is freed next.
LiveIsScheduled ==
  /\ scheduled \subseteq live
  /\ \A task \in live \ scheduled : victims # << >> /\ task = Head(victims)

RegistryInv ==
  /\ RegistryTypeOK
  /\ ListedOnce
  /\ QueriesHaveOwner
  /\ VictimsUnchained
  /\ LiveIsHeld
  /\ LiveIsScheduled

-----------------------------------------------------------------------------
\* The two shortest sequences.
LEMMA EmptyList ==
  ASSUME NEW S
  PROVE  << >> \in Seq(S) /\ IsInjective(<< >>) /\ ToSet(<< >>) = {}
  BY EmptySeq DEF ToSet, IsInjective

LEMMA SingleList ==
  ASSUME NEW S, NEW e \in S
  PROVE  /\ <<e>> \in Seq(S) /\ <<e>> # << >> /\ Head(<<e>>) = e
         /\ IsInjective(<<e>>) /\ ToSet(<<e>>) = {e}
<1>1. <<e>> \in Seq(S) /\ Len(<<e>>) = 1 /\ <<e>>[1] = e /\ DOMAIN <<e>> = 1 .. 1
  OBVIOUS
<1>2. ToSet(<<e>>) = {e}
  BY <1>1 DEF ToSet
<1>3. IsInjective(<<e>>)
  BY <1>1 DEF IsInjective
<1> QED
  BY <1>1, <1>2, <1>3

\* At first there is nothing.
LEMMA RegistryInitInv == RegistryInit => RegistryInv
<1> SUFFICES ASSUME RegistryInit PROVE RegistryInv
  OBVIOUS
<1> USE EmptyList DEF RegistryInit, PeriodicInit
<1>1. RegistryTypeOK
  BY DEF RegistryTypeOK
<1>2. \A fd \in Fds : queries[fd] = << >>
  OBVIOUS
<1>3. ListedOnce /\ QueriesHaveOwner
  BY <1>2 DEF ListedOnce, QueriesHaveOwner
<1>4. VictimsUnchained /\ LiveIsHeld
  BY <1>2 DEF VictimsUnchained, LiveIsHeld, Listed
<1>5. LiveIsScheduled
  BY DEF LiveIsScheduled
<1> QED
  BY <1>1, <1>3, <1>4, <1>5 DEF RegistryInv

\* What leaves the registry and the schedule alone.
LEMMA RegistryUnchanged ==
  ASSUME RegistryInv, UNCHANGED <<registryVars, scheduled>>, running' \in Tasks \cup {NoTask}
  PROVE  RegistryInv'
<1> USE DEF registryVars
<1>1. RegistryTypeOK'
  BY DEF RegistryInv, RegistryTypeOK
<1>2. ListedOnce' /\ QueriesHaveOwner'
  BY DEF RegistryInv, ListedOnce, QueriesHaveOwner
<1>3. VictimsUnchained' /\ LiveIsHeld' /\ LiveIsScheduled'
  BY DEF RegistryInv, VictimsUnchained, LiveIsHeld, LiveIsScheduled, Listed
<1> QED
  BY <1>1, <1>2, <1>3 DEF RegistryInv

\* The scheduler begins and ends tasks whatever the registry does.
LEMMA BeginTaskInv ==
  ASSUME RegistryInv, NEW task \in Tasks, BeginTask(task), UNCHANGED registryVars
  PROVE  RegistryInv'
  BY RegistryUnchanged DEF BeginTask

LEMMA EndTaskInv ==
  ASSUME RegistryInv, EndTask, UNCHANGED registryVars
  PROVE  RegistryInv'
  BY RegistryUnchanged DEF EndTask

-----------------------------------------------------------------------------
\* A registration takes memory nobody uses, so that no list has the task yet;
\* the only task it adds to a list has a query of that client.
LEMMA RegisterInv ==
  ASSUME RegistryInv, NEW fd \in Fds, NEW client \in Clients, NEW req_id \in ReqIds,
         register_query(fd, client, req_id)
  PROVE  /\ RegistryInv'
         /\ \A g \in Fds : \A t \in ToSet(queries'[g]) :
              \/ t \in ToSet(queries[g]) /\ query'[t] = query[t]
              \/ g = fd /\ query'[t].client = client
<1>1. PICK task \in Tasks \ live :
        /\ live' = live \cup {task}
        /\ query' = [query EXCEPT ![task] = [fd |-> fd, client |-> client, req_id |-> req_id]]
        /\ registered' = registered \cup {fd}
        /\ queries' = [queries EXCEPT ![fd] = <<task>> \o @]
        /\ scheduled' = scheduled \cup {task}
        /\ running' = running /\ victims' = victims
  BY DEF register_query, AddTask
<1>2. /\ queries \in [Fds -> Seq(Tasks)] /\ victims \in Seq(Tasks)
      /\ query \in [Tasks -> Query \cup {NoQuery}]
      /\ live \subseteq Tasks /\ scheduled \subseteq Tasks
      /\ registered \subseteq Fds /\ running \in Tasks \cup {NoTask}
  BY DEF RegistryInv, RegistryTypeOK
<1>3. task \notin ToSet(victims) /\ \A g \in Fds : task \notin ToSet(queries[g])
  BY <1>1 DEF RegistryInv, LiveIsHeld, Listed
<1>4. /\ <<task>> \o queries[fd] \in Seq(Tasks)
      /\ IsInjective(<<task>> \o queries[fd])
      /\ ToSet(<<task>> \o queries[fd]) = ToSet(queries[fd]) \cup {task}
  <2>1. queries[fd] \in Seq(Tasks) /\ IsInjective(queries[fd]) /\ task \in Tasks
    BY <1>1, <1>2 DEF RegistryInv, ListedOnce
  <2>2. QED
    BY <1>3, <2>1, PrependedIsFirst, SMT
<1>5. /\ queries' \in [Fds -> Seq(Tasks)]
      /\ \A g \in Fds : ToSet(queries'[g]) = ToSet(queries[g]) \cup (IF g = fd THEN {task} ELSE {})
      /\ \A g \in Fds : IsInjective(queries'[g])
  BY <1>1, <1>2, <1>4 DEF RegistryInv, ListedOnce
<1>6. \A t \in Tasks : query'[t] = IF t = task
                                   THEN [fd |-> fd, client |-> client, req_id |-> req_id]
                                   ELSE query[t]
  BY <1>1, <1>2
<1>7. RegistryTypeOK'
  BY <1>1, <1>2, <1>5 DEF RegistryTypeOK, Query
<1>8. ListedOnce'
  <2> SUFFICES ASSUME NEW g \in Fds, NEW t \in ToSet(queries'[g]) PROVE query'[t].fd = g
    BY <1>5 DEF ListedOnce
  <2>1. CASE t = task
    BY <1>3, <1>5, <1>6, <2>1
  <2>2. CASE t # task
    <3>1. t \in ToSet(queries[g])
      BY <1>5, <2>2
    <3>2. t \in Tasks /\ query[t].fd = g
      BY <1>2, <3>1, ElementOfSeq, LenProperties DEF ToSet, RegistryInv, ListedOnce
    <3>3. QED
      BY <1>6, <2>2, <3>2
  <2>3. QED
    BY <2>1, <2>2
<1>9. QueriesHaveOwner'
  BY <1>1, <1>2 DEF RegistryInv, QueriesHaveOwner
<1>10. \A t : Listed(t)' <=> Listed(t) \/ t = task
  BY <1>5 DEF Listed
<1>11. VictimsUnchained'
  BY <1>1, <1>3, <1>10 DEF RegistryInv, VictimsUnchained
<1>12. LiveIsHeld'
  BY <1>1, <1>10 DEF RegistryInv, LiveIsHeld
<1>13. LiveIsScheduled'
  BY <1>1 DEF RegistryInv, LiveIsScheduled
<1>14. ASSUME NEW g \in Fds, NEW t \in ToSet(queries'[g])
       PROVE  \/ t \in ToSet(queries[g]) /\ query'[t] = query[t]
              \/ g = fd /\ query'[t].client = client
  <2>1. CASE t = task
    BY <1>3, <1>5, <1>6, <2>1
  <2>2. CASE t # task
    <3>1. t \in ToSet(queries[g])
      BY <1>5, <2>2
    <3>2. t \in Tasks
      BY <1>2, <3>1, ElementOfSeq, LenProperties DEF ToSet
    <3>3. QED
      BY <1>6, <2>2, <3>1, <3>2
  <2>3. QED
    BY <2>1, <2>2
<1> QED
  BY <1>7, <1>8, <1>9, <1>11, <1>12, <1>13, <1>14 DEF RegistryInv

\* The task that is found leaves its list and is the one that is unregistered.
LEMMA UnregisterInv ==
  ASSUME RegistryInv, victims = << >>, NEW fd \in Fds, NEW req_id, unregister_query(fd, req_id)
  PROVE  /\ RegistryInv' /\ query' = query
         /\ \A g \in Fds : ToSet(queries'[g]) \subseteq ToSet(queries[g])
<1>1. CASE UNCHANGED <<registryVars, periodicVars>>
  BY <1>1, RegistryUnchanged DEF registryVars, periodicVars, RegistryInv, RegistryTypeOK
<1>2. CASE /\ \E k \in Found(fd, req_id) :
                /\ victims' = <<queries[fd][k]>>
                /\ queries' = [queries EXCEPT ![fd] = RemoveAt(@, k)]
           /\ UNCHANGED <<registered, query, live, scheduled, running>>
  <2>1. PICK k \in DOMAIN queries[fd] :
          /\ victims' = <<queries[fd][k]>>
          /\ queries' = [queries EXCEPT ![fd] = RemoveAt(@, k)]
    BY <1>2 DEF Found
  <2>2. /\ queries \in [Fds -> Seq(Tasks)] /\ queries[fd] \in Seq(Tasks)
        /\ IsInjective(queries[fd])
    BY DEF RegistryInv, RegistryTypeOK, ListedOnce
  <2>3. k \in 1 .. Len(queries[fd])
    BY <2>2, LenProperties
  <2>4. /\ queries[fd][k] \in Tasks
        /\ queries[fd][k] \in ToSet(queries[fd])
    BY <2>2, <2>3, ElementOfSeq DEF ToSet
  <2> DEFINE v == queries[fd][k]
  <2>5. /\ RemoveAt(queries[fd], k) \in Seq(Tasks)
        /\ IsInjective(RemoveAt(queries[fd], k))
        /\ ToSet(RemoveAt(queries[fd], k)) = ToSet(queries[fd]) \ {v}
    BY <2>2, <2>3, RemovedIsGone
  <2>6. /\ victims' \in Seq(Tasks) /\ victims' # << >> /\ Head(victims') = v
        /\ IsInjective(victims') /\ ToSet(victims') = {v}
    BY <2>1, <2>4, SingleList
  <2>7. /\ v \in Tasks /\ v \in ToSet(queries[fd]) /\ query[v].fd = fd
        /\ \A g \in Fds : v \in ToSet(queries[g]) => g = fd
    BY <2>4 DEF RegistryInv, ListedOnce
  <2> HIDE DEF v
  <2>8. /\ queries' \in [Fds -> Seq(Tasks)]
        /\ \A g \in Fds : ToSet(queries'[g]) = ToSet(queries[g]) \ {v}
        /\ \A g \in Fds : IsInjective(queries'[g])
    BY <2>1, <2>2, <2>5, <2>7 DEF RegistryInv, ListedOnce
  <2>9. RegistryTypeOK'
    BY <1>2, <2>6, <2>8 DEF RegistryInv, RegistryTypeOK
  <2>10. ListedOnce'
    BY <1>2, <2>8 DEF RegistryInv, ListedOnce
  <2>11. QueriesHaveOwner'
    <3> SUFFICES ASSUME NEW g \in Fds \ registered PROVE queries'[g] = << >>
      BY <1>2 DEF QueriesHaveOwner
    <3>1. queries[g] = << >>
      BY DEF RegistryInv, QueriesHaveOwner
    <3>2. g # fd
      BY <2>7, <3>1, EmptyList
    <3>3. QED
      BY <2>1, <2>2, <3>1, <3>2
  <2>12. \A t : Listed(t)' <=> Listed(t) /\ t # v
    BY <2>8 DEF Listed
  <2>13. VictimsUnchained'
    BY <2>6, <2>12 DEF VictimsUnchained
  <2>14. Listed(v) /\ \A t : t \notin ToSet(victims)
    BY <2>7, EmptyList DEF Listed
  <2>15. LiveIsHeld'
    BY <1>2, <2>6, <2>12, <2>14 DEF RegistryInv, LiveIsHeld
  <2>16. LiveIsScheduled'
    BY <1>2 DEF RegistryInv, LiveIsScheduled
  <2>17. QED
    BY <1>2, <2>8, <2>9, <2>10, <2>11, <2>13, <2>15, <2>16 DEF RegistryInv
<1> QED
  BY <1>1, <1>2 DEF unregister_query

\* The whole list of an application is to be unregistered.
LEMMA UnregisterApplicationInv ==
  ASSUME RegistryInv, victims = << >>, NEW fd \in Fds, unregister_application(fd)
  PROVE  /\ RegistryInv' /\ query' = query
         /\ \A g \in Fds : ToSet(queries'[g]) \subseteq ToSet(queries[g])
<1>1. /\ registered' = registered \ {fd}
      /\ victims' = queries[fd]
      /\ queries' = [queries EXCEPT ![fd] = << >>]
      /\ UNCHANGED <<query, live, scheduled, running>>
  BY DEF unregister_application
<1>2. queries \in [Fds -> Seq(Tasks)] /\ queries[fd] \in Seq(Tasks)
  BY DEF RegistryInv, RegistryTypeOK
<1>3. /\ queries' \in [Fds -> Seq(Tasks)]
      /\ \A g \in Fds : ToSet(queries'[g]) = IF g = fd THEN {} ELSE ToSet(queries[g])
      /\ \A g \in Fds : IsInjective(queries'[g])
  BY <1>1, <1>2, EmptyList DEF RegistryInv, ListedOnce
<1>4. /\ victims' \in Seq(Tasks) /\ IsInjective(victims')
      /\ \A t \in ToSet(victims') : query[t].fd = fd
  BY <1>1, <1>2 DEF RegistryInv, ListedOnce
<1>5. RegistryTypeOK'
  BY <1>1, <1>3, <1>4 DEF RegistryInv, RegistryTypeOK
<1>6. ListedOnce' /\ QueriesHaveOwner'
  BY <1>1, <1>2, <1>3 DEF RegistryInv, ListedOnce, QueriesHaveOwner
<1>7. VictimsUnchained'
  <2> SUFFICES ASSUME NEW t \in ToSet(victims'), NEW g \in Fds, t \in ToSet(queries'[g])
               PROVE  FALSE
    BY <1>4 DEF VictimsUnchained, Listed
  <2>1. g # fd /\ t \in ToSet(queries[g])
    BY <1>3
  <2>2. QED
    BY <1>4, <2>1 DEF RegistryInv, ListedOnce
<1>8. \A t : Listed(t) <=> Listed(t)' \/ t \in ToSet(victims')
  BY <1>1, <1>3 DEF Listed
<1>9. \A t : t \notin ToSet(victims)
  BY EmptyList
<1>10. LiveIsHeld'
  BY <1>1, <1>8, <1>9 DEF RegistryInv, LiveIsHeld
<1>11. LiveIsScheduled'
  BY <1>1 DEF RegistryInv, LiveIsScheduled
<1> QED
  BY <1>1, <1>3, <1>5, <1>6, <1>7, <1>10, <1>11 DEF RegistryInv

\* Only the task that is freed next is off the schedule.
LEMMA UnscheduleVictimInv ==
  ASSUME RegistryInv, UnscheduleVictim
  PROVE  RegistryInv'
<1>1. /\ victims # << >>
      /\ scheduled' = scheduled \ {Head(victims)} /\ UNCHANGED <<registryVars, running>>
  BY DEF UnscheduleVictim, RemoveTask
<1> USE DEF registryVars
<1>2. RegistryTypeOK'
  BY <1>1 DEF RegistryInv, RegistryTypeOK
<1>3. ListedOnce' /\ QueriesHaveOwner'
  BY <1>1 DEF RegistryInv, ListedOnce, QueriesHaveOwner
<1>4. VictimsUnchained' /\ LiveIsHeld'
  BY <1>1 DEF RegistryInv, VictimsUnchained, LiveIsHeld, Listed
<1>5. LiveIsScheduled'
  BY <1>1 DEF RegistryInv, LiveIsScheduled
<1> QED
  BY <1>2, <1>3, <1>4, <1>5 DEF RegistryInv

\* What is freed is off the schedule, and what is left is on it.
LEMMA FreeVictimInv ==
  ASSUME RegistryInv, FreeVictim
  PROVE  RegistryInv'
<1> DEFINE v == Head(victims)
<1>1. /\ victims # << >> /\ v \notin scheduled
      /\ live' = live \ {v} /\ victims' = Tail(victims)
      /\ UNCHANGED <<registered, queries, query, scheduled, running>>
  BY DEF FreeVictim
<1>2. victims \in Seq(Tasks) /\ IsInjective(victims)
  BY DEF RegistryInv, RegistryTypeOK, VictimsUnchained
<1>3. /\ victims' \in Seq(Tasks) /\ IsInjective(victims')
      /\ ToSet(victims') = ToSet(victims) \ {v}
  <2>1. 1 \in 1 .. Len(victims) /\ v = victims[1] /\ victims' = RemoveAt(victims, 1)
    BY <1>1, <1>2, TailRemoves
  <2> HIDE DEF v
  <2>2. QED
    BY <1>2, <2>1, RemovedIsGone
<1>4. v \in ToSet(victims)
  BY <1>1, <1>2, TailRemoves, LenProperties DEF ToSet
<1> HIDE DEF v
<1>5. RegistryTypeOK'
  BY <1>1, <1>3 DEF RegistryInv, RegistryTypeOK
<1>6. ListedOnce' /\ QueriesHaveOwner'
  BY <1>1 DEF RegistryInv, ListedOnce, QueriesHaveOwner
<1>7. \A t : Listed(t)' <=> Listed(t)
  BY <1>1 DEF Listed
<1>8. VictimsUnchained'
  BY <1>3, <1>7 DEF RegistryInv, VictimsUnchained
<1>9. ~Listed(v)
  BY <1>4 DEF RegistryInv, VictimsUnchained
<1>10. LiveIsHeld'
  BY <1>1, <1>3, <1>4, <1>7, <1>9 DEF RegistryInv, LiveIsHeld
<1>11. LiveIsScheduled'
  BY <1>1 DEF RegistryInv, LiveIsScheduled, v
<1> QED
  BY <1>5, <1>6, <1>8, <1>10, <1>11 DEF RegistryInv

-----------------------------------------------------------------------------
\* Between two operations the invariant is what RegistryConsistent says.
LEMMA InvIsConsistent == RegistryInv => RegistryConsistent
<1> SUFFICES ASSUME RegistryInv, victims = << >> PROVE RegistryConsistent
  BY DEF RegistryConsistent
<1>1. /\ scheduled \subseteq live /\ live \subseteq scheduled /\ live \subseteq Tasks
      /\ registered \subseteq Fds /\ queries \in [Fds -> Seq(Tasks)]
  BY DEF RegistryInv, RegistryTypeOK, LiveIsScheduled
<1>2. \A t \in Tasks : t \in live <=> Listed(t)
  BY EmptyList DEF RegistryInv, LiveIsHeld
<1>3. \A fd \in Fds : ToSet(queries[fd]) \subseteq Tasks
  BY <1>1, ElementOfSeq, LenProperties DEF ToSet
<1>4. \A t : Listed(t) <=> \E fd \in registered : t \in ToSet(queries[fd])
  BY <1>1, EmptyList DEF RegistryInv, QueriesHaveOwner, Listed
<1>5. Registered = live
  BY <1>1, <1>2, <1>3, <1>4 DEF Registered
<1>6. \A fd \in registered : /\ IsInjective(queries[fd])
                             /\ \A task \in ToSet(queries[fd]) : query[task].fd = fd
  BY <1>1 DEF RegistryInv, ListedOnce
<1> QED
  BY <1>1, <1>5, <1>6 DEF RegistryConsistent

=============================================================================
