---------------------------- MODULE ServiceProofs ----------------------------
(***************************************************************************)
(* That no application is shown data older than what it knows, that it     *)
(* prints what was set, that the data moves from packet to packet as a     *)
(* whole, and the types of it all: with any packets of the generator, any  *)
(* number of replies, and sockets and queues of any size.                  *)
(***************************************************************************)
EXTENDS Service, SequenceLemmas

\* The applications that ask for each reply; the others register.
Askers == {"app1", "app2"}

IsAsk(call) == call.call = "write" /\ call.type # "unregister"

\* What an application may call.
Calls(a) ==
  {[call |-> "connect"], [call |-> "read"], [call |-> "close"]}
    \cup {[call |-> "write", type |-> ty, query |-> q] :
            ty \in {"request", "register", "unregister"}, q \in QueriesOf(a)}

-----------------------------------------------------------------------------
(* The programs *)

\* The queries of an application have request ids of their own, and it prints
\* the member of the reply that the daemon sets for each.
LEMMA QueriesDiffer ==
  ASSUME NEW a \in Apps
  PROVE  /\ AppQueries[a] \in Seq(QueriesOf(a))
         /\ Len(AppQueries[a]) \in {1, 2}
         /\ \A i, j \in 1 .. Len(AppQueries[a]) :
              AppQueries[a][i].req_id = AppQueries[a][j].req_id => i = j
         /\ \A i \in 1 .. Len(AppQueries[a]) :
              /\ AppQueries[a][i].req_id \in Nat
              /\ AppQueries[a][i].data_id \in DataIds
              /\ Prints(a, AppQueries[a][i].req_id) = MemberOf(AppQueries[a][i].data_id)
<1> DEFINE Differ(qs) ==
             /\ Len(qs) \in {1, 2}
             /\ \A i, j \in 1 .. Len(qs) : qs[i].req_id = qs[j].req_id => i = j
             /\ \A i \in 1 .. Len(qs) :
                  /\ qs[i].req_id \in Nat
                  /\ qs[i].data_id \in DataIds
                  /\ (IF qs[i].req_id = Head(qs).req_id THEN Head(qs).prints
                                                       ELSE Last(qs).prints)
                       = serve_query_case[qs[i].data_id][3]
<1>1. /\ Differ(AppQueries["app1"]) /\ Differ(AppQueries["app2"])
      /\ Differ(AppQueries["app3"]) /\ Differ(AppQueries["app4"])
  <2> USE DEF AppQueries, Last, DataIds, serve_query_case
  <2>1. Differ(AppQueries["app1"])
    BY SMTT(30)
  <2>2. Differ(AppQueries["app2"])
    BY SMTT(30)
  <2>3. Differ(AppQueries["app3"])
    BY SMTT(30)
  <2>4. Differ(AppQueries["app4"])
    BY SMTT(30)
  <2> HIDE DEF AppQueries, Differ
  <2>5. QED
    BY <2>1, <2>2, <2>3, <2>4
<1>2. \E S : AppQueries[a] \in Seq(S)
  <2>1. /\ AppQueries["app1"] \in Seq({AppQueries["app1"][1]})
        /\ AppQueries["app2"] \in Seq({AppQueries["app2"][1]})
        /\ AppQueries["app3"] \in Seq({AppQueries["app3"][1], AppQueries["app3"][2]})
        /\ AppQueries["app4"] \in Seq({AppQueries["app4"][1], AppQueries["app4"][2]})
    BY SMTT(30) DEF AppQueries
  <2>2. QED
    BY <2>1 DEF Apps
<1>3. AppQueries[a] \in Seq(QueriesOf(a))
  <2>1. PICK S : AppQueries[a] \in Seq(S)
    BY <1>2
  <2>2. \A i \in 1 .. Len(AppQueries[a]) : AppQueries[a][i] \in QueriesOf(a)
    BY <2>1, LenProperties DEF QueriesOf, ToSet
  <2>3. QED
    BY <2>1, <2>2, SeqDef
<1>4. Differ(AppQueries[a])
  <2> HIDE DEF Differ
  <2>1. QED
    BY <1>1 DEF Apps
<1> QED
  BY <1>3, <1>4 DEF Prints, MemberOf

\* Every query has a number for its id and asks for data there is.
LEMMA QueryFields ==
  ASSUME NEW a \in Apps, NEW q \in QueriesOf(a)
  PROVE  q.req_id \in Nat /\ q.data_id \in DataIds
<1>1. AppQueries[a] \in Seq(QueriesOf(a))
  BY QueriesDiffer
<1>2. DOMAIN AppQueries[a] = 1 .. Len(AppQueries[a])
  BY <1>1, LenProperties
<1>3. PICK i \in 1 .. Len(AppQueries[a]) : q = AppQueries[a][i]
  BY <1>2 DEF QueriesOf, ToSet
<1> QED
  BY <1>3, QueriesDiffer

\* A request id stands for one query of the application.
LEMMA QueryIds ==
  ASSUME NEW a \in Apps
  PROVE  \A p, q \in QueriesOf(a) : p.req_id = q.req_id => p = q
<1>1. AppQueries[a] \in Seq(QueriesOf(a))
  BY QueriesDiffer
<1>2. DOMAIN AppQueries[a] = 1 .. Len(AppQueries[a])
  BY <1>1, LenProperties
<1>3. SUFFICES ASSUME NEW p \in QueriesOf(a), NEW q \in QueriesOf(a), p.req_id = q.req_id
               PROVE  p = q
  OBVIOUS
<1>4. PICK i \in 1 .. Len(AppQueries[a]) : p = AppQueries[a][i]
  BY <1>2 DEF QueriesOf, ToSet
<1>5. PICK j \in 1 .. Len(AppQueries[a]) : q = AppQueries[a][j]
  BY <1>2 DEF QueriesOf, ToSet
<1>6. i = j
  BY <1>3, <1>4, <1>5, QueriesDiffer
<1> QED
  BY <1>4, <1>5, <1>6

\* Where the calls of a program are, and which are of what kind.
LEMMA ProgramCalls ==
  ASSUME NEW a \in Apps
  PROVE  /\ Program[a] \in Seq(Calls(a))
         /\ \A k \in 1 .. Len(Program[a]) :
              IsAsk(Program[a][k]) =>
                /\ Program[a][k].type = IF a \in Askers THEN "request" ELSE "register"
                /\ k - 1 \in 1 .. Len(AppQueries[a])
                /\ Program[a][k].query = AppQueries[a][k - 1]
<1> DEFINE qs       == AppQueries[a]
           Send(ty) == [k \in DOMAIN qs |-> [call |-> "write", type |-> ty, query |-> qs[k]]]
           ask      == IF a \in Askers THEN "request" ELSE "register"
           m        == NrReads(a)
           A == <<[call |-> "connect"]>>
           B == Send(ask)
           R == [k \in 1 .. m |-> [call |-> "read"]]
           U == IF a \in Askers THEN << >> ELSE Send("unregister")
           C == <<[call |-> "close"]>>
           n == Len(qs)
<1>1. Program[a] = A \o B \o R \o U \o C
  BY DEF Program, Askers
<1>2. qs \in Seq(QueriesOf(a)) /\ n \in Nat /\ DOMAIN qs = 1 .. n
      /\ \A k \in 1 .. n : qs[k] \in QueriesOf(a)
  BY QueriesDiffer, LenProperties, ElementOfSeq
<1>3. m \in Nat
  BY ReadsAssumption DEF NrReads, AllReads, Apps
<1> HIDE DEF qs, m
<1>4. A \in Seq(Calls(a)) /\ Len(A) = 1 /\ A[1].call = "connect"
  BY DEF Calls
<1>5. C \in Seq(Calls(a)) /\ Len(C) = 1 /\ C[1].call = "close"
  BY DEF Calls
<1>6. ASSUME NEW ty \in {"request", "register", "unregister"}
      PROVE  /\ Send(ty) \in Seq(Calls(a)) /\ Len(Send(ty)) = n
             /\ \A k \in 1 .. n : /\ Send(ty)[k].type = ty
                                  /\ Send(ty)[k].query = qs[k]
  BY <1>2 DEF Calls
<1>7. /\ R \in Seq(Calls(a)) /\ Len(R) = m
      /\ \A k \in 1 .. m : R[k].call = "read"
  BY <1>3 DEF Calls
<1>8. /\ B \in Seq(Calls(a)) /\ Len(B) = n
      /\ \A k \in 1 .. n : B[k].type = ask /\ B[k].query = qs[k]
  BY <1>6
<1>9. /\ U \in Seq(Calls(a)) /\ Len(U) \in Nat
      /\ \A k \in 1 .. Len(U) : U[k].type = "unregister"
  BY <1>2, <1>6, EmptySeq
<1> HIDE DEF A, B, R, U, C, Send, n
<1>10. /\ A \o B \in Seq(Calls(a)) /\ Len(A \o B) = 1 + n
       /\ \A k \in 1 .. 1 + n : (A \o B)[k] = IF k <= 1 THEN A[k] ELSE B[k - 1]
  <2>1. /\ A \o B \in Seq(Calls(a)) /\ Len(A \o B) = Len(A) + Len(B)
        /\ \A k \in 1 .. Len(A) + Len(B) :
             (A \o B)[k] = IF k <= Len(A) THEN A[k] ELSE B[k - Len(A)]
    <3>1. A \in Seq(Calls(a)) /\ B \in Seq(Calls(a))
      BY <1>4, <1>8
    <3>2. QED
      BY <3>1, ConcatProperties
  <2>2. Len(A) = 1 /\ Len(B) = n
    BY <1>4, <1>8
  <2>3. QED
    BY <2>1, <2>2
<1> DEFINE AB == A \o B
           ABR == AB \o R
           ABRU == ABR \o U
           P == ABRU \o C
<1>11. Program[a] = P
  BY <1>1
<1> HIDE DEF AB
<1>12. /\ ABR \in Seq(Calls(a)) /\ Len(ABR) = Len(AB) + Len(R)
       /\ \A k \in 1 .. Len(AB) + Len(R) :
            ABR[k] = IF k <= Len(AB) THEN AB[k] ELSE R[k - Len(AB)]
  <2>1. AB \in Seq(Calls(a)) /\ R \in Seq(Calls(a))
    BY <1>7, <1>10 DEF AB
  <2>2. QED
    BY <2>1, ConcatProperties
<1> HIDE DEF ABR
<1>13. /\ ABRU \in Seq(Calls(a)) /\ Len(ABRU) = Len(ABR) + Len(U)
       /\ \A k \in 1 .. Len(ABR) + Len(U) :
            ABRU[k] = IF k <= Len(ABR) THEN ABR[k] ELSE U[k - Len(ABR)]
  <2>1. ABR \in Seq(Calls(a)) /\ U \in Seq(Calls(a))
    BY <1>9, <1>12
  <2>2. QED
    BY <2>1, ConcatProperties
<1> HIDE DEF ABRU
<1>14. /\ P \in Seq(Calls(a)) /\ Len(P) = Len(ABRU) + Len(C)
       /\ \A k \in 1 .. Len(ABRU) + Len(C) :
            P[k] = IF k <= Len(ABRU) THEN ABRU[k] ELSE C[k - Len(ABRU)]
  <2>1. ABRU \in Seq(Calls(a)) /\ C \in Seq(Calls(a))
    BY <1>5, <1>13
  <2>2. QED
    BY <2>1, ConcatProperties
<1> HIDE DEF P
<1>15. /\ Len(AB) = 1 + n /\ Len(ABR) = 1 + n + m /\ Len(ABRU) = 1 + n + m + Len(U)
       /\ Len(P) = 1 + n + m + Len(U) + 1 /\ n \in Nat /\ Len(U) \in Nat
       /\ Len(R) = m /\ Len(C) = 1
  BY <1>2, <1>3, <1>5, <1>7, <1>9, <1>10, <1>12, <1>13, <1>14 DEF AB, n
<1>16. ASSUME NEW k \in 1 .. Len(P), IsAsk(P[k])
       PROVE  k - 1 \in 1 .. n /\ P[k] = B[k - 1]
  <2> USE <1>3, <1>15
  <2>1. P[k].call = "write" /\ P[k].type # "unregister"
    BY <1>16 DEF IsAsk
  <2>2. k <= Len(ABRU)
    <3> SUFFICES ASSUME k > Len(ABRU) PROVE FALSE
      OBVIOUS
    <3> DEFINE m1 == Len(ABRU)
    <3>1. k \in 1 .. m1 + 1 /\ k > m1 /\ m1 \in Nat
      OBVIOUS
    <3> HIDE DEF m1
    <3>2. k - m1 = 1 /\ ~(k <= m1)
      BY <3>1
    <3>3. k - Len(ABRU) = 1 /\ k \in 1 .. Len(ABRU) + Len(C) /\ ~(k <= Len(ABRU))
      BY <3>1, <3>2 DEF m1
    <3>4. P[k] = C[1]
      BY <1>14, <3>3
    <3>5. QED
      BY <1>5, <2>1, <3>4
  <2>3. P[k] = ABRU[k]
    BY <1>14, <2>2
  <2>4. k <= Len(ABR)
    <3> SUFFICES ASSUME k > Len(ABR) PROVE FALSE
      OBVIOUS
    <3>1. /\ k - Len(ABR) \in 1 .. Len(U) /\ k \in 1 .. Len(ABR) + Len(U)
          /\ ~(k <= Len(ABR))
      BY <2>2
    <3>2. ABRU[k] = U[k - Len(ABR)]
      BY <1>13, <3>1
    <3>3. QED
      BY <1>9, <2>1, <2>3, <3>1, <3>2
  <2>5. ABRU[k] = ABR[k]
    BY <1>13, <2>2, <2>4
  <2>6. k <= Len(AB)
    <3> SUFFICES ASSUME k > Len(AB) PROVE FALSE
      OBVIOUS
    <3>1. /\ k - Len(AB) \in 1 .. m /\ k \in 1 .. Len(AB) + Len(R)
          /\ ~(k <= Len(AB))
      BY <2>4
    <3>2. ABR[k] = R[k - Len(AB)]
      BY <1>12, <3>1
    <3>3. QED
      BY <1>7, <2>1, <2>3, <2>5, <3>1, <3>2
  <2>7. ABR[k] = AB[k]
    BY <1>12, <2>4, <2>6
  <2>8. k > 1
    <3> SUFFICES ASSUME k = 1 PROVE FALSE
      OBVIOUS
    <3>1. AB[1] = A[1]
      BY <1>10 DEF AB
    <3>2. QED
      BY <1>4, <2>1, <2>3, <2>5, <2>7, <3>1
  <2>9. k - 1 \in 1 .. n /\ k \in 1 .. 1 + n /\ ~(k <= 1)
    BY <2>6, <2>8
  <2>10. AB[k] = B[k - 1]
    BY <1>10, <2>9 DEF AB
  <2> QED
    BY <2>3, <2>5, <2>7, <2>9, <2>10
<1>17. ASSUME NEW k \in 1 .. Len(P), IsAsk(P[k])
       PROVE  /\ P[k].type = ask
              /\ k - 1 \in 1 .. Len(qs)
              /\ P[k].query = qs[k - 1]
  BY <1>8, <1>16, <1>17 DEF n
<1> QED
  BY <1>11, <1>14, <1>17 DEF qs

\* A program asks each of its queries once.
LEMMA AsksOnce ==
  ASSUME NEW a \in Apps, NEW k \in 1 .. Len(Program[a]), NEW l \in 1 .. Len(Program[a]),
         IsAsk(Program[a][k]), IsAsk(Program[a][l]),
         Program[a][k].query = Program[a][l].query
  PROVE  k = l
<1>1. /\ k - 1 \in 1 .. Len(AppQueries[a]) /\ l - 1 \in 1 .. Len(AppQueries[a])
      /\ AppQueries[a][k - 1] = AppQueries[a][l - 1]
  BY ProgramCalls
<1>2. k - 1 = l - 1
  BY <1>1, QueriesDiffer
<1> QED
  BY <1>1, <1>2

-----------------------------------------------------------------------------
(* The data *)

\* What is pending is newer than what is being elaborated, and this is newer
\* than what the daemon holds; nothing is newer than what was received.
DataInv ==
  /\ init_pc \in Nat \ {0}
  /\ init_pc = 1 => received = 0
  /\ received \in Numbers
  /\ fields \in [Locations -> Numbers]
  /\ \A l \in Locations : fields[l] <= received
  /\ todo # << >> => /\ current \in Packets
                     /\ current.payload <= received
                     /\ \A l \in Locations : fields[l] <= current.payload
  /\ pending \in Seq(Packets)
  /\ \A i \in DOMAIN pending :
       /\ pending[i].payload <= received
       /\ todo # << >> => current.payload <= pending[i].payload
       /\ \A l \in Locations : fields[l] <= pending[i].payload
       /\ \A j \in DOMAIN pending : i < j => pending[i].payload <= pending[j].payload

FieldsNewer == \A l \in Locations : fields[l] <= fields'[l]

\* The packets of the generator are numbered.
LEMMA PacketNumbers == \A p \in Packets : p.payload \in Numbers
<1> TAKE p \in Packets
<1>1. PICK i \in 0 .. NUM_PACKETS - 1 : p = net_packet(i)
  BY ServiceAssumption DEF net_packets
<1>2. net_packet(i).payload = i + 1
  BY DEF net_packet
<1> QED
  BY <1>1, <1>2 DEF NUM_PACKETS, Numbers

\* Fields that stay are not older.
LEMMA SameIsNewer ==
  ASSUME fields \in [Locations -> Numbers], UNCHANGED fields
  PROVE  FieldsNewer
  BY DEF FieldsNewer, Numbers

\* The data starts at zero, older than any packet.
LEMMA DataInitInv == Init => DataInv
<1> SUFFICES ASSUME Init PROVE DataInv
  OBVIOUS
<1>1. pending = << >> /\ pending \in Seq(Packets) /\ DOMAIN pending = {}
  BY EmptySeq DEF Init
<1> QED
  BY <1>1 DEF Init, DataInv, Numbers, NUM_PACKETS

\* When the data is marked invalid, nothing was received yet, and it is all zero.
LEMMA MainKeepsFields ==
  ASSUME DataInv, Main
  PROVE  fields' = fields
<1>1. /\ fields \in [Locations -> Numbers] /\ received \in Numbers
      /\ \A l \in Locations : fields[l] <= received
  BY DEF DataInv
<1>2. CASE init_pc = 1
  <2>1. \A l \in Locations : fields[l] = 0
    BY <1>1, <1>2 DEF DataInv, Numbers
  <2>2. fields' \in [Locations -> Numbers] /\ \A l \in Locations : fields'[l] = 0
    BY <1>1, <1>2, <2>1 DEF Main, StartUp, Numbers, NUM_PACKETS
  <2>3. QED
    BY <1>1, <2>1, <2>2
<1>3. CASE init_pc # 1
  <2>1. init_pc \in Nat \ {0} /\ init_pc <= 6
    BY DEF Main, DataInv, StartUp
  <2>2. QED
    BY <1>3, <2>1 DEF Main, StartUp
<1> QED
  BY <1>2, <1>3

\* Starting the threads changes no data.
LEMMA MainData ==
  ASSUME DataInv, Main
  PROVE  DataInv' /\ FieldsNewer
<1>1. /\ init_pc \in Nat \ {0} /\ init_pc' = init_pc + 1 /\ init_pc <= 6
      /\ UNCHANGED <<pending, received, current, todo>>
  BY DEF Main, DataInv, StartUp
<1>2. fields' = fields /\ fields \in [Locations -> Numbers]
  BY MainKeepsFields DEF DataInv
<1>3. FieldsNewer
  BY <1>2 DEF FieldsNewer, Numbers
<1>4. DataInv'
  BY <1>1, <1>2 DEF DataInv
<1> QED
  BY <1>3, <1>4

\* A packet that is received is newer than all that were.
LEMMA ReceiveData ==
  ASSUME DataInv, NEW p \in Packets, Receive(p), UNCHANGED init_pc
  PROVE  DataInv' /\ FieldsNewer
<1>0. Numbers \subseteq Int
  BY DEF Numbers
<1>1. /\ p.payload > received /\ pending' = Append(pending, p) /\ received' = p.payload
      /\ UNCHANGED <<current, todo, fields>>
  BY DEF Receive
<1>2. /\ pending \in Seq(Packets) /\ received \in Int /\ p.payload \in Numbers
      /\ fields \in [Locations -> Numbers]
      /\ \A l \in Locations : fields[l] <= received /\ fields[l] \in Int
      /\ todo # << >> => current.payload <= received /\ current.payload \in Int
  <2>1. /\ pending \in Seq(Packets) /\ received \in Numbers /\ p.payload \in Numbers
        /\ fields \in [Locations -> Numbers]
    BY PacketNumbers DEF DataInv
  <2>2. \A l \in Locations : fields[l] <= received /\ fields[l] \in Int
    BY <1>0, <2>1 DEF DataInv
  <2>3. todo # << >> => current.payload <= received /\ current.payload \in Int
    BY <1>0, PacketNumbers DEF DataInv
  <2>4. QED
    BY <1>0, <2>1, <2>2, <2>3
<1> DEFINE new == p.payload
<1>2a. /\ new \in Int /\ \A l \in Locations : fields[l] <= new
       /\ todo # << >> => current.payload <= new
       /\ \A i \in DOMAIN pending : pending[i].payload <= new
  <2>1. new \in Int /\ new > received
    BY <1>0, <1>1, <1>2
  <2> HIDE DEF new
  <2>2. \A i \in DOMAIN pending : pending[i].payload \in Int /\ pending[i].payload <= received
    <3>1. \A i \in DOMAIN pending : pending[i] \in Packets
      BY <1>2, LenProperties, ElementOfSeq
    <3>2. QED
      BY <1>0, <3>1, PacketNumbers DEF DataInv
  <2>3. ASSUME NEW l \in Locations PROVE fields[l] <= new
    BY <1>2, <2>1
  <2>4. ASSUME todo # << >> PROVE current.payload <= new
    BY <1>2, <2>1, <2>4
  <2>5. ASSUME NEW i \in DOMAIN pending PROVE pending[i].payload <= new
    BY <1>2, <2>1, <2>2
  <2>6. QED
    BY <2>1, <2>3, <2>4, <2>5
<1>3. /\ pending' \in Seq(Packets) /\ Len(pending) \in Nat
      /\ DOMAIN pending = 1 .. Len(pending) /\ DOMAIN pending' = 1 .. Len(pending) + 1
      /\ pending'[Len(pending) + 1] = p
      /\ \A i \in 1 .. Len(pending) : pending'[i] = pending[i]
  BY <1>1, <1>2, AppendProperties, LenProperties
<1>4. \A i \in 1 .. Len(pending) : pending[i].payload \in Numbers
  BY <1>2, PacketNumbers, ElementOfSeq
<1> HIDE DEF new
<1>5. /\ received' = new /\ pending'[Len(pending) + 1].payload = new
      /\ UNCHANGED <<current, todo, fields>>
  BY <1>1, <1>3 DEF new
<1>6. ASSUME NEW i \in DOMAIN pending'
      PROVE  /\ pending'[i].payload <= received'
             /\ todo' # << >> => current'.payload <= pending'[i].payload
             /\ \A l \in Locations : fields'[l] <= pending'[i].payload
             /\ \A j \in DOMAIN pending' : i < j => pending'[i].payload <= pending'[j].payload
  <2>1. CASE i = Len(pending) + 1
    <3>1. pending'[i].payload = new /\ \A j \in DOMAIN pending' : ~(i < j)
      BY <1>3, <1>5, <2>1
    <3>2. QED
      BY <1>5, <1>2a, <3>1
  <2>2. CASE i # Len(pending) + 1
    <3>1. i \in DOMAIN pending /\ pending'[i] = pending[i]
      BY <1>3, <2>2
    <3>2. /\ todo # << >> => current.payload <= pending[i].payload
          /\ \A l \in Locations : fields[l] <= pending[i].payload
          /\ \A j \in DOMAIN pending : i < j => pending[i].payload <= pending[j].payload
      BY <3>1 DEF DataInv
    <3>3. ASSUME NEW j \in DOMAIN pending', i < j
          PROVE  pending'[i].payload <= pending'[j].payload
      <4>1. CASE j = Len(pending) + 1
        BY <1>5, <1>2a, <3>1, <4>1
      <4>2. CASE j # Len(pending) + 1
        <5>1. j \in DOMAIN pending /\ pending'[j] = pending[j]
          BY <1>3, <4>2
        <5>2. QED
          BY <3>1, <3>2, <3>3, <5>1
      <4>3. QED
        BY <4>1, <4>2
    <3>4. pending'[i].payload <= received'
      BY <1>5, <1>2a, <3>1
    <3>5. QED
      BY <1>5, <3>1, <3>2, <3>3, <3>4
  <2>3. QED
    BY <2>1, <2>2
<1>7. init_pc # 1
  BY DEF Receive, Started, DataInv
<1>8. todo' # << >> => /\ current' \in Packets /\ current'.payload <= received'
                       /\ \A l \in Locations : fields'[l] <= current'.payload
  BY <1>5, <1>2a DEF DataInv
<1>9. \A l \in Locations : fields'[l] <= received'
  BY <1>5, <1>2a
<1>10. received' \in Numbers /\ fields' \in [Locations -> Numbers] /\ init_pc' \in Nat \ {0}
       /\ init_pc' # 1
  BY <1>1, <1>2, <1>7 DEF DataInv
<1>11. DataInv'
  BY <1>3, <1>6, <1>8, <1>9, <1>10 DEF DataInv
<1>12. FieldsNewer
  BY <1>2, <1>5, SameIsNewer
<1> QED
  BY <1>11, <1>12

\* The packet that is taken is the oldest that is pending.
LEMMA TakeData ==
  ASSUME DataInv, Take, UNCHANGED init_pc
  PROVE  DataInv' /\ FieldsNewer
<1> USE DEF Numbers, NUM_PACKETS
<1>1. /\ pending # << >> /\ current' = Head(pending) /\ pending' = Tail(pending)
      /\ UNCHANGED <<received, fields>>
  BY DEF Take
<1>2. /\ pending \in Seq(Packets) /\ received \in Numbers
      /\ fields \in [Locations -> Numbers]
      /\ \A l \in Locations : fields[l] <= received
  BY DEF DataInv
<1>3. /\ Len(pending) \in Nat \ {0} /\ DOMAIN pending = 1 .. Len(pending)
      /\ pending' \in Seq(Packets) /\ DOMAIN pending' = 1 .. Len(pending) - 1
      /\ current' = pending[1] /\ current' \in Packets
      /\ \A i \in 1 .. Len(pending) - 1 : pending'[i] = pending[i + 1]
  BY <1>1, <1>2, HeadTailProperties, LenProperties, EmptySeq, ElementOfSeq
<1>4. \A i \in 1 .. Len(pending) :
        /\ pending[i].payload <= received
        /\ \A l \in Locations : fields[l] <= pending[i].payload
        /\ \A j \in 1 .. Len(pending) : i < j => pending[i].payload <= pending[j].payload
  BY <1>3 DEF DataInv
<1>5. ASSUME NEW i \in DOMAIN pending'
      PROVE  /\ pending'[i].payload <= received'
             /\ current'.payload <= pending'[i].payload
             /\ \A l \in Locations : fields'[l] <= pending'[i].payload
             /\ \A j \in DOMAIN pending' : i < j => pending'[i].payload <= pending'[j].payload
  <2>1. /\ i \in Nat /\ i + 1 \in 1 .. Len(pending) /\ 1 \in 1 .. Len(pending)
        /\ 1 < i + 1 /\ pending'[i] = pending[i + 1]
    BY <1>3
  <2>2. ASSUME NEW j \in DOMAIN pending', i < j
        PROVE  pending'[i].payload <= pending'[j].payload
    <3>1. j + 1 \in 1 .. Len(pending) /\ i + 1 < j + 1 /\ pending'[j] = pending[j + 1]
      BY <1>3, <2>1, <2>2
    <3>2. QED
      BY <1>4, <2>1, <3>1
  <2>3. current'.payload <= pending'[i].payload
    BY <1>3, <1>4, <2>1
  <2>4. QED
    BY <1>1, <1>4, <2>1, <2>2, <2>3
<1>6. current'.payload <= received' /\ \A l \in Locations : fields'[l] <= current'.payload
  <2>1. 1 \in 1 .. Len(pending)
    BY <1>3
  <2>2. QED
    BY <1>1, <1>3, <1>4, <2>1
<1>7. DataInv'
  BY <1>1, <1>2, <1>3, <1>5, <1>6 DEF DataInv
<1>8. FieldsNewer
  BY <1>1, <1>2, SameIsNewer
<1> QED
  BY <1>7, <1>8

\* A field gets the number of a packet that is not older than any field.
LEMMA AssignData ==
  ASSUME DataInv, Assign, UNCHANGED init_pc
  PROVE  DataInv' /\ FieldsNewer
<1> USE DEF Numbers, NUM_PACKETS
<1>1. todo # << >> /\ UNCHANGED <<pending, received, current>>
  BY DEF Assign
<1>2. PICK written :
        fields' = [l \in Locations |-> IF l \in written THEN current.payload ELSE fields[l]]
  BY DEF Assign
<1>3. /\ fields \in [Locations -> Numbers] /\ received \in Numbers
      /\ current \in Packets /\ current.payload \in Numbers /\ current.payload <= received
      /\ \A l \in Locations : fields[l] <= current.payload
  BY <1>1, PacketNumbers DEF DataInv
<1>4. /\ fields' \in [Locations -> Numbers]
      /\ \A l \in Locations : fields'[l] <= current.payload
      /\ \A l \in Locations : fields[l] <= fields'[l]
  BY <1>2, <1>3
<1>5. \A l \in Locations : fields'[l] <= received
  BY <1>3, <1>4
<1>6. ASSUME NEW i \in DOMAIN pending
      PROVE  /\ pending[i].payload \in Numbers /\ current.payload <= pending[i].payload
             /\ \A l \in Locations : fields'[l] <= pending[i].payload
  <2>1. pending[i] \in Packets
    BY LenProperties, ElementOfSeq DEF DataInv
  <2>2. pending[i].payload \in Numbers /\ current.payload <= pending[i].payload
    BY <1>1, <2>1, PacketNumbers DEF DataInv
  <2>3. QED
    BY <1>3, <1>4, <2>2
<1>7. DataInv'
  BY <1>1, <1>3, <1>4, <1>5, <1>6 DEF DataInv
<1> QED
  BY <1>4, <1>7 DEF FieldsNewer

-----------------------------------------------------------------------------
(* The traffic *)

Ids(a) == {q.req_id : q \in QueriesOf(a)}

\* A reply is for a query when the application takes it for one to it.
IsFor(rep, a, q) == rep.to = a /\ rep.req_id = q.req_id

Replies ==
  UNION {{[to |-> a, req_id |-> q.req_id, number |-> n, member |-> MemberOf(q.data_id)] :
            q \in QueriesOf(a), n \in Numbers} : a \in Launched}

\* The application is past the call that asks for the query.
Asked(a, q) ==
  \E k \in 1 .. Len(Program[a]) :
    k < pc[a] /\ IsAsk(Program[a][k]) /\ Program[a][k].query = q

AllCalls == UNION {Calls(a) : a \in Apps}
AllShown == UNION {[Ids(a) -> Numbers] : a \in Apps}

TrafficTypes ==
  /\ backlog \in Seq(Launched)
  /\ table \in [Fds -> Launched \cup {Free}]
  /\ answer \in [Threads -> [fd : Fds, reply : Replies] \cup {NoAnswer}]
  /\ pc \in [Apps -> Nat \ {0}]
  /\ toDaemon \in [Apps -> Seq(AllCalls)]
  /\ toApp \in [Apps -> Seq(Replies)]
  /\ reply \in [Apps -> Replies \cup {NoReply}]
  /\ shown \in [Apps -> AllShown]
  /\ \A a \in Apps : shown[a] \in [Ids(a) -> Numbers]

\* A message of an application is about one of its queries, and asks for it in
\* one way only.
Sent(a, m) ==
  /\ m.query \in QueriesOf(a)
  /\ m.type # "unregister" =>
       /\ Asked(a, m.query)
       /\ m.type = IF a \in Askers THEN "request" ELSE "register"

MessagesAsked ==
  \A a \in Launched : \A i \in 1 .. Len(toDaemon[a]) : Sent(a, toDaemon[a][i])

TasksAsked ==
  \A task \in schedule :
    /\ task.fd \in Fds
    /\ task.app \in Launched \ Askers
    /\ task.query \in QueriesOf(task.app)
    /\ Asked(task.app, task.query)

\* The replies to an application are written by one thread only.
OneThreadEach ==
  \A t \in Threads : answer[t] # NoAnswer =>
    (answer[t].reply.to \in Askers <=> t = "manager")

\* What the application knows, what it is going to read in turn, what is about
\* to be written and what the daemon holds is newer, or as new, in this order.
InTurn(a, q) ==
  /\ shown[a][q.req_id] <= fields[LocationOf(q)]
  /\ \A i \in 1 .. Len(toApp[a]) : IsFor(toApp[a][i], a, q) =>
       /\ Asked(a, q)
       /\ shown[a][q.req_id] <= toApp[a][i].number
       /\ toApp[a][i].number <= fields[LocationOf(q)]
       /\ \A j \in 1 .. Len(toApp[a]) :
            i < j /\ IsFor(toApp[a][j], a, q) => toApp[a][i].number <= toApp[a][j].number
  /\ \A t \in Threads : answer[t] # NoAnswer /\ IsFor(answer[t].reply, a, q) =>
       /\ Asked(a, q)
       /\ shown[a][q.req_id] <= answer[t].reply.number
       /\ answer[t].reply.number <= fields[LocationOf(q)]
       /\ \A i \in 1 .. Len(toApp[a]) :
            IsFor(toApp[a][i], a, q) => toApp[a][i].number <= answer[t].reply.number

RepliesInTurn == \A a \in Launched : \A q \in QueriesOf(a) : InTurn(a, q)

ServiceInv ==
  /\ DataInv
  /\ TrafficTypes
  /\ MessagesAsked
  /\ TasksAsked
  /\ OneThreadEach
  /\ RepliesInTurn

ShownNewer == \A a \in Apps : \A r \in DOMAIN shown[a] : shown'[a][r] >= shown[a][r]

\* Only applications are run, and none is taken for a free descriptor.
LEMMA LaunchedAreApps == Launched \subseteq Apps /\ Free \notin Launched
  BY ServiceAssumption DEF Launched, Apps, Free

\* Every query of an application that is run is for a field there is.
LEMMA QueriesHaveField ==
  ASSUME NEW a \in Launched, NEW q \in QueriesOf(a)
  PROVE  LocationOf(q) \in Locations /\ q.req_id \in Ids(a) /\ q.req_id \in Nat
<1>1. a \in Apps /\ q.engine_id \in Engines
  BY ServiceAssumption DEF Launched
<1>2. q.req_id \in Nat /\ q.data_id \in DataIds
  BY <1>1, QueryFields
<1> DEFINE case == serve_query_case[q.data_id]
           section == <<case[1], IF case[1] = "engine" THEN q.engine_id ELSE 0>>
<1>3. case[1] \in {"engine", "attitude", "speeds"} /\ case[2] \in FieldsOf(case[1])
  BY <1>2 DEF DataIds, serve_query_case, FieldsOf, EngineFields, AttitudeFields, SpeedsFields
<1> HIDE DEF case
<1>4. section \in Sections /\ section[1] = case[1]
  BY <1>1, <1>3 DEF Sections
<1>5. LocationOf(q) = FieldAt(section, case[2])
  BY DEF LocationOf, case
<1> HIDE DEF section
<1>6. LocationOf(q) \in Locations
  BY <1>3, <1>4, <1>5 DEF Locations
<1> QED
  BY <1>2, <1>6 DEF Ids

\* A reply answers a query of its application, with the member set for it.
LEMMA RepliesAre ==
  ASSUME NEW rep \in Replies
  PROVE  /\ rep.number \in Numbers
         /\ \E a \in Launched : \E q \in QueriesOf(a) :
              IsFor(rep, a, q) /\ rep.member = MemberOf(q.data_id)
  BY DEF Replies, IsFor

\* What is read for a query is what the daemon holds.
LEMMA AnswerIsReply ==
  ASSUME DataInv, NEW a \in Launched, NEW q \in QueriesOf(a), NEW fd \in Fds
  PROVE  /\ AnswerTo(a, fd, q) \in [fd : Fds, reply : Replies]
         /\ AnswerTo(a, fd, q).reply.to = a
         /\ AnswerTo(a, fd, q).reply.req_id = q.req_id
         /\ AnswerTo(a, fd, q).reply.number = fields[LocationOf(q)]
<1>1. fields[LocationOf(q)] \in Numbers
  BY QueriesHaveField DEF DataInv
<1> QED
  BY <1>1 DEF AnswerTo, Replies

\* The programs only go on.
LEMMA AskedStays ==
  ASSUME NEW a \in Apps, pc[a] \in Nat, pc'[a] \in Nat, pc'[a] >= pc[a], NEW q, Asked(a, q)
  PROVE  Asked(a, q)'
  BY DEF Asked

\* At first nothing is known, and nothing is on its way.
LEMMA TrafficInit == Init => ServiceInv
<1> SUFFICES ASSUME Init PROVE ServiceInv
  OBVIOUS
<1>1. DataInv
  BY DataInitInv
<1>2. /\ toApp = [a \in Apps |-> << >>] /\ toDaemon = [a \in Apps |-> << >>]
      /\ schedule = {} /\ answer = [t \in Threads |-> NoAnswer]
      /\ shown = [a \in Apps |-> [r \in Ids(a) |-> 0]]
      /\ backlog = << >> /\ table = [fd \in Fds |-> Free]
      /\ reply = [a \in Apps |-> NoReply]
      /\ fields = [l \in Locations |-> 0]
  BY DEF Init, Ids
<1>3. pc \in [Apps -> Nat \ {0}]
  <2>1. \A a \in Apps : Len(Program[a]) \in Nat
    BY ProgramCalls, LenProperties
  <2>2. QED
    BY <2>1 DEF Init
<1>4. \A a \in Apps : shown[a] \in [Ids(a) -> Numbers]
  BY <1>2 DEF Numbers, NUM_PACKETS
<1>5. TrafficTypes
  BY <1>2, <1>3, <1>4, EmptySeq DEF TrafficTypes, AllShown
<1>6. MessagesAsked /\ TasksAsked /\ OneThreadEach
  BY <1>2, LaunchedAreApps, EmptySeq DEF MessagesAsked, TasksAsked, OneThreadEach
<1>7. RepliesInTurn
  <2> SUFFICES ASSUME NEW a \in Launched, NEW q \in QueriesOf(a) PROVE InTurn(a, q)
    BY DEF RepliesInTurn
  <2>1. shown[a][q.req_id] = 0 /\ fields[LocationOf(q)] = 0 /\ toApp[a] = << >>
    BY <1>2, LaunchedAreApps, QueriesHaveField
  <2>2. QED
    BY <1>2, <2>1, EmptySeq DEF InTurn
<1> QED
  BY <1>1, <1>5, <1>6, <1>7 DEF ServiceInv

-----------------------------------------------------------------------------
(* The steps *)

\* What nobody knows does not get older.
LEMMA SameIsShown ==
  ASSUME ServiceInv, UNCHANGED shown
  PROVE  ShownNewer
<1>1. \A a \in Apps : shown[a] \in [Ids(a) -> Numbers]
  BY DEF ServiceInv, TrafficTypes
<1> QED
  BY <1>1 DEF ShownNewer, Numbers

\* New data only makes what is known or on its way older in comparison.
LEMMA DataStep ==
  ASSUME ServiceInv, DataInv', FieldsNewer, UNCHANGED <<servingVars, appVars>>
  PROVE  ServiceInv'
<1> USE DEF servingVars, appVars
<1>1. TrafficTypes'
  BY DEF ServiceInv, TrafficTypes
<1>2. MessagesAsked' /\ TasksAsked' /\ OneThreadEach'
  BY DEF ServiceInv, MessagesAsked, TasksAsked, OneThreadEach, Sent, Asked
<1>3. ASSUME NEW a \in Launched, NEW q \in QueriesOf(a)
      PROVE  InTurn(a, q)'
  <2> DEFINE l == LocationOf(q)
             r == q.req_id
  <2>1. /\ fields[l] \in Int /\ fields'[l] \in Int /\ fields[l] <= fields'[l]
        /\ shown[a][r] \in Int /\ a \in Apps
    BY QueriesHaveField, LaunchedAreApps
       DEF ServiceInv, DataInv, TrafficTypes, FieldsNewer, Numbers
  <2>2. InTurn(a, q)
    BY DEF ServiceInv, RepliesInTurn
  <2>3. \A i \in 1 .. Len(toApp[a]) : toApp[a][i].number \in Int
    BY <2>1, RepliesAre, ElementOfSeq DEF ServiceInv, TrafficTypes, Numbers
  <2>4. \A t \in Threads : answer[t] # NoAnswer => answer[t].reply.number \in Int
    BY RepliesAre DEF ServiceInv, TrafficTypes, Numbers
  <2> HIDE DEF l, r
  <2>5. /\ shown[a][r] <= fields'[l]
        /\ \A i \in 1 .. Len(toApp[a]) :
             toApp[a][i].number <= fields[l] => toApp[a][i].number <= fields'[l]
        /\ \A t \in Threads : answer[t] # NoAnswer =>
             (answer[t].reply.number <= fields[l] => answer[t].reply.number <= fields'[l])
    <3>1. shown[a][r] <= fields[l]
      BY <2>2 DEF InTurn, l, r
    <3>2. shown[a][r] <= fields'[l]
      BY <2>1, <3>1
    <3>3. QED
      BY <2>1, <2>3, <2>4, <3>2
  <2>6. QED
    BY <2>2, <2>5 DEF InTurn, Asked, IsFor, l, r
<1>4. RepliesInTurn'
  BY <1>3 DEF RepliesInTurn
<1> QED
  BY <1>1, <1>2, <1>4 DEF ServiceInv

\* The threads of the network write no replies and touch no application.
LEMMA NetworkSideStep ==
  ASSUME ServiceInv, NetworkSide \/ Main
  PROVE  ServiceInv' /\ ShownNewer
<1>1. CASE Main
  <2>1. DataInv' /\ FieldsNewer /\ UNCHANGED <<servingVars, appVars>>
    BY <1>1, MainData DEF ServiceInv, Main
  <2>2. QED
    BY <2>1, DataStep, SameIsShown DEF appVars
<1>2. CASE NetworkSide
  <2>1. DataInv' /\ FieldsNewer
    BY <1>2, ReceiveData, TakeData, AssignData DEF ServiceInv, NetworkSide
  <2>2. UNCHANGED <<servingVars, appVars>>
    BY <1>2 DEF NetworkSide
  <2>3. QED
    BY <2>1, <2>2, DataStep, SameIsShown DEF appVars
<1> QED
  BY <1>1, <1>2

\* What leaves the data alone keeps what it is.
LEMMA DataAside ==
  ASSUME ServiceInv, UNCHANGED <<init_pc, dataVars>>
  PROVE  DataInv' /\ UNCHANGED fields
  BY DEF ServiceInv, DataInv, dataVars

\* A reply joins those that its reader is going to read, behind the older ones.
LEMMA WriteReplyStep ==
  ASSUME ServiceInv, NEW t \in Threads, WriteReply(t), UNCHANGED <<init_pc, dataVars>>
  PROVE  ServiceInv' /\ ShownNewer
<1> DEFINE b   == table[answer[t].fd]
           rep == answer[t].reply
<1>1. /\ answer[t] # NoAnswer
      /\ answer' = [answer EXCEPT ![t] = NoAnswer]
      /\ UNCHANGED <<backlog, table, schedule, pc, toDaemon, reply, shown>>
      /\ \/ toApp' = toApp
         \/ b # Free /\ toApp' = [toApp EXCEPT ![b] = Append(@, rep)]
  BY DEF WriteReply, Reading
<1>2. DataInv' /\ fields' = fields
  BY DataAside
<1>3. /\ rep \in Replies /\ b \in Launched \cup {Free}
      /\ toApp \in [Apps -> Seq(Replies)]
  BY <1>1 DEF ServiceInv, TrafficTypes
<1> HIDE DEF b, rep
<1>4. toApp' \in [Apps -> Seq(Replies)]
  <2>1. CASE toApp' = toApp
    BY <1>3, <2>1
  <2>2. CASE b # Free /\ toApp' = [toApp EXCEPT ![b] = Append(@, rep)]
    <3>1. toApp[b] \in Seq(Replies)
      BY <1>3, <2>2, LaunchedAreApps
    <3>2. Append(toApp[b], rep) \in Seq(Replies)
      BY <1>3, <3>1, AppendProperties
    <3>3. QED
      BY <1>3, <2>2, <3>2
  <2>3. QED
    BY <1>1, <2>1, <2>2
<1>5. /\ answer' \in [Threads -> [fd : Fds, reply : Replies] \cup {NoAnswer}]
      /\ \A u \in Threads : answer'[u] # NoAnswer => u # t /\ answer'[u] = answer[u]
  BY <1>1 DEF ServiceInv, TrafficTypes
<1>6. TrafficTypes'
  BY <1>1, <1>4, <1>5 DEF ServiceInv, TrafficTypes
<1>7. MessagesAsked' /\ TasksAsked' /\ OneThreadEach'
  BY <1>1, <1>5 DEF ServiceInv, MessagesAsked, TasksAsked, OneThreadEach, Sent, Asked
<1>8. ASSUME NEW a \in Launched, NEW q \in QueriesOf(a)
      PROVE  InTurn(a, q)'
  <2>1. InTurn(a, q)
    BY DEF ServiceInv, RepliesInTurn
  <2>2. CASE toApp'[a] = toApp[a]
    BY <1>1, <1>2, <1>5, <2>1, <2>2 DEF InTurn, Asked, IsFor
  <2>3. CASE toApp'[a] = Append(toApp[a], rep)
    <3>1. /\ Len(toApp[a]) \in Nat /\ Len(toApp'[a]) = Len(toApp[a]) + 1
          /\ toApp'[a][Len(toApp[a]) + 1] = rep
          /\ \A i \in 1 .. Len(toApp[a]) : toApp'[a][i] = toApp[a][i]
      BY <1>3, <2>3, LaunchedAreApps, AppendProperties, LenProperties
    <3>2. \A u \in Threads : answer'[u] # NoAnswer /\ IsFor(answer'[u].reply, a, q) =>
            ~IsFor(rep, a, q)
      <4> SUFFICES ASSUME NEW u \in Threads, answer'[u] # NoAnswer,
                          answer'[u].reply.to = a, rep.to = a
                   PROVE  FALSE
        BY DEF IsFor
      <4>1. u # t /\ answer[u].reply.to = a /\ answer[u] # NoAnswer
        BY <1>5
      <4>2. answer[t].reply.to = a
        BY DEF rep
      <4>3. (u = "manager") <=> (t = "manager")
        BY <1>1, <4>1, <4>2 DEF ServiceInv, OneThreadEach
      <4>4. QED
        BY <4>1, <4>3 DEF Threads
    <3>3. ASSUME IsFor(rep, a, q)
          PROVE  /\ Asked(a, q) /\ shown[a][q.req_id] <= rep.number
                 /\ rep.number <= fields[LocationOf(q)]
                 /\ \A i \in 1 .. Len(toApp[a]) :
                      IsFor(toApp[a][i], a, q) => toApp[a][i].number <= rep.number
      BY <1>1, <2>1, <3>3 DEF InTurn, rep
    <3>4. ASSUME NEW i \in 1 .. Len(toApp'[a]), IsFor(toApp'[a][i], a, q)
          PROVE  /\ Asked(a, q)
                 /\ shown[a][q.req_id] <= toApp'[a][i].number
                 /\ toApp'[a][i].number <= fields[LocationOf(q)]
                 /\ \A j \in 1 .. Len(toApp'[a]) :
                      i < j /\ IsFor(toApp'[a][j], a, q) =>
                        toApp'[a][i].number <= toApp'[a][j].number
      <4>1. CASE i = Len(toApp[a]) + 1
        <5>1. toApp'[a][i] = rep /\ \A j \in 1 .. Len(toApp'[a]) : ~(i < j)
          BY <3>1, <4>1
        <5>2. QED
          BY <3>3, <3>4, <5>1
      <4>2. CASE i # Len(toApp[a]) + 1
        <5>1. i \in 1 .. Len(toApp[a]) /\ toApp'[a][i] = toApp[a][i]
          BY <3>1, <4>2
        <5>2. ASSUME NEW j \in 1 .. Len(toApp'[a]), i < j, IsFor(toApp'[a][j], a, q)
              PROVE  toApp'[a][i].number <= toApp'[a][j].number
          <6>1. CASE j = Len(toApp[a]) + 1
            BY <3>1, <3>3, <3>4, <5>1, <5>2, <6>1
          <6>2. CASE j # Len(toApp[a]) + 1
            <7>1. j \in 1 .. Len(toApp[a]) /\ toApp'[a][j] = toApp[a][j]
              BY <3>1, <6>2
            <7>2. QED
              BY <2>1, <3>4, <5>1, <5>2, <7>1 DEF InTurn
          <6>3. QED
            BY <6>1, <6>2
        <5>3. QED
          BY <2>1, <3>4, <5>1, <5>2 DEF InTurn
      <4>3. QED
        BY <4>1, <4>2
    <3>5. ASSUME NEW u \in Threads, answer'[u] # NoAnswer, IsFor(answer'[u].reply, a, q)
          PROVE  /\ Asked(a, q)
                 /\ shown[a][q.req_id] <= answer'[u].reply.number
                 /\ answer'[u].reply.number <= fields[LocationOf(q)]
                 /\ \A i \in 1 .. Len(toApp'[a]) :
                      IsFor(toApp'[a][i], a, q) => toApp'[a][i].number <= answer'[u].reply.number
      <4>1. answer'[u] = answer[u]
        BY <1>5, <3>5
      <4>2. ASSUME NEW i \in 1 .. Len(toApp'[a]), IsFor(toApp'[a][i], a, q)
            PROVE  i \in 1 .. Len(toApp[a]) /\ toApp'[a][i] = toApp[a][i]
        BY <3>1, <3>2, <3>5, <4>2
      <4>3. QED
        BY <2>1, <3>5, <4>1, <4>2 DEF InTurn
    <3>6. shown[a][q.req_id] <= fields[LocationOf(q)]
      BY <2>1 DEF InTurn
    <3>7. Asked(a, q)' <=> Asked(a, q)
      BY <1>1 DEF Asked
    <3>8. QED
      BY <1>1, <1>2, <3>4, <3>5, <3>6, <3>7 DEF InTurn, IsFor
  <2>4. toApp'[a] = toApp[a] \/ toApp'[a] = Append(toApp[a], rep)
    BY <1>1, <1>3, LaunchedAreApps
  <2>5. QED
    BY <2>2, <2>3, <2>4
<1>9. RepliesInTurn'
  BY <1>8 DEF RepliesInTurn
<1> QED
  BY <1>1, <1>2, <1>6, <1>7, <1>9, SameIsShown DEF ServiceInv

\* An answer is read from the data when it is given to a thread that has none,
\* so that it is as new as anything that was read for the query.
LEMMA AnswerStep ==
  ASSUME ServiceInv, NEW t \in Threads, NEW b \in Launched, NEW p \in QueriesOf(b),
         NEW fd \in Fds, Asked(b, p), b \in Askers <=> t = "manager",
         answer' = [answer EXCEPT ![t] = AnswerTo(b, fd, p)],
         UNCHANGED <<fields, pc, toApp, shown>>
  PROVE  /\ answer' \in [Threads -> [fd : Fds, reply : Replies] \cup {NoAnswer}]
         /\ OneThreadEach'
         /\ RepliesInTurn'
<1> DEFINE new == AnswerTo(b, fd, p)
<1>1. /\ new \in [fd : Fds, reply : Replies]
      /\ new.reply.to = b /\ new.reply.req_id = p.req_id
      /\ new.reply.number = fields[LocationOf(p)]
  BY AnswerIsReply DEF ServiceInv
<1> HIDE DEF new
<1>2. /\ answer' \in [Threads -> [fd : Fds, reply : Replies] \cup {NoAnswer}]
      /\ \A u \in Threads : answer'[u] = IF u = t THEN new ELSE answer[u]
  BY <1>1 DEF ServiceInv, TrafficTypes, new
<1>3. OneThreadEach'
  BY <1>1, <1>2 DEF ServiceInv, OneThreadEach
<1>4. ASSUME NEW a \in Launched, NEW q \in QueriesOf(a)
      PROVE  InTurn(a, q)'
  <2>1. InTurn(a, q)
    BY DEF ServiceInv, RepliesInTurn
  <2>2. ASSUME IsFor(new.reply, a, q)
        PROVE  /\ Asked(a, q) /\ new.reply.number = fields[LocationOf(q)]
               /\ new.reply.number <= fields[LocationOf(q)]
    <3>1. a = b /\ q = p
      BY <1>1, <2>2, QueryIds, LaunchedAreApps DEF IsFor
    <3>2. fields[LocationOf(q)] \in Int
      BY QueriesHaveField DEF ServiceInv, DataInv, Numbers
    <3>3. QED
      BY <1>1, <3>1, <3>2
  <2>3. ASSUME NEW u \in Threads, answer'[u] # NoAnswer, IsFor(answer'[u].reply, a, q)
        PROVE  /\ Asked(a, q)
               /\ shown[a][q.req_id] <= answer'[u].reply.number
               /\ answer'[u].reply.number <= fields[LocationOf(q)]
               /\ \A i \in 1 .. Len(toApp[a]) :
                    IsFor(toApp[a][i], a, q) => toApp[a][i].number <= answer'[u].reply.number
    <3>1. CASE u = t
      BY <1>2, <2>1, <2>2, <2>3, <3>1 DEF InTurn
    <3>2. CASE u # t
      BY <1>2, <2>1, <2>3, <3>2 DEF InTurn
    <3>3. QED
      BY <3>1, <3>2
  <2>4. Asked(a, q)' <=> Asked(a, q)
    BY DEF Asked
  <2>5. QED
    BY <2>1, <2>3, <2>4 DEF InTurn, IsFor
<1>5. RepliesInTurn'
  BY <1>4 DEF RepliesInTurn
<1> QED
  BY <1>2, <1>3, <1>5

\* Neither what is known nor what is on its way changes.
LEMMA RepliesAside ==
  ASSUME ServiceInv, UNCHANGED <<fields, answer, pc, toApp, shown>>
  PROVE  OneThreadEach' /\ RepliesInTurn'
  BY DEF ServiceInv, OneThreadEach, RepliesInTurn, InTurn, Asked, IsFor

\* accept() gives a descriptor to an application that connected.
LEMMA AcceptStep ==
  ASSUME ServiceInv, Accept, UNCHANGED <<init_pc, dataVars, pc, toApp, reply, shown>>
  PROVE  ServiceInv' /\ ShownNewer
<1>1. DataInv' /\ fields' = fields
  BY DataAside
<1>2. /\ backlog # << >> /\ backlog' = Tail(backlog)
      /\ \E newfd : table' = [table EXCEPT ![newfd] = Head(backlog)]
      /\ UNCHANGED <<schedule, answer, toDaemon>>
  BY DEF Accept
<1>3. backlog \in Seq(Launched) /\ table \in [Fds -> Launched \cup {Free}]
  BY DEF ServiceInv, TrafficTypes
<1>4. Head(backlog) \in Launched /\ backlog' \in Seq(Launched)
  BY <1>2, <1>3, HeadTailProperties
<1>5. table' \in [Fds -> Launched \cup {Free}]
  BY <1>2, <1>3, <1>4
<1>6. TrafficTypes'
  BY <1>2, <1>4, <1>5 DEF ServiceInv, TrafficTypes
<1>7. MessagesAsked' /\ TasksAsked'
  BY <1>2 DEF ServiceInv, MessagesAsked, TasksAsked, Sent, Asked
<1>8. OneThreadEach' /\ RepliesInTurn'
  BY <1>1, <1>2, RepliesAside
<1> QED
  BY <1>1, <1>6, <1>7, <1>8, SameIsShown DEF ServiceInv

\* What an application that ended leaves behind is forgotten.
LEMMA HangUpStep ==
  ASSUME ServiceInv, NEW fd \in Fds, HangUp(fd),
         UNCHANGED <<init_pc, dataVars, pc, toApp, reply, shown>>
  PROVE  ServiceInv' /\ ShownNewer
<1>1. DataInv' /\ fields' = fields
  BY DataAside
<1>2. /\ schedule' \subseteq schedule
      /\ table' = [table EXCEPT ![fd] = Free]
      /\ UNCHANGED <<backlog, answer, toDaemon>>
  BY DEF HangUp
<1>3. TrafficTypes'
  BY <1>2 DEF ServiceInv, TrafficTypes
<1>4. MessagesAsked' /\ TasksAsked'
  BY <1>2 DEF ServiceInv, MessagesAsked, TasksAsked, Sent, Asked
<1>5. OneThreadEach' /\ RepliesInTurn'
  BY <1>1, <1>2, RepliesAside
<1> QED
  BY <1>1, <1>3, <1>4, <1>5, SameIsShown DEF ServiceInv

\* A request is answered by the application manager; what is registered, and
\* so was asked for, is left to the scheduler.
LEMMA DispatchStep ==
  ASSUME ServiceInv, NEW fd \in Fds, Dispatch(fd),
         UNCHANGED <<init_pc, dataVars, pc, toApp, reply, shown>>
  PROVE  ServiceInv' /\ ShownNewer
<1> DEFINE a == table[fd]
           m == Head(toDaemon[a])
           task == [app |-> a, fd |-> fd, query |-> m.query]
<1>1. /\ a # Free /\ toDaemon[a] # << >>
      /\ toDaemon' = [toDaemon EXCEPT ![a] = Tail(@)]
      /\ UNCHANGED <<backlog, table>>
      /\ \/ /\ m.type = "request"
            /\ answer' = [answer EXCEPT !["manager"] = AnswerTo(a, fd, m.query)]
            /\ UNCHANGED schedule
         \/ /\ m.type = "register"
            /\ schedule' = schedule \cup {task}
            /\ UNCHANGED answer
         \/ /\ m.type = "unregister"
            /\ schedule' = {k \in schedule : k.fd # fd \/ k.query.req_id # m.query.req_id}
            /\ UNCHANGED answer
  BY DEF Dispatch
<1>2. DataInv' /\ fields' = fields
  BY DataAside
<1>3. a \in Launched /\ toDaemon \in [Apps -> Seq(AllCalls)] /\ a \in Apps
  BY <1>1, LaunchedAreApps DEF ServiceInv, TrafficTypes
<1> DEFINE ms == toDaemon[a]
<1>4. /\ Len(ms) \in Nat \ {0} /\ m = ms[1]
      /\ Tail(ms) \in Seq(AllCalls) /\ Len(Tail(ms)) = Len(ms) - 1
      /\ \A i \in 1 .. Len(ms) - 1 : Tail(ms)[i] = ms[i + 1]
  <2>1. ms \in Seq(AllCalls) /\ ms # << >>
    BY <1>1, <1>3
  <2> HIDE DEF ms
  <2>2. Len(ms) \in Nat \ {0}
    BY <2>1, LenProperties, EmptySeq
  <2>3. Head(ms) = ms[1]
    BY <2>1, <2>2
  <2>4. /\ Tail(ms) \in Seq(AllCalls) /\ Len(Tail(ms)) = Len(ms) - 1
        /\ \A i \in 1 .. Len(Tail(ms)) : Tail(ms)[i] = ms[i + 1]
    BY <2>1, HeadTailProperties
  <2>5. QED
    BY <2>2, <2>3, <2>4 DEF ms
<1>5. Sent(a, m)
  BY <1>3, <1>4 DEF ServiceInv, MessagesAsked
<1>6. /\ toDaemon' \in [Apps -> Seq(AllCalls)]
      /\ \A b \in Apps : toDaemon'[b] = IF b = a THEN Tail(ms) ELSE toDaemon[b]
  BY <1>1, <1>3, <1>4
<1> HIDE DEF a, m, ms
<1>7. MessagesAsked'
  <2> SUFFICES ASSUME NEW b \in Launched, NEW i \in 1 .. Len(toDaemon'[b])
               PROVE  Sent(b, toDaemon'[b][i])
    BY DEF MessagesAsked, Sent, Asked
  <2>1. CASE b = a
    <3>1. toDaemon'[b] = Tail(ms)
      BY <1>3, <1>6, <2>1
    <3>2. i \in 1 .. Len(ms) - 1 /\ i + 1 \in 1 .. Len(ms)
      BY <1>4, <3>1
    <3>3. toDaemon'[b][i] = ms[i + 1]
      BY <1>4, <3>1, <3>2
    <3>4. QED
      BY <2>1, <3>2, <3>3 DEF ServiceInv, MessagesAsked, ms
  <2>2. CASE b # a
    BY <1>6, <2>2, LaunchedAreApps DEF ServiceInv, MessagesAsked
  <2>3. QED
    BY <2>1, <2>2
<1>8. \A b, q : Asked(b, q)' <=> Asked(b, q)
  BY DEF Asked
<1>9. CASE /\ m.type = "request"
           /\ answer' = [answer EXCEPT !["manager"] = AnswerTo(a, fd, m.query)]
           /\ UNCHANGED schedule
  <2>1. a \in Askers /\ m.query \in QueriesOf(a) /\ Asked(a, m.query)
    BY <1>5, <1>9 DEF Sent
  <2>2. /\ answer' \in [Threads -> [fd : Fds, reply : Replies] \cup {NoAnswer}]
        /\ OneThreadEach' /\ RepliesInTurn'
    <3>1. "manager" \in Threads
      BY DEF Threads
    <3>2. QED
      BY <1>2, <1>3, <1>9, <2>1, <3>1, AnswerStep
  <2>3. TrafficTypes'
    BY <1>1, <1>6, <2>2 DEF ServiceInv, TrafficTypes
  <2>4. TasksAsked'
    BY <1>8, <1>9 DEF ServiceInv, TasksAsked
  <2>5. QED
    BY <1>2, <1>7, <2>2, <2>3, <2>4, SameIsShown DEF ServiceInv
<1>10. ASSUME UNCHANGED answer, TasksAsked'
       PROVE  ServiceInv' /\ ShownNewer
  <2>1. OneThreadEach' /\ RepliesInTurn'
    BY <1>2, <1>10, RepliesAside
  <2>2. TrafficTypes'
    BY <1>1, <1>6, <1>10 DEF ServiceInv, TrafficTypes
  <2>3. QED
    BY <1>2, <1>7, <1>10, <2>1, <2>2, SameIsShown DEF ServiceInv
<1>11. CASE /\ m.type = "register"
            /\ schedule' = schedule \cup {task}
            /\ UNCHANGED answer
  <2>1. a \in Launched \ Askers /\ m.query \in QueriesOf(a) /\ Asked(a, m.query)
    BY <1>3, <1>5, <1>11 DEF Sent
  <2>2. TasksAsked'
    BY <1>8, <1>11, <2>1 DEF ServiceInv, TasksAsked
  <2>3. QED
    BY <1>10, <1>11, <2>2
<1>12. CASE schedule' \subseteq schedule /\ UNCHANGED answer
  <2>1. TasksAsked'
    BY <1>8, <1>12 DEF ServiceInv, TasksAsked
  <2>2. QED
    BY <1>10, <1>12, <2>1
<1> QED
  BY <1>1, <1>9, <1>11, <1>12

\* A query that is due is answered by the scheduler thread.
LEMMA BeginStep ==
  ASSUME ServiceInv, NEW a \in Launched, NEW q \in QueriesOf(a), Begin(a, q)
  PROVE  ServiceInv' /\ ShownNewer
<1> USE DEF appVars
<1>1. PICK task \in schedule :
        /\ task.app = a /\ task.query = q
        /\ answer' = [answer EXCEPT !["scheduler"] = AnswerTo(a, task.fd, q)]
  BY DEF Begin
<1>2. UNCHANGED <<init_pc, dataVars, alive, backlog, table, schedule, appVars>>
  BY DEF Begin
<1>3. DataInv' /\ fields' = fields
  BY <1>2, DataAside
<1>4. task.fd \in Fds /\ a \notin Askers /\ Asked(a, q) /\ "scheduler" \in Threads
  BY <1>1 DEF ServiceInv, TasksAsked, Threads
<1>5. /\ answer' \in [Threads -> [fd : Fds, reply : Replies] \cup {NoAnswer}]
      /\ OneThreadEach' /\ RepliesInTurn'
  BY <1>1, <1>2, <1>3, <1>4, AnswerStep
<1>6. TrafficTypes'
  BY <1>2, <1>5 DEF ServiceInv, TrafficTypes
<1>7. MessagesAsked' /\ TasksAsked'
  BY <1>2 DEF ServiceInv, MessagesAsked, TasksAsked, Sent, Asked
<1> QED
  BY <1>2, <1>3, <1>5, <1>6, <1>7, SameIsShown DEF ServiceInv

-----------------------------------------------------------------------------
(* The applications *)

\* Whether it goes on or exits, an application is farther in its program.
LEMMA ProgramGoesOn ==
  ASSUME ServiceInv, NEW a \in Launched, ~Ended(a), Continue(a) \/ Exit(a)
  PROVE  /\ pc' \in [Apps -> Nat \ {0}]
         /\ pc[a] \in 1 .. Len(Program[a]) /\ pc'[a] > pc[a]
         /\ \A b \in Apps : \A q : Asked(b, q) => Asked(b, q)'
<1>1. a \in Apps /\ pc \in [Apps -> Nat \ {0}] /\ Len(Program[a]) \in Nat
  BY LaunchedAreApps, ProgramCalls, LenProperties DEF ServiceInv, TrafficTypes
<1>2. pc[a] \in 1 .. Len(Program[a])
  BY <1>1 DEF Ended
<1>3. PICK n \in Nat : n > pc[a] /\ pc' = [pc EXCEPT ![a] = n]
  <2>1. CASE Continue(a)
    <3>1. pc[a] + 1 \in Nat /\ pc[a] + 1 > pc[a]
      BY <1>1
    <3>2. QED
      BY <2>1, <3>1 DEF Continue
  <2>2. CASE Exit(a)
    <3>1. Len(Program[a]) + 1 \in Nat /\ Len(Program[a]) + 1 > pc[a]
      BY <1>1, <1>2
    <3>2. QED
      BY <2>2, <3>1 DEF Exit
  <2>3. QED
    BY <2>1, <2>2
<1>4. /\ pc' \in [Apps -> Nat \ {0}] /\ pc'[a] = n
      /\ \A b \in Apps : pc[b] \in Nat /\ pc'[b] \in Nat /\ pc'[b] >= pc[b]
  BY <1>1, <1>2, <1>3
<1>5. \A b \in Apps : \A q : Asked(b, q) => Asked(b, q)'
  BY <1>4, AskedStays
<1> QED
  BY <1>2, <1>3, <1>4, <1>5

\* An application that is farther changes nothing of what is on its way.
LEMMA QuietStep ==
  ASSUME ServiceInv, \A b \in Apps : \A q : Asked(b, q) => Asked(b, q)',
         UNCHANGED <<fields, schedule, answer>>
  PROVE  /\ TasksAsked' /\ OneThreadEach'
         /\ UNCHANGED toDaemon => MessagesAsked'
         /\ \A a \in Launched : \A q \in QueriesOf(a) :
              toApp'[a] = toApp[a] /\ shown'[a][q.req_id] = shown[a][q.req_id] => InTurn(a, q)'
<1>1. TasksAsked'
  BY LaunchedAreApps DEF ServiceInv, TasksAsked
<1>2. OneThreadEach'
  BY DEF ServiceInv, OneThreadEach
<1>3. UNCHANGED toDaemon => MessagesAsked'
  BY LaunchedAreApps DEF ServiceInv, MessagesAsked, Sent
<1>4. ASSUME NEW a \in Launched, NEW q \in QueriesOf(a), toApp'[a] = toApp[a],
             shown'[a][q.req_id] = shown[a][q.req_id]
      PROVE  InTurn(a, q)'
  BY <1>4, LaunchedAreApps DEF ServiceInv, RepliesInTurn, InTurn, IsFor
<1> QED
  BY <1>1, <1>2, <1>3, <1>4

\* Connecting, closing, and reading when nothing comes any more.
LEMMA PassStep ==
  ASSUME ServiceInv, NEW a \in Launched, ~Ended(a), Continue(a) \/ Exit(a),
         backlog' \in Seq(Launched), UNCHANGED <<init_pc, dataVars, table, schedule, answer>>,
         UNCHANGED <<toDaemon, toApp, reply, shown>>
  PROVE  ServiceInv' /\ ShownNewer
<1>1. DataInv' /\ fields' = fields
  BY DataAside
<1>2. pc' \in [Apps -> Nat \ {0}] /\ \A b \in Apps : \A q : Asked(b, q) => Asked(b, q)'
  BY ProgramGoesOn
<1>3. TrafficTypes'
  BY <1>2 DEF ServiceInv, TrafficTypes
<1>4. TasksAsked' /\ OneThreadEach' /\ MessagesAsked' /\ RepliesInTurn'
  BY <1>1, <1>2, QuietStep DEF RepliesInTurn
<1> QED
  BY <1>1, <1>3, <1>4, SameIsShown DEF ServiceInv

\* Connecting tells an application nothing.
LEMMA ConnectStep ==
  ASSUME ServiceInv, NEW a \in Launched, ~Ended(a), Connect(a),
         UNCHANGED <<init_pc, dataVars, table, schedule, answer>>
  PROVE  ServiceInv' /\ ShownNewer
<1>1. backlog \in Seq(Launched)
  BY DEF ServiceInv, TrafficTypes
<1>2. Append(backlog, a) \in Seq(Launched)
  BY <1>1, AppendProperties
<1>3. /\ Continue(a) \/ Exit(a)
      /\ backlog' \in Seq(Launched)
      /\ UNCHANGED <<toDaemon, toApp, reply, shown>>
  BY <1>1, <1>2 DEF Connect
<1> QED
  BY <1>3, PassStep

\* Nor does closing.
LEMMA CloseStep ==
  ASSUME ServiceInv, NEW a \in Launched, ~Ended(a), Close(a),
         UNCHANGED <<init_pc, dataVars, table, schedule, answer>>
  PROVE  ServiceInv' /\ ShownNewer
<1>1. Continue(a) /\ UNCHANGED <<backlog, toDaemon, toApp, reply, shown>>
  BY DEF Close
<1>2. backlog' \in Seq(Launched)
  BY <1>1 DEF ServiceInv, TrafficTypes
<1> QED
  BY <1>1, <1>2, PassStep

\* A query is asked for once, so that no reply to it is on its way, and from
\* now on none is older than what the daemon holds.
LEMMA WriteStep ==
  ASSUME ServiceInv, NEW a \in Launched, ~Ended(a), Write(a),
         UNCHANGED <<init_pc, dataVars, table, schedule, answer>>
  PROVE  ServiceInv' /\ ShownNewer
<1>0. PICK m : m = Call(a)
  OBVIOUS
<1> DEFINE p == m.query
           ask == m.type # "unregister"
<1>1. m.call = "write" /\ UNCHANGED <<backlog, toApp, reply>>
  BY <1>0 DEF Write
<1>2. DataInv' /\ fields' = fields
  BY DataAside
<1>3. CASE Exit(a) /\ UNCHANGED <<toDaemon, shown>>
  <2>1. backlog' \in Seq(Launched)
    BY <1>1 DEF ServiceInv, TrafficTypes
  <2>2. QED
    BY <1>1, <1>3, <2>1, PassStep
<1>4. CASE /\ Continue(a)
           /\ toDaemon' = [toDaemon EXCEPT ![a] = Append(@, m)]
           /\ shown' = IF ask THEN [shown EXCEPT ![a][p.req_id] = fields[LocationOf(p)]]
                       ELSE shown
  <2>1. /\ a \in Apps /\ pc' \in [Apps -> Nat \ {0}] /\ pc[a] \in 1 .. Len(Program[a])
        /\ pc'[a] > pc[a]
        /\ \A b \in Apps : \A q : Asked(b, q) => Asked(b, q)'
    BY <1>4, ProgramGoesOn, LaunchedAreApps
  <2>2. m \in Calls(a) /\ m = Program[a][pc[a]]
    BY <1>0, <2>1, ProgramCalls, ElementOfSeq DEF Call
  <2>3. p \in QueriesOf(a) /\ m \in AllCalls
    <3>1. m \in AllCalls
      BY <2>1, <2>2 DEF AllCalls
    <3>2. \A c \in Calls(a) : c.call = "write" => c.query \in QueriesOf(a)
      BY DEF Calls
    <3>3. QED
      BY <1>1, <2>2, <3>1, <3>2
  <2>4. ask => /\ IsAsk(m)
               /\ m.type = IF a \in Askers THEN "request" ELSE "register"
               /\ Asked(a, p)' /\ ~Asked(a, p)
    <3> SUFFICES ASSUME ask
                 PROVE  /\ IsAsk(m)
                        /\ m.type = IF a \in Askers THEN "request" ELSE "register"
                        /\ Asked(a, p)' /\ ~Asked(a, p)
      OBVIOUS
    <3>1. IsAsk(m)
      BY <1>1 DEF IsAsk
    <3>2. m.type = IF a \in Askers THEN "request" ELSE "register"
      BY <2>1, <2>2, <3>1, ProgramCalls
    <3>3. pc[a] < pc'[a] /\ Program[a][pc[a]] = m
      BY <2>1, <2>2
    <3>4. Asked(a, p)'
      BY <2>1, <3>1, <3>3 DEF Asked
    <3>5. ~Asked(a, p)
      <4> SUFFICES ASSUME NEW k \in 1 .. Len(Program[a]), k < pc[a],
                          IsAsk(Program[a][k]), Program[a][k].query = p
                   PROVE  FALSE
        BY DEF Asked
      <4>1. k = pc[a]
        BY <2>1, <3>1, <3>3, AsksOnce
      <4>2. QED
        BY <2>1, <4>1
    <3>6. QED
      BY <3>1, <3>2, <3>4, <3>5
  <2> HIDE DEF p, ask
  <2>5. /\ toDaemon[a] \in Seq(AllCalls) /\ toDaemon \in [Apps -> Seq(AllCalls)]
        /\ shown \in [Apps -> AllShown] /\ \A b \in Apps : shown[b] \in [Ids(b) -> Numbers]
    BY <2>1 DEF ServiceInv, TrafficTypes
  <2>6. /\ toDaemon' \in [Apps -> Seq(AllCalls)]
        /\ Len(toDaemon[a]) \in Nat /\ Len(toDaemon'[a]) = Len(toDaemon[a]) + 1
        /\ toDaemon'[a][Len(toDaemon[a]) + 1] = m
        /\ \A i \in 1 .. Len(toDaemon[a]) : toDaemon'[a][i] = toDaemon[a][i]
        /\ \A b \in Apps : b # a => toDaemon'[b] = toDaemon[b]
    <3> DEFINE ms == toDaemon[a]
    <3>1. ms \in Seq(AllCalls)
      BY <2>5
    <3>2. toDaemon'[a] = Append(ms, m) /\ \A b \in Apps : b # a => toDaemon'[b] = toDaemon[b]
      BY <1>4, <2>1, <2>5
    <3> HIDE DEF ms
    <3>3. /\ Append(ms, m) \in Seq(AllCalls)
          /\ Len(ms) \in Nat /\ Len(Append(ms, m)) = Len(ms) + 1
          /\ Append(ms, m)[Len(ms) + 1] = m
          /\ \A i \in 1 .. Len(ms) : Append(ms, m)[i] = ms[i]
      BY <2>3, <3>1, AppendProperties, LenProperties
    <3>4. toDaemon' \in [Apps -> Seq(AllCalls)]
      BY <1>4, <2>5, <3>3 DEF ms
    <3>5. QED
      BY <3>2, <3>3, <3>4 DEF ms
  <2>7. MessagesAsked'
    <3> SUFFICES ASSUME NEW b \in Launched, NEW i \in 1 .. Len(toDaemon'[b]),
                        NEW msg, msg = toDaemon'[b][i]
                 PROVE  Sent(b, msg)'
      BY DEF MessagesAsked, Sent, Asked
    <3>1. CASE b = a /\ i = Len(toDaemon[a]) + 1
      BY <2>3, <2>4, <2>6, <3>1 DEF Sent, ask, p
    <3>2. CASE ~(b = a /\ i = Len(toDaemon[a]) + 1)
      <4>1. i \in 1 .. Len(toDaemon[b]) /\ toDaemon'[b][i] = toDaemon[b][i]
        BY <2>6, <3>2, LaunchedAreApps
      <4>2. Sent(b, toDaemon[b][i])
        BY <4>1 DEF ServiceInv, MessagesAsked
      <4>3. QED
        BY <2>1, <4>1, <4>2, LaunchedAreApps DEF Sent
    <3>3. QED
      BY <3>1, <3>2
  <2>8. p.req_id \in Ids(a) /\ fields[LocationOf(p)] \in Numbers
    BY <2>3, QueriesHaveField DEF ServiceInv, DataInv
  <2>9. /\ shown' \in [Apps -> AllShown]
        /\ \A b \in Apps : shown'[b] \in [Ids(b) -> Numbers]
        /\ \A b \in Apps : \A r \in Ids(b) :
             shown'[b][r] = IF ask /\ b = a /\ r = p.req_id THEN fields[LocationOf(p)]
                            ELSE shown[b][r]
    <3>1. CASE ~ask
      BY <1>4, <2>5, <3>1
    <3>2. CASE ask
      <4> DEFINE now == [shown[a] EXCEPT ![p.req_id] = fields[LocationOf(p)]]
      <4>1. /\ now \in [Ids(a) -> Numbers]
            /\ \A r \in Ids(a) : now[r] = IF r = p.req_id THEN fields[LocationOf(p)]
                                          ELSE shown[a][r]
        BY <2>1, <2>5, <2>8
      <4>2. shown' = [shown EXCEPT ![a] = now]
        BY <1>4, <3>2
      <4> HIDE DEF now
      <4>3. now \in AllShown
        BY <2>1, <4>1 DEF AllShown
      <4>4. /\ shown' \in [Apps -> AllShown]
            /\ \A b \in Apps : shown'[b] = IF b = a THEN now ELSE shown[b]
        BY <2>1, <2>5, <4>2, <4>3
      <4>5. QED
        BY <2>5, <3>2, <4>1, <4>4
    <3>3. QED
      BY <3>1, <3>2
  <2>10. TrafficTypes'
    BY <1>1, <2>1, <2>6, <2>9 DEF ServiceInv, TrafficTypes
  <2>11. ASSUME NEW b \in Launched, NEW q \in QueriesOf(b)
         PROVE  InTurn(b, q)'
    <3>1. InTurn(b, q) /\ b \in Apps /\ q.req_id \in Ids(b)
      BY LaunchedAreApps, QueriesHaveField DEF ServiceInv, RepliesInTurn
    <3>2. CASE ~(ask /\ b = a /\ q.req_id = p.req_id)
      <4>1. shown'[b][q.req_id] = shown[b][q.req_id] /\ toApp'[b] = toApp[b]
        BY <1>1, <2>9, <3>1, <3>2
      <4>2. QED
        BY <1>2, <2>1, <4>1, QuietStep
    <3>3. CASE ask /\ b = a /\ q.req_id = p.req_id
      <4>1. q = p
        BY <2>1, <2>3, <3>3, QueryIds
      <4>2. ~Asked(b, q)
        BY <2>4, <3>3, <4>1
      <4>3. /\ \A i \in 1 .. Len(toApp[b]) : ~IsFor(toApp[b][i], b, q)
            /\ \A t \in Threads : answer[t] # NoAnswer => ~IsFor(answer[t].reply, b, q)
        BY <3>1, <4>2 DEF InTurn
      <4>4. shown'[b][q.req_id] = fields[LocationOf(q)] /\ fields[LocationOf(q)] \in Int
        BY <2>8, <2>9, <3>1, <3>3, <4>1 DEF Numbers
      <4>5. shown'[b][q.req_id] <= fields'[LocationOf(q)]
        BY <1>2, <4>4
      <4>6. QED
        BY <1>1, <4>3, <4>5 DEF InTurn, IsFor
    <3>4. QED
      BY <3>2, <3>3
  <2>12. TasksAsked' /\ OneThreadEach'
    BY <1>2, <2>1, QuietStep
  <2>13. RepliesInTurn'
    BY <2>11 DEF RepliesInTurn
  <2>14. ShownNewer
    <3> SUFFICES ASSUME NEW b \in Apps, NEW r \in Ids(b) PROVE shown'[b][r] >= shown[b][r]
      BY <2>5 DEF ShownNewer
    <3>1. shown[b][r] \in Int
      BY <2>5 DEF Numbers
    <3>2. CASE ask /\ b = a /\ r = p.req_id
      <4>1. shown[a][p.req_id] <= fields[LocationOf(p)]
        BY <2>3 DEF ServiceInv, RepliesInTurn, InTurn
      <4>2. shown'[b][r] = fields[LocationOf(p)] /\ fields[LocationOf(p)] \in Int
        BY <2>8, <2>9, <3>2 DEF Numbers
      <4>3. QED
        BY <3>1, <3>2, <4>1, <4>2
    <3>3. CASE ~(ask /\ b = a /\ r = p.req_id)
      <4>1. shown'[b][r] = shown[b][r]
        BY <2>9, <3>3
      <4>2. QED
        BY <3>1, <4>1
    <3>4. QED
      BY <3>2, <3>3
  <2> QED
    BY <1>2, <2>7, <2>10, <2>12, <2>13, <2>14 DEF ServiceInv
<1> QED
  BY <1>0, <1>3, <1>4 DEF Write

\* What is read is the oldest of what is on its way, and not older than what is
\* known.
LEMMA ReadStep ==
  ASSUME ServiceInv, NEW a \in Launched, ~Ended(a), Read(a),
         UNCHANGED <<init_pc, dataVars, table, schedule, answer>>
  PROVE  ServiceInv' /\ ShownNewer
<1> DEFINE rs  == toApp[a]
           rep == Head(rs)
<1>1. UNCHANGED <<backlog, toDaemon>>
  BY DEF Read
<1>2. DataInv' /\ fields' = fields
  BY DataAside
<1>3. CASE (Continue(a) \/ Exit(a)) /\ UNCHANGED <<toApp, reply, shown>>
  <2>1. backlog' \in Seq(Launched)
    BY <1>1 DEF ServiceInv, TrafficTypes
  <2>2. QED
    BY <1>1, <1>3, <2>1, PassStep
<1>4. CASE /\ rs # << >>
           /\ reply' = [reply EXCEPT ![a] = rep]
           /\ toApp' = [toApp EXCEPT ![a] = Tail(@)]
           /\ shown' = IF rep.to = a THEN [shown EXCEPT ![a][rep.req_id] = rep.number]
                       ELSE shown
           /\ Continue(a)
  <2>1. /\ a \in Apps /\ pc' \in [Apps -> Nat \ {0}]
        /\ \A b \in Apps : \A q : Asked(b, q) => Asked(b, q)'
    BY <1>4, ProgramGoesOn, LaunchedAreApps
  <2>2. /\ toApp \in [Apps -> Seq(Replies)] /\ reply \in [Apps -> Replies \cup {NoReply}]
        /\ shown \in [Apps -> AllShown] /\ \A b \in Apps : shown[b] \in [Ids(b) -> Numbers]
    BY DEF ServiceInv, TrafficTypes
  <2>3. /\ Len(rs) \in Nat \ {0} /\ rep = rs[1] /\ rep \in Replies
        /\ Tail(rs) \in Seq(Replies) /\ Len(Tail(rs)) = Len(rs) - 1
        /\ \A i \in 1 .. Len(rs) - 1 : Tail(rs)[i] = rs[i + 1]
    <3>1. rs \in Seq(Replies) /\ rs # << >>
      BY <1>4, <2>1, <2>2
    <3> HIDE DEF rs
    <3>2. Len(rs) \in Nat \ {0}
      BY <3>1, LenProperties, EmptySeq
    <3>3. Head(rs) = rs[1] /\ Head(rs) \in Replies
      BY <3>1, <3>2, ElementOfSeq
    <3>4. /\ Tail(rs) \in Seq(Replies) /\ Len(Tail(rs)) = Len(rs) - 1
          /\ \A i \in 1 .. Len(Tail(rs)) : Tail(rs)[i] = rs[i + 1]
      BY <3>1, HeadTailProperties
    <3>5. QED
      BY <3>2, <3>3, <3>4
  <2>4. /\ toApp' \in [Apps -> Seq(Replies)]
        /\ \A b \in Apps : toApp'[b] = IF b = a THEN Tail(rs) ELSE toApp[b]
        /\ reply' \in [Apps -> Replies \cup {NoReply}]
    BY <1>4, <2>1, <2>2, <2>3
  <2> HIDE DEF rs, rep
  <2>5. rep.number \in Numbers /\ (rep.to = a => rep.req_id \in Ids(a))
    <3>1. PICK b \in Launched : \E q \in QueriesOf(b) : rep.to = b /\ rep.req_id = q.req_id
      BY <2>3, RepliesAre DEF IsFor
    <3>2. QED
      BY <2>3, <3>1, RepliesAre DEF Ids
  <2>6. /\ shown' \in [Apps -> AllShown]
        /\ \A b \in Apps : shown'[b] \in [Ids(b) -> Numbers]
        /\ \A b \in Apps : \A r \in Ids(b) :
             shown'[b][r] = IF rep.to = a /\ b = a /\ r = rep.req_id THEN rep.number
                            ELSE shown[b][r]
    <3>1. CASE rep.to # a
      BY <1>4, <2>2, <3>1
    <3>2. CASE rep.to = a
      <4> DEFINE now == [shown[a] EXCEPT ![rep.req_id] = rep.number]
      <4>1. /\ now \in [Ids(a) -> Numbers]
            /\ \A r \in Ids(a) : now[r] = IF r = rep.req_id THEN rep.number ELSE shown[a][r]
        BY <2>1, <2>2, <2>5, <3>2
      <4>2. shown' = [shown EXCEPT ![a] = now]
        BY <1>4, <3>2
      <4> HIDE DEF now
      <4>3. now \in AllShown
        BY <2>1, <4>1 DEF AllShown
      <4>4. /\ shown' \in [Apps -> AllShown]
            /\ \A b \in Apps : shown'[b] = IF b = a THEN now ELSE shown[b]
        BY <2>1, <2>2, <4>2, <4>3
      <4>5. QED
        BY <2>2, <3>2, <4>1, <4>4
    <3>3. QED
      BY <3>1, <3>2
  <2>7. TrafficTypes'
    BY <1>1, <2>1, <2>4, <2>6 DEF ServiceInv, TrafficTypes
  <2>8. ASSUME NEW b \in Launched, NEW q \in QueriesOf(b)
        PROVE  InTurn(b, q)'
    <3>1. InTurn(b, q) /\ b \in Apps /\ q.req_id \in Ids(b)
      BY LaunchedAreApps, QueriesHaveField DEF ServiceInv, RepliesInTurn
    <3>2. CASE b # a
      <4>1. shown'[b][q.req_id] = shown[b][q.req_id] /\ toApp'[b] = toApp[b]
        BY <2>4, <2>6, <3>1, <3>2
      <4>2. QED
        BY <1>2, <2>1, <4>1, QuietStep
    <3>3. CASE b = a
      <4> DEFINE now == shown'[b][q.req_id]
      <4>1. now = IF IsFor(rep, b, q) THEN rep.number ELSE shown[b][q.req_id]
        BY <2>6, <3>1, <3>3 DEF IsFor
      <4> HIDE DEF now
      <4>2. /\ toApp'[b] = Tail(rs) /\ toApp[b] = rs /\ 1 \in 1 .. Len(rs) /\ rs[1] = rep
            /\ Len(toApp'[b]) = Len(rs) - 1
            /\ \A i \in 1 .. Len(toApp'[b]) :
                 /\ i + 1 \in 1 .. Len(rs) /\ 1 < i + 1
                 /\ toApp'[b][i] = rs[i + 1]
        BY <2>3, <2>4, <3>1, <3>3 DEF rs
      <4>3. now <= fields[LocationOf(q)]
        BY <3>1, <4>1, <4>2 DEF InTurn
      <4>4. ASSUME NEW i \in 1 .. Len(toApp'[b]), IsFor(toApp'[b][i], b, q)
            PROVE  /\ Asked(b, q)
                   /\ now <= toApp'[b][i].number
                   /\ toApp'[b][i].number <= fields[LocationOf(q)]
                   /\ \A j \in 1 .. Len(toApp'[b]) :
                        i < j /\ IsFor(toApp'[b][j], b, q) =>
                          toApp'[b][i].number <= toApp'[b][j].number
        <5>1. IsFor(rs[i + 1], b, q) /\ i + 1 \in 1 .. Len(rs) /\ toApp'[b][i] = rs[i + 1]
          BY <4>2, <4>4
        <5>2. /\ Asked(b, q)
              /\ shown[b][q.req_id] <= rs[i + 1].number
              /\ rs[i + 1].number <= fields[LocationOf(q)]
              /\ \A j \in 1 .. Len(rs) :
                   i + 1 < j /\ IsFor(rs[j], b, q) => rs[i + 1].number <= rs[j].number
          BY <3>1, <4>2, <5>1 DEF InTurn
        <5>3. IsFor(rep, b, q) => rep.number <= rs[i + 1].number
          BY <3>1, <4>2, <5>1 DEF InTurn
        <5>4. ASSUME NEW j \in 1 .. Len(toApp'[b]), i < j, IsFor(toApp'[b][j], b, q)
              PROVE  rs[i + 1].number <= toApp'[b][j].number
          <6>1. i + 1 < j + 1 /\ j + 1 \in 1 .. Len(rs) /\ toApp'[b][j] = rs[j + 1]
            BY <2>3, <4>2, <5>4
          <6>2. QED
            BY <5>2, <5>4, <6>1
        <5>5. QED
          BY <4>1, <5>1, <5>2, <5>3, <5>4
      <4>5. ASSUME NEW t \in Threads, answer[t] # NoAnswer, IsFor(answer[t].reply, b, q)
            PROVE  /\ Asked(b, q)
                   /\ now <= answer[t].reply.number
                   /\ answer[t].reply.number <= fields[LocationOf(q)]
                   /\ \A i \in 1 .. Len(toApp'[b]) :
                        IsFor(toApp'[b][i], b, q) => toApp'[b][i].number <= answer[t].reply.number
        BY <3>1, <4>1, <4>2, <4>5 DEF InTurn
      <4>6. QED
        BY <1>2, <2>1, <3>1, <4>3, <4>4, <4>5 DEF InTurn, IsFor, now
    <3>4. QED
      BY <3>2, <3>3
  <2>9. RepliesInTurn'
    BY <2>8 DEF RepliesInTurn
  <2>10. TasksAsked' /\ OneThreadEach' /\ MessagesAsked'
    BY <1>1, <1>2, <2>1, QuietStep
  <2>11. ShownNewer
    <3> SUFFICES ASSUME NEW b \in Apps, NEW r \in Ids(b) PROVE shown'[b][r] >= shown[b][r]
      BY <2>2 DEF ShownNewer
    <3>1. shown[b][r] \in Int
      BY <2>2 DEF Numbers
    <3>2. CASE rep.to = a /\ b = a /\ r = rep.req_id
      <4>1. PICK q \in QueriesOf(a) : q.req_id = r
        BY <3>2 DEF Ids
      <4>2. 1 \in 1 .. Len(toApp[a]) /\ toApp[a][1] = rep /\ IsFor(rep, a, q)
        BY <2>3, <3>2, <4>1 DEF rs, IsFor
      <4>3. shown[a][q.req_id] <= rep.number
        BY <4>2 DEF ServiceInv, RepliesInTurn, InTurn
      <4>4. shown'[b][r] = rep.number /\ rep.number \in Int
        BY <2>5, <2>6, <3>2 DEF Numbers
      <4>5. QED
        BY <3>1, <3>2, <4>1, <4>3, <4>4
    <3>3. CASE ~(rep.to = a /\ b = a /\ r = rep.req_id)
      <4>1. shown'[b][r] = shown[b][r]
        BY <2>6, <3>3
      <4>2. QED
        BY <3>1, <4>1
    <3>4. QED
      BY <3>2, <3>3
  <2> QED
    BY <1>2, <2>7, <2>9, <2>10, <2>11 DEF ServiceInv
<1> QED
  BY <1>3, <1>4 DEF Read

-----------------------------------------------------------------------------
(* The specification *)

\* Every step of the daemon and its programs keeps what is in turn.
LEMMA ServiceStep ==
  ASSUME ServiceInv, [Next]_vars
  PROVE  ServiceInv' /\ ShownNewer
<1>1. CASE Main \/ NetworkSide
  BY <1>1, NetworkSideStep
<1>2. CASE Manager
  <2>1. UNCHANGED <<init_pc, dataVars>>
    BY <1>2 DEF Manager
  <2>2. CASE WriteReply("manager")
    BY <2>1, <2>2, WriteReplyStep DEF Threads
  <2>3. CASE /\ Accept \/ \E fd \in Fds : Dispatch(fd) \/ HangUp(fd)
             /\ UNCHANGED <<alive, pc, toApp, reply, shown>>
    BY <2>1, <2>3, AcceptStep, DispatchStep, HangUpStep
  <2>4. QED
    BY <1>2, <2>2, <2>3 DEF Manager
<1>3. CASE Scheduler
  <2>1. WriteReply("scheduler") /\ UNCHANGED <<init_pc, dataVars>> /\ "scheduler" \in Threads
    BY <1>3 DEF Scheduler, Threads
  <2>2. QED
    BY <2>1, WriteReplyStep
<1>4. ASSUME NEW a \in Launched, Launch(a) \/ Application(a)
      PROVE  ServiceInv' /\ ShownNewer
  <2>1. ~Ended(a) /\ UNCHANGED <<init_pc, dataVars, table, schedule, answer>>
    BY <1>4 DEF Launch, Application
  <2>2. Connect(a) \/ Write(a) \/ Read(a) \/ Close(a)
    BY <1>4 DEF Launch, Application
  <2>3. QED
    BY <2>1, <2>2, ConnectStep, WriteStep, ReadStep, CloseStep
<1>5. ASSUME NEW a \in Launched, NEW q \in QueriesOf(a), Begin(a, q)
      PROVE  ServiceInv' /\ ShownNewer
  BY <1>5, BeginStep
<1>6. CASE UNCHANGED vars
  <2>1. DataInv' /\ FieldsNewer
    BY <1>6, DataAside, SameIsNewer DEF vars, ServiceInv, DataInv
  <2>2. QED
    BY <1>6, <2>1, DataStep, SameIsShown DEF vars, appVars
<1> QED
  BY <1>1, <1>2, <1>3, <1>4, <1>5, <1>6 DEF Next

\* What the two theorems rest on: the data is of the packets in their order, and
\* what is known, on its way, about to be written and held is newer in turn.
THEOREM DataInOrder == Spec => []ServiceInv
<1>1. Init => ServiceInv
  BY TrafficInit
<1>2. ServiceInv /\ [Next]_vars => ServiceInv'
  BY ServiceStep
<1> QED
  BY <1>1, <1>2, PTL DEF Spec

\* Whatever the packets, and however serve_query() in two threads interleaves
\* with elaboration_thread(), no application is shown data for a query that is
\* older than what it saw, or than what the daemon held when it asked.
THEOREM NeverOlder == Spec => NeverShownOlder
<1>1. ServiceInv /\ [Next]_vars => [ShownNewer]_shown
  BY ServiceStep
<1> QED
  BY <1>1, DataInOrder, PTL DEF Spec, NeverShownOlder, ShownNewer

\* The member of the union that an application prints is the one that
\* serve_query() set for its query, whatever is lost, delayed or reordered.
THEOREM RightMember == Spec => []PrintsWhatWasSet
<1>1. ServiceInv => PrintsWhatWasSet
  <2> SUFFICES ASSUME ServiceInv, NEW a \in Apps, reply[a] # NoReply, reply[a].to = a
               PROVE  Prints(a, reply[a].req_id) = reply[a].member
    BY DEF PrintsWhatWasSet
  <2>1. reply[a] \in Replies
    BY DEF ServiceInv, TrafficTypes
  <2>2. PICK q \in QueriesOf(a) :
          reply[a].req_id = q.req_id /\ reply[a].member = MemberOf(q.data_id)
    BY <2>1, RepliesAre DEF IsFor
  <2>3. PICK i \in DOMAIN AppQueries[a] : q = AppQueries[a][i]
    BY DEF QueriesOf, ToSet
  <2>4. i \in 1 .. Len(AppQueries[a])
    BY QueriesDiffer, LenProperties
  <2>5. QED
    BY <2>2, <2>3, <2>4, QueriesDiffer
<1> QED
  BY <1>1, DataInOrder, PTL

-----------------------------------------------------------------------------
(* The sections *)

\* The packet is written to the section.
Touches(p, section) ==
  \/ p.identifier = AFDX_PACKET_TYPE_ADIRU /\ section[1] \in {"attitude", "speeds"}
  \/ p.identifier = AFDX_PACKET_TYPE_ENGINE /\ section = <<"engine", p.engine_id>>

\* All the fields of a section, the time stamp among them.
Stamped(section) == FieldsOf(section[1]) \cup {"last_update"}

\* Assignments to fields of one section are to locations of it.
LEMMA InSection ==
  ASSUME NEW s \in Sections, NEW names \in Seq(Stamped(s))
  PROVE  /\ [k \in DOMAIN names |-> FieldAt(s, names[k])] \in Seq(Locations)
         /\ ToSet([k \in DOMAIN names |-> FieldAt(s, names[k])])
              = {FieldAt(s, f) : f \in ToSet(names)}
<1> DEFINE q == [k \in DOMAIN names |-> FieldAt(s, names[k])]
<1>1. /\ Len(names) \in Nat /\ DOMAIN names = 1 .. Len(names)
      /\ \A k \in 1 .. Len(names) : names[k] \in Stamped(s)
  BY LenProperties, ElementOfSeq
<1>2. \A k \in 1 .. Len(names) : FieldAt(s, names[k]) \in Locations
  BY <1>1 DEF Locations, Stamped
<1>3. q \in Seq(Locations) /\ DOMAIN q = 1 .. Len(names)
  BY <1>1, <1>2
<1>4. ToSet(q) = {FieldAt(s, f) : f \in ToSet(names)}
  BY <1>1, <1>3 DEF ToSet
<1> QED
  BY <1>3, <1>4

\* Locations of different sections differ.
LEMMA LocationsDiffer ==
  ASSUME NEW s \in Sections, NEW t \in Sections, NEW F, NEW f
  PROVE  FieldAt(s, f) \in {FieldAt(t, g) : g \in F} <=> s = t /\ f \in F
<1>1. s = <<s[1], s[2]>> /\ t = <<t[1], t[2]>>
  BY DEF Sections
<1> QED
  BY <1>1 DEF FieldAt

\* The elaboration thread writes a packet to every field of the sections that
\* it is for, and to no other section.
LEMMA AssignedLocations ==
  ASSUME NEW p \in Packets
  PROVE  /\ Assignments(p) \in Seq(Locations)
         /\ \A s \in Sections : \A f \in Stamped(s) :
              FieldAt(s, f) \in ToSet(Assignments(p)) <=> Touches(p, s)
<1> DEFINE In(s, names) == [k \in DOMAIN names |-> FieldAt(s, names[k])]
           attitude == <<"attitude", 0>>
           speeds   == <<"speeds", 0>>
           engine   == <<"engine", p.engine_id>>
           ofAttitude == <<"last_update", "altitude", "roll", "pitch", "yaw">>
           ofSpeeds   == <<"last_update", "aoa", "airspeed">>
           ofEngine   == <<"last_update", "throttle", "real_thrust", "oil_temp", "oil_press",
                           "fuel_press", "status", "engine_flags">>
<1> USE DEF AFDX_PACKET_TYPE_ADIRU, AFDX_PACKET_TYPE_ENGINE
<1>1. /\ attitude \in Sections /\ speeds \in Sections
      /\ \A s \in Sections : /\ s[1] = "attitude" => s = attitude
                             /\ s[1] = "speeds" => s = speeds
                             /\ s[1] \in {"attitude", "speeds", "engine"}
  BY DEF Sections
<1>2. CASE p.identifier = AFDX_PACKET_TYPE_ADIRU
  <2>1. /\ ofAttitude \in Seq(Stamped(attitude)) /\ ToSet(ofAttitude) = Stamped(attitude)
        /\ ofSpeeds \in Seq(Stamped(speeds)) /\ ToSet(ofSpeeds) = Stamped(speeds)
    BY DEF Stamped, FieldsOf, AttitudeFields, SpeedsFields, ToSet
  <2>2. Assignments(p) = In(attitude, ofAttitude) \o In(speeds, ofSpeeds)
    BY <1>2 DEF Assignments
  <2> HIDE DEF attitude, speeds, ofAttitude, ofSpeeds
  <2>3. /\ In(attitude, ofAttitude) \in Seq(Locations)
        /\ ToSet(In(attitude, ofAttitude)) = {FieldAt(attitude, f) : f \in Stamped(attitude)}
        /\ In(speeds, ofSpeeds) \in Seq(Locations)
        /\ ToSet(In(speeds, ofSpeeds)) = {FieldAt(speeds, f) : f \in Stamped(speeds)}
    BY <1>1, <2>1, InSection
  <2> HIDE DEF In
  <2>4. /\ Assignments(p) \in Seq(Locations)
        /\ ToSet(Assignments(p)) = {FieldAt(attitude, f) : f \in Stamped(attitude)}
                                     \cup {FieldAt(speeds, f) : f \in Stamped(speeds)}
    BY <2>2, <2>3, ConcatElements
  <2>5. ASSUME NEW s \in Sections, NEW f \in Stamped(s)
        PROVE  FieldAt(s, f) \in ToSet(Assignments(p)) <=> Touches(p, s)
    <3>1. FieldAt(s, f) \in ToSet(Assignments(p)) <=> s = attitude \/ s = speeds
      BY <1>1, <2>4, LocationsDiffer
    <3>2. Touches(p, s) <=> s[1] \in {"attitude", "speeds"}
      BY <1>2 DEF Touches
    <3>3. s[1] \in {"attitude", "speeds"} <=> s = attitude \/ s = speeds
      BY <1>1 DEF attitude, speeds
    <3>4. QED
      BY <3>1, <3>2, <3>3
  <2>6. QED
    BY <2>4, <2>5
<1>3. CASE p.identifier = AFDX_PACKET_TYPE_ENGINE
  <2>1. engine \in Sections
    BY <1>3, DataAssumption DEF Sections
  <2>2. ofEngine \in Seq(Stamped(engine)) /\ ToSet(ofEngine) = Stamped(engine)
    BY DEF Stamped, FieldsOf, EngineFields, ToSet
  <2>3. Assignments(p) = In(engine, ofEngine)
    BY <1>3 DEF Assignments
  <2> HIDE DEF engine, ofEngine
  <2>4. /\ Assignments(p) \in Seq(Locations)
        /\ ToSet(Assignments(p)) = {FieldAt(engine, f) : f \in Stamped(engine)}
    BY <2>1, <2>2, <2>3, InSection
  <2>5. ASSUME NEW s \in Sections, NEW f \in Stamped(s)
        PROVE  FieldAt(s, f) \in ToSet(Assignments(p)) <=> Touches(p, s)
    <3>1. FieldAt(s, f) \in ToSet(Assignments(p)) <=> s = engine
      BY <2>1, <2>4, LocationsDiffer
    <3>2. QED
      BY <1>3, <3>1 DEF Touches, engine
  <2>6. QED
    BY <2>4, <2>5
<1>4. CASE /\ p.identifier # AFDX_PACKET_TYPE_ADIRU
           /\ p.identifier # AFDX_PACKET_TYPE_ENGINE
  <2>1. Assignments(p) = << >> /\ \A s \in Sections : ~Touches(p, s)
    BY <1>4 DEF Assignments, Touches
  <2>2. << >> \in Seq(Locations) /\ ToSet(<< >>) = {}
    BY EmptySeq DEF ToSet
  <2>3. QED
    BY <2>1, <2>2
<1> QED
  BY <1>2, <1>3, <1>4

-----------------------------------------------------------------------------
(* The limits of the daemon *)

\* What TypeOK says beyond DataInv and the traffic.
LimitsInv ==
  /\ init_pc <= 7
  /\ Len(pending) <= Capacity
  /\ current \in AnyPacket
  /\ todo \in Seq(Locations)
  /\ alive \in BOOLEAN
  /\ schedule \subseteq Task
  /\ \A a \in Apps : Len(toApp[a]) <= SockBuf

\* Where an assignment stops: at the first location that is watched, or at the
\* end.
LEMMA AssignStops ==
  ASSUME todo \in Seq(Locations), todo # << >>
  PROVE  LET seen == {k \in DOMAIN todo : todo[k] \in Watched}
         IN (IF Cardinality(seen) > 1 THEN Min(seen) ELSE Len(todo)) \in 0 .. Len(todo)
<1> DEFINE seen == {k \in DOMAIN todo : todo[k] \in Watched}
<1>1. Len(todo) \in Nat /\ DOMAIN todo = 1 .. Len(todo)
  BY LenProperties
<1>2. seen \subseteq Nat /\ seen \subseteq 0 .. Len(todo)
  BY <1>1
<1> HIDE DEF seen
<1>3. ASSUME Cardinality(seen) > 1 PROVE Min(seen) \in 0 .. Len(todo)
  <2>1. seen # {}
    <3>1. Cardinality({}) = 0
      BY FS_EmptySet
    <3>2. QED
      BY <1>3, <3>1
  <2>2. \E m \in seen : \A other \in seen : m <= other
    BY <1>2, <2>1, LeastNumber
  <2>3. Min(seen) \in seen
    BY <2>2 DEF Min
  <2>4. QED
    BY <1>2, <2>3
<1>4. Len(todo) \in 0 .. Len(todo)
  BY <1>1
<1> QED
  BY <1>3, <1>4 DEF seen

\* At first everything is empty.
LEMMA LimitsInit == Init => LimitsInv
<1> SUFFICES ASSUME Init PROVE LimitsInv
  OBVIOUS
<1>1. /\ pending = << >> /\ todo = << >> /\ toApp = [a \in Apps |-> << >>]
      /\ init_pc = 1 /\ current = ZeroPacket /\ alive = TRUE /\ schedule = {}
  BY DEF Init
<1>2. << >> \in Seq(Locations) /\ Len(<< >>) = 0
  BY EmptySeq
<1> QED
  BY <1>1, <1>2, ServiceAssumption DEF LimitsInv, AnyPacket

\* The network side keeps to the capacity, and writes to locations there are.
LEMMA NetworkLimits ==
  ASSUME DataInv, LimitsInv, NetworkSide
  PROVE  LimitsInv'
<1>1. UNCHANGED <<init_pc, alive, schedule, toApp>>
  BY DEF NetworkSide, servingVars, appVars
<1>2. /\ pending \in Seq(Packets) /\ Len(pending) \in Nat /\ Len(pending) <= Capacity
      /\ Capacity \in Nat
  BY ServiceAssumption, LenProperties DEF DataInv, LimitsInv
<1>3. /\ Len(pending') <= Capacity
      /\ current' \in AnyPacket
      /\ todo' \in Seq(Locations)
  <2>1. CASE Take
    <3>1. /\ pending # << >> /\ current' = Head(pending) /\ pending' = Tail(pending)
          /\ todo' = Assignments(Head(pending))
      BY <2>1 DEF Take
    <3>2. Len(pending') = Len(pending) - 1 /\ Head(pending) \in Packets
      BY <1>2, <3>1, HeadTailProperties
    <3>3. QED
      BY <1>2, <3>1, <3>2, AssignedLocations DEF AnyPacket
  <2>2. CASE Assign
    <3>1. todo # << >> /\ UNCHANGED <<pending, current>> /\ todo \in Seq(Locations)
      BY <2>2 DEF Assign, LimitsInv
    <3>2. PICK n \in 0 .. Len(todo) : todo' = SubSeq(todo, n + 1, Len(todo))
      BY <2>2, <3>1, AssignStops DEF Assign
    <3>3. todo' \in Seq(Locations)
      BY <3>1, <3>2, SplitElements
    <3>4. QED
      BY <3>1, <3>3 DEF LimitsInv
  <2>3. ASSUME NEW p \in Packets, Receive(p)
        PROVE  /\ Len(pending') <= Capacity /\ current' \in AnyPacket
               /\ todo' \in Seq(Locations)
    <3>1. /\ Len(pending) < Capacity /\ pending' = Append(pending, p)
          /\ UNCHANGED <<current, todo>>
      BY <2>3 DEF Receive
    <3>2. Len(pending') = Len(pending) + 1
      BY <1>2, <3>1, AppendProperties
    <3>3. Len(pending') <= Capacity
      BY <1>2, <3>1, <3>2
    <3>4. QED
      BY <3>1, <3>3 DEF LimitsInv
  <2>4. QED
    BY <2>1, <2>2, <2>3 DEF NetworkSide
<1> QED
  BY <1>1, <1>3 DEF LimitsInv

\* A reply is written when there is room.
LEMMA WriteLimits ==
  ASSUME ServiceInv, LimitsInv, NEW t \in Threads, WriteReply(t),
         UNCHANGED <<init_pc, dataVars>>
  PROVE  LimitsInv'
<1> DEFINE b   == table[answer[t].fd]
           rep == answer[t].reply
<1>1. /\ UNCHANGED <<init_pc, pending, current, todo, schedule>>
      /\ \/ /\ b # Free /\ Len(toApp[b]) < SockBuf
            /\ toApp' = [toApp EXCEPT ![b] = Append(@, rep)]
            /\ alive' = alive
         \/ alive' = FALSE /\ toApp' = toApp
  BY DEF WriteReply, Reading, dataVars
<1>2. /\ answer[t] # NoAnswer /\ rep \in Replies /\ b \in Launched \cup {Free}
      /\ toApp \in [Apps -> Seq(Replies)] /\ SockBuf \in Nat
  BY ServiceAssumption DEF ServiceInv, TrafficTypes, WriteReply
<1> HIDE DEF b, rep
<1>3. \A a \in Apps : Len(toApp'[a]) <= SockBuf
  <2> SUFFICES ASSUME NEW a \in Apps PROVE Len(toApp'[a]) <= SockBuf
    OBVIOUS
  <2>1. CASE toApp'[a] = toApp[a]
    BY <2>1 DEF LimitsInv
  <2>2. CASE /\ a = b /\ Len(toApp[b]) < SockBuf
             /\ toApp' = [toApp EXCEPT ![b] = Append(@, rep)]
    <3>1. toApp'[a] = Append(toApp[a], rep) /\ toApp[a] \in Seq(Replies)
      BY <1>2, <2>2
    <3>2. Len(toApp'[a]) = Len(toApp[a]) + 1 /\ Len(toApp[a]) \in Nat
      BY <1>2, <3>1, AppendProperties, LenProperties
    <3>3. QED
      BY <1>2, <2>2, <3>2
  <2>3. QED
    BY <1>1, <1>2, <2>1, <2>2
<1> QED
  BY <1>1, <1>3 DEF LimitsInv

\* What is registered is a query of the application that the descriptor is for.
LEMMA DispatchLimits ==
  ASSUME ServiceInv, LimitsInv, NEW fd \in Fds, Dispatch(fd)
  PROVE  schedule' \subseteq Task
<1> DEFINE a == table[fd]
           m == Head(toDaemon[a])
           task == [app |-> a, fd |-> fd, query |-> m.query]
<1>1. /\ a # Free /\ toDaemon[a] # << >>
      /\ schedule' \subseteq schedule \cup {task}
  BY DEF Dispatch
<1>2. a \in Launched /\ a \in Apps /\ toDaemon[a] \in Seq(AllCalls)
  BY <1>1, LaunchedAreApps DEF ServiceInv, TrafficTypes
<1>3. m.query \in QueriesOf(a)
  <2>1. 1 \in 1 .. Len(toDaemon[a]) /\ m = toDaemon[a][1]
    BY <1>1, <1>2, HeadTailProperties, LenProperties, EmptySeq
  <2>2. Sent(a, m)
    BY <1>2, <2>1 DEF ServiceInv, MessagesAsked
  <2>3. QED
    BY <2>2 DEF Sent
<1> HIDE DEF a, m
<1>4. task \in Task
  BY <1>2, <1>3 DEF Task
<1> QED
  BY <1>1, <1>4 DEF LimitsInv

\* Reading makes room.
LEMMA ReadLimits ==
  ASSUME ServiceInv, LimitsInv, NEW a \in Apps, Read(a)
  PROVE  \A b \in Apps : Len(toApp'[b]) <= SockBuf
<1>1. toApp \in [Apps -> Seq(Replies)] /\ SockBuf \in Nat
      /\ \A b \in Apps : Len(toApp[b]) <= SockBuf
  BY ServiceAssumption DEF ServiceInv, TrafficTypes, LimitsInv
<1>2. CASE toApp' = toApp
  BY <1>1, <1>2
<1>3. CASE toApp[a] # << >> /\ toApp' = [toApp EXCEPT ![a] = Tail(@)]
  <2>1. toApp'[a] = Tail(toApp[a]) /\ \A b \in Apps \ {a} : toApp'[b] = toApp[b]
    BY <1>1, <1>3
  <2>2. Len(toApp'[a]) = Len(toApp[a]) - 1 /\ Len(toApp[a]) \in Nat
    BY <1>1, <1>3, <2>1, HeadTailProperties, LenProperties
  <2>3. Len(toApp'[a]) <= SockBuf
    BY <1>1, <2>2
  <2>4. QED
    BY <1>1, <2>1, <2>3
<1> QED
  BY <1>2, <1>3 DEF Read

\* Every step keeps to the limits.
LEMMA LimitsStep ==
  ASSUME ServiceInv, LimitsInv, [Next]_vars
  PROVE  LimitsInv'
<1>1. CASE Main
  <2>1. /\ init_pc' = init_pc + 1 /\ init_pc <= 6 /\ init_pc \in Nat
        /\ UNCHANGED <<pending, current, todo, alive, schedule, toApp>>
    BY <1>1 DEF Main, StartUp, servingVars, appVars, ServiceInv, DataInv
  <2>2. QED
    BY <2>1 DEF LimitsInv
<1>2. CASE NetworkSide
  BY <1>2, NetworkLimits DEF ServiceInv
<1>3. CASE Manager
  <2>1. UNCHANGED <<init_pc, dataVars>>
    BY <1>3 DEF Manager
  <2>2. CASE WriteReply("manager")
    BY <2>1, <2>2, WriteLimits DEF Threads
  <2>3. ASSUME Accept \/ \E fd \in Fds : Dispatch(fd) \/ HangUp(fd),
               UNCHANGED <<alive, pc, toApp, reply, shown>>
        PROVE  LimitsInv'
    <3>1. schedule' \subseteq Task
      BY <2>3, DispatchLimits DEF Accept, HangUp, LimitsInv
    <3>2. QED
      BY <2>1, <2>3, <3>1 DEF LimitsInv, dataVars
  <2>4. QED
    BY <1>3, <2>2, <2>3 DEF Manager
<1>4. CASE Scheduler
  BY <1>4, WriteLimits DEF Scheduler, Threads
<1>5. ASSUME NEW a \in Launched, Launch(a) \/ Application(a)
      PROVE  LimitsInv'
  <2>1. UNCHANGED <<init_pc, pending, current, todo, alive, schedule>> /\ a \in Apps
    BY <1>5, LaunchedAreApps DEF Launch, Application, dataVars
  <2>2. \A b \in Apps : Len(toApp'[b]) <= SockBuf
    <3>1. CASE Read(a)
      BY <2>1, <3>1, ReadLimits
    <3>2. CASE UNCHANGED toApp
      BY <3>2 DEF LimitsInv
    <3>3. QED
      BY <1>5, <3>1, <3>2 DEF Launch, Application, Connect, Write, Close
  <2>3. QED
    BY <2>1, <2>2 DEF LimitsInv
<1>6. ASSUME NEW a \in Launched, NEW q \in QueriesOf(a), Begin(a, q)
      PROVE  LimitsInv'
  BY <1>6 DEF Begin, dataVars, appVars, LimitsInv
<1>7. CASE UNCHANGED vars
  BY <1>7 DEF vars, dataVars, servingVars, appVars, LimitsInv
<1> QED
  BY <1>1, <1>2, <1>3, <1>4, <1>5, <1>6, <1>7 DEF Next

\* What the three invariants say of the types.
LEMMA ServiceTypes ==
  ASSUME ServiceInv, LimitsInv
  PROVE  TypeOK
<1>1. Replies \subseteq Reply
  <2> SUFFICES ASSUME NEW rep \in Replies PROVE rep \in Reply
    OBVIOUS
  <2>0. PICK a \in Launched : \E q \in QueriesOf(a), n \in Numbers :
          rep = [to |-> a, req_id |-> q.req_id, number |-> n, member |-> MemberOf(q.data_id)]
    BY DEF Replies
  <2>1. PICK q \in QueriesOf(a), n \in Numbers :
          rep = [to |-> a, req_id |-> q.req_id, number |-> n, member |-> MemberOf(q.data_id)]
    BY <2>0
  <2>2. a \in Apps /\ q.data_id \in DataIds
    BY LaunchedAreApps, QueryFields
  <2>3. MemberOf(q.data_id) \in {"u8", "i16", "i32"}
    BY <2>2 DEF MemberOf, DataIds, serve_query_case
  <2>4. rep \in [to : {a}, req_id : {x.req_id : x \in QueriesOf(a)}, number : Numbers,
                 member : {"u8", "i16", "i32"}]
    BY <2>1, <2>3
  <2>5. QED
    BY <2>2, <2>4 DEF Reply
<1>2. init_pc \in 1 .. Len(StartUp) + 1
  BY DEF ServiceInv, DataInv, LimitsInv, StartUp
<1>3. /\ pending \in Seq(Packets) /\ Len(pending) <= Capacity
      /\ received \in Numbers /\ current \in AnyPacket /\ todo \in Seq(Locations)
      /\ fields \in [Locations -> Numbers] /\ alive \in BOOLEAN /\ schedule \subseteq Task
  BY DEF ServiceInv, DataInv, LimitsInv
<1>4. backlog \in Seq(Apps) /\ table \in [Fds -> Apps \cup {Free}] /\ pc \in [Apps -> Nat]
  <2>1. backlog \in Seq(Launched) /\ Launched \subseteq Apps
    BY LaunchedAreApps DEF ServiceInv, TrafficTypes
  <2>2. backlog \in Seq(Apps)
    BY <2>1, LenProperties, ElementOfSeq
  <2>3. table \in [Fds -> Launched \cup {Free}] /\ pc \in [Apps -> Nat \ {0}]
    BY DEF ServiceInv, TrafficTypes
  <2>4. QED
    BY <2>1, <2>2, <2>3
<1>5. DOMAIN answer = Threads /\ \A t \in Threads : answer[t] \in Answer \cup {NoAnswer}
  BY <1>1 DEF ServiceInv, TrafficTypes, Answer
<1>6. ASSUME NEW a \in Apps
      PROVE  /\ ToSet(toApp[a]) \subseteq Reply /\ Len(toApp[a]) <= SockBuf
             /\ reply[a] \in Reply \cup {NoReply}
             /\ shown[a] \in [{q.req_id : q \in QueriesOf(a)} -> Numbers]
  <2>1. toApp[a] \in Seq(Replies)
    BY DEF ServiceInv, TrafficTypes
  <2>2. ToSet(toApp[a]) \subseteq Replies
    BY <2>1, LenProperties, ElementOfSeq DEF ToSet
  <2>3. reply[a] \in Replies \cup {NoReply} /\ shown[a] \in [Ids(a) -> Numbers]
    BY DEF ServiceInv, TrafficTypes
  <2>4. QED
    BY <1>1, <2>2, <2>3 DEF LimitsInv, Ids
<1> QED
  BY <1>2, <1>3, <1>4, <1>5, <1>6 DEF TypeOK

-----------------------------------------------------------------------------
(* The data as a whole *)

\* The fields of a section that hold one number are those of its packet.
LEMMA OneNumber ==
  ASSUME NEW n, NEW V, V = {n}
  PROVE  Cardinality(V) = 1 /\ (CHOOSE m \in V : TRUE) = n
<1>1. Cardinality({n}) = 1
  BY FS_Singleton
<1> QED
  BY <1>1

\* There are fields in a section.
LEMMA SectionHasFields ==
  ASSUME NEW s \in Sections
  PROVE  /\ FieldsOf(s[1]) # {}
         /\ \A f \in Stamped(s) : FieldAt(s, f) \in Locations
<1>1. s[1] \in {"engine", "attitude", "speeds"}
  BY DEF Sections
<1>2. FieldsOf(s[1]) # {}
  BY <1>1 DEF FieldsOf, EngineFields, AttitudeFields, SpeedsFields
<1> QED
  BY <1>2 DEF Locations, Stamped

\* A section none of whose fields changes stays as it is.
LEMMA SectionStays ==
  ASSUME NEW s, \A f \in Stamped(s) : Settled(FieldAt(s, f))' = Settled(FieldAt(s, f))
  PROVE  SectionNode(s)' = SectionNode(s)
<1> DEFINE Whole(V, n) ==
             [packet |-> PacketOf(s, IF Cardinality(V) = 1 THEN CHOOSE m \in V : TRUE ELSE -1),
              last_update |-> PacketOf(s, n)]
<1>1. PICK V, n : /\ V = {Settled(FieldAt(s, f)) : f \in FieldsOf(s[1])}
                  /\ n = Settled(FieldAt(s, "last_update"))
  OBVIOUS
<1>2. /\ V = {Settled(FieldAt(s, f))' : f \in FieldsOf(s[1])}
      /\ n = Settled(FieldAt(s, "last_update"))'
  BY <1>1 DEF Stamped
<1>3. SectionNode(s) = Whole(V, n)
  BY <1>1 DEF SectionNode
<1>4. SectionNode(s)' = Whole(V, n)
  BY <1>2 DEF SectionNode
<1> QED
  BY <1>3, <1>4

\* The node of a packet.
NodeOf(p) == [packet |-> p, last_update |-> p]

\* A section all of whose fields are of one packet is that packet's.
LEMMA SectionWhole ==
  ASSUME NEW s \in Sections, NEW n, \A f \in Stamped(s) : Settled(FieldAt(s, f)) = n
  PROVE  SectionNode(s) = NodeOf(PacketOf(s, n))
<1> DEFINE V == {Settled(FieldAt(s, f)) : f \in FieldsOf(s[1])}
<1>1. V = {n} /\ Settled(FieldAt(s, "last_update")) = n
  BY SectionHasFields DEF Stamped
<1>2. Cardinality(V) = 1 /\ (CHOOSE m \in V : TRUE) = n
  BY <1>1, OneNumber
<1> QED
  BY <1>1, <1>2 DEF SectionNode, NodeOf

\* Likewise after a step.
LEMMA SectionBecomes ==
  ASSUME NEW s \in Sections, NEW n, \A f \in Stamped(s) : Settled(FieldAt(s, f))' = n
  PROVE  SectionNode(s)' = NodeOf(PacketOf(s, n))
<1> DEFINE V == {Settled(FieldAt(s, f))' : f \in FieldsOf(s[1])}
<1>1. V = {n} /\ Settled(FieldAt(s, "last_update"))' = n
  BY SectionHasFields DEF Stamped
<1>2. Cardinality(V) = 1 /\ (CHOOSE m \in V : TRUE) = n
  BY <1>1, OneNumber
<1> QED
  BY <1>1, <1>2 DEF SectionNode, NodeOf

\* The node that a packet leaves in the sections it is written to.
LEMMA TouchedPacket ==
  ASSUME NEW p \in Packets, NEW s \in Sections, Touches(p, s)
  PROVE  PacketOf(s, p.payload) = p
<1>1. PICK i \in 0 .. NUM_PACKETS - 1 : p = net_packet(i)
  BY ServiceAssumption DEF net_packets
<1>2. /\ p = [identifier |-> p.identifier, engine_id |-> p.engine_id, payload |-> p.payload]
      /\ p.payload = i + 1
      /\ p.identifier = AFDX_PACKET_TYPE_ADIRU => p.engine_id = 0
  BY <1>1 DEF net_packet, AFDX_PACKET_TYPE_ADIRU, AFDX_PACKET_TYPE_ENGINE,
              AFDX_PACKET_TYPE_UNKNOWN
<1>3. p.payload # 0
  BY <1>2 DEF NUM_PACKETS
<1>4. s \in {<<"attitude", 0>>, <<"speeds", 0>>} \/ s[1] = "engine"
  BY DEF Sections
<1> QED
  BY <1>2, <1>3, <1>4 DEF Touches, PacketOf

\* The sections of the data.
LEMMA SectionsOfData ==
  /\ <<"attitude", 0>> \in Sections /\ <<"speeds", 0>> \in Sections
  /\ \A e \in Engines : <<"engine", e>> \in Sections
  BY DEF Sections

\* At first no section has data.
LEMMA StoreStarts == Init => Store!StoreInit
<1> SUFFICES ASSUME Init PROVE Store!StoreInit
  OBVIOUS
<1>1. pending = << >> /\ todo = << >> /\ fields = [l \in Locations |-> 0]
  BY DEF Init
<1>2. ASSUME NEW s \in Sections
      PROVE  SectionNode(s) = Store!ZeroNode
  <2>1. \A f \in Stamped(s) : Settled(FieldAt(s, f)) = 0
    BY <1>1, SectionHasFields DEF Settled, ToSet
  <2>2. SectionNode(s) = NodeOf(PacketOf(s, 0))
    BY <2>1, SectionWhole
  <2>3. PacketOf(s, 0) = Store!ZeroPacket
    BY DEF PacketOf, ZeroPacket, Store!ZeroPacket, AFDX_PACKET_TYPE_UNKNOWN,
           Store!AFDX_PACKET_TYPE_UNKNOWN
  <2>4. QED
    BY <2>2, <2>3 DEF NodeOf, Store!ZeroNode
<1>3. Store!Engines = Engines
  BY DEF Store!Engines, Engines
<1> QED
  BY <1>1, <1>2, <1>3, SectionsOfData DEF Store!StoreInit, Store!InvalidData

\* A step that settles nothing else leaves the data alone.
LEMMA StoreStays ==
  ASSUME \A s \in Sections : \A f \in Stamped(s) :
           Settled(FieldAt(s, f))' = Settled(FieldAt(s, f))
  PROVE  \A s \in Sections : SectionNode(s)' = SectionNode(s)
<1> TAKE s \in Sections
<1>1. \A f \in Stamped(s) : Settled(FieldAt(s, f))' = Settled(FieldAt(s, f))
  OBVIOUS
<1> QED
  BY <1>1, SectionStays

\* A step that changes neither the queue nor a section stutters.
LEMMA StoreStutters ==
  ASSUME UNCHANGED pending, \A s \in Sections : SectionNode(s)' = SectionNode(s)
  PROVE  UNCHANGED Store!StoreVars
<1>1. /\ SectionNode(<<"attitude", 0>>)' = SectionNode(<<"attitude", 0>>)
      /\ SectionNode(<<"speeds", 0>>)' = SectionNode(<<"speeds", 0>>)
      /\ \A e \in Engines : SectionNode(<<"engine", e>>)' = SectionNode(<<"engine", e>>)
  BY SectionsOfData
<1>2. [e \in Engines |-> SectionNode(<<"engine", e>>)']
        = [e \in Engines |-> SectionNode(<<"engine", e>>)]
  BY <1>1
<1> QED
  BY <1>1, <1>2 DEF Store!StoreVars

\* Marking the data invalid, and every step that is not of the network side,
\* leaves the store alone.
LEMMA DataStands ==
  ASSUME UNCHANGED <<pending, current, todo, fields>>
  PROVE  UNCHANGED Store!StoreVars
<1>1. \A s \in Sections : \A f \in Stamped(s) :
        Settled(FieldAt(s, f))' = Settled(FieldAt(s, f))
  BY DEF Settled
<1> QED
  BY <1>1, StoreStays, StoreStutters

\* A packet that is received is pending, and nothing else changes.
LEMMA ReceiveStores ==
  ASSUME NEW p \in Packets, Receive(p)
  PROVE  Store!Receive(p)
<1>1. /\ Len(pending) < Capacity /\ pending' = Append(pending, p)
      /\ UNCHANGED <<current, todo, fields>>
  BY DEF Receive
<1>2. \A s \in Sections : \A f \in Stamped(s) :
        Settled(FieldAt(s, f))' = Settled(FieldAt(s, f))
  BY <1>1 DEF Settled
<1>3. \A s \in Sections : SectionNode(s)' = SectionNode(s)
  BY <1>2, StoreStays
<1>4. /\ SectionNode(<<"attitude", 0>>)' = SectionNode(<<"attitude", 0>>)
      /\ SectionNode(<<"speeds", 0>>)' = SectionNode(<<"speeds", 0>>)
      /\ \A e \in Engines : SectionNode(<<"engine", e>>)' = SectionNode(<<"engine", e>>)
  BY <1>3, SectionsOfData
<1>5. [e \in Engines |-> SectionNode(<<"engine", e>>)']
        = [e \in Engines |-> SectionNode(<<"engine", e>>)]
  BY <1>4
<1> QED
  BY <1>1, <1>4, <1>5 DEF Store!Receive

\* An assignment writes what was still to be written, and settles nothing else.
LEMMA AssignSettles ==
  ASSUME todo \in Seq(Locations), Assign
  PROVE  UNCHANGED Store!StoreVars
<1>1. todo # << >> /\ UNCHANGED <<pending, current>>
  BY DEF Assign
<1>2. PICK n \in 0 .. Len(todo) :
        /\ fields' = [l \in Locations |-> IF l \in ToSet(SubSeq(todo, 1, n))
                                          THEN current.payload ELSE fields[l]]
        /\ todo' = SubSeq(todo, n + 1, Len(todo))
  BY <1>1, AssignStops DEF Assign
<1>3. ToSet(todo) = ToSet(SubSeq(todo, 1, n)) \cup ToSet(todo')
  BY <1>2, SplitElements
<1>4. \A l \in Locations : Settled(l)' = Settled(l)
  <2> SUFFICES ASSUME NEW l \in Locations PROVE Settled(l)' = Settled(l)
    OBVIOUS
  <2>1. fields'[l] = IF l \in ToSet(SubSeq(todo, 1, n)) THEN current.payload ELSE fields[l]
    BY <1>2
  <2>2. Settled(l)' = IF l \in ToSet(todo') THEN current.payload ELSE fields'[l]
    BY <1>1 DEF Settled, ToSet
  <2>3. QED
    BY <1>3, <2>1, <2>2 DEF Settled
<1>5. \A s \in Sections : \A f \in Stamped(s) :
        Settled(FieldAt(s, f))' = Settled(FieldAt(s, f))
  BY <1>4, SectionHasFields
<1> QED
  BY <1>1, <1>5, StoreStays, StoreStutters

\* A packet that is taken settles the sections that it is for.
LEMMA TakeSettles ==
  ASSUME DataInv, Take, NEW s \in Sections, NEW p, p = Head(pending)
  PROVE  /\ p \in Packets
         /\ SectionNode(s)' = IF Touches(p, s) THEN NodeOf(p) ELSE SectionNode(s)
<1>1. /\ pending # << >> /\ todo = << >> /\ current' = p /\ todo' = Assignments(p)
      /\ fields' = fields
  BY DEF Take
<1>2. p \in Packets
  BY <1>1, HeadTailProperties DEF DataInv
<1>3. \A l : Settled(l) = fields[l]
  BY <1>1 DEF Settled, ToSet
<1>4. \A l : Settled(l)' = IF l \in ToSet(Assignments(p)) THEN p.payload ELSE fields[l]
  BY <1>1 DEF Settled, ToSet
<1>5. \A f \in Stamped(s) :
        Settled(FieldAt(s, f))' = IF Touches(p, s) THEN p.payload ELSE Settled(FieldAt(s, f))
  BY <1>2, <1>3, <1>4, AssignedLocations
<1>6. CASE Touches(p, s)
  <2>1. SectionNode(s)' = NodeOf(PacketOf(s, p.payload))
    BY <1>5, <1>6, SectionBecomes
  <2>2. QED
    BY <1>2, <1>6, <2>1, TouchedPacket
<1>7. CASE ~Touches(p, s)
  BY <1>2, <1>5, <1>7, SectionStays
<1> QED
  BY <1>2, <1>6, <1>7

\* A packet that is taken is elaborated as a whole.
LEMMA TakeElaborates ==
  ASSUME DataInv, Take
  PROVE  Store!Elaborate
<1> DEFINE Attitude == SectionNode(<<"attitude", 0>>)
           Speeds   == SectionNode(<<"speeds", 0>>)
           Engine(e) == SectionNode(<<"engine", e>>)
<1>1. PICK p : p = Head(pending)
  OBVIOUS
<1>2. /\ pending # << >> /\ pending' = Tail(pending)
  BY DEF Take
<1>3. /\ p \in Packets
      /\ Attitude' = IF Touches(p, <<"attitude", 0>>) THEN NodeOf(p) ELSE Attitude
      /\ Speeds' = IF Touches(p, <<"speeds", 0>>) THEN NodeOf(p) ELSE Speeds
      /\ \A e \in Engines :
           Engine(e)' = IF Touches(p, <<"engine", e>>) THEN NodeOf(p) ELSE Engine(e)
  BY <1>1, TakeSettles, SectionsOfData
<1>4. PICK a, s, en, a2, s2, en2 :
        /\ a = Attitude /\ s = Speeds /\ en = [e \in Engines |-> Engine(e)]
        /\ a2 = Attitude' /\ s2 = Speeds' /\ en2 = [e \in Engines |-> Engine(e)']
  OBVIOUS
<1> DEFINE old == [attitude |-> a, speeds |-> s, engines |-> en]
           new == [attitude |-> a2, speeds |-> s2, engines |-> en2]
<1>5. new = Store!Elaborated(old, NodeOf(p))
  <2> USE DEF AFDX_PACKET_TYPE_ADIRU, AFDX_PACKET_TYPE_ENGINE, Store!AFDX_PACKET_TYPE_ADIRU,
              Store!AFDX_PACKET_TYPE_ENGINE
  <2>0. NodeOf(p).packet = p
    BY DEF NodeOf
  <2>1. CASE p.identifier = AFDX_PACKET_TYPE_ADIRU
    <3>1. a2 = NodeOf(p) /\ s2 = NodeOf(p) /\ en2 = en
      BY <1>3, <1>4, <2>1 DEF Touches
    <3>2. Store!Elaborated(old, NodeOf(p))
            = [old EXCEPT !.attitude = NodeOf(p), !.speeds = NodeOf(p)]
      BY <2>0, <2>1 DEF Store!Elaborated
    <3>3. QED
      BY <3>1, <3>2
  <2>2. CASE p.identifier = AFDX_PACKET_TYPE_ENGINE
    <3>1. p.engine_id \in Engines
      BY <1>3, <2>2, DataAssumption
    <3>2. a2 = a /\ s2 = s
      BY <1>3, <1>4, <2>2 DEF Touches
    <3>3. en2 = [en EXCEPT ![p.engine_id] = NodeOf(p)]
      <4>1. \A e \in Engines : Touches(p, <<"engine", e>>) <=> e = p.engine_id
        BY <2>2 DEF Touches
      <4>2. QED
        BY <1>3, <1>4, <3>1, <4>1
    <3>4. Store!Elaborated(old, NodeOf(p)) = [old EXCEPT !.engines[p.engine_id] = NodeOf(p)]
      BY <2>0, <2>2 DEF Store!Elaborated
    <3>5. QED
      BY <3>2, <3>3, <3>4
  <2>3. CASE /\ p.identifier # AFDX_PACKET_TYPE_ADIRU
             /\ p.identifier # AFDX_PACKET_TYPE_ENGINE
    <3>1. a2 = a /\ s2 = s /\ en2 = en
      BY <1>3, <1>4, <2>3 DEF Touches
    <3>2. Store!Elaborated(old, NodeOf(p)) = old
      BY <2>0, <2>3 DEF Store!Elaborated
    <3>3. QED
      BY <3>1, <3>2
  <2>4. QED
    BY <2>1, <2>2, <2>3
<1>6. NodeOf(p) = [packet |-> Head(pending), last_update |-> Head(pending)]
  BY <1>1 DEF NodeOf
<1> QED
  BY <1>2, <1>4, <1>5, <1>6 DEF Store!Elaborate

-----------------------------------------------------------------------------
(* The data and the types, always *)

\* Every step is one of the store, or none.
LEMMA StoreStep ==
  ASSUME ServiceInv, LimitsInv, [Next]_vars
  PROVE  [Store!StoreNext]_Store!StoreVars
<1> DEFINE Quiet == UNCHANGED <<pending, current, todo, fields>>
<1>1. CASE Main
  <2>1. fields' = fields
    BY <1>1, MainKeepsFields DEF ServiceInv
  <2>2. Quiet
    BY <1>1, <2>1 DEF Main
  <2>3. QED
    BY <2>2, DataStands
<1>2. CASE NetworkSide
  <2>1. CASE Take
    BY <2>1, TakeElaborates DEF Store!StoreNext, ServiceInv
  <2>2. CASE Assign
    BY <2>2, AssignSettles DEF LimitsInv
  <2>3. ASSUME NEW p \in Packets, Receive(p)
        PROVE  Store!StoreNext
    BY <2>3, ReceiveStores DEF Store!StoreNext
  <2>4. QED
    BY <1>2, <2>1, <2>2, <2>3 DEF NetworkSide
<1>3. CASE Manager \/ Scheduler
  <2>1. Quiet
    BY <1>3 DEF Manager, Scheduler, dataVars
  <2>2. QED
    BY <2>1, DataStands
<1>4. ASSUME NEW a \in Launched,
             Launch(a) \/ Application(a) \/ \E q \in QueriesOf(a) : Begin(a, q)
      PROVE  Quiet
  BY <1>4 DEF Launch, Application, Begin, dataVars
<1>5. CASE UNCHANGED vars
  <2>1. Quiet
    BY <1>5 DEF vars, dataVars
  <2>2. QED
    BY <2>1, DataStands
<1> QED
  BY <1>1, <1>2, <1>3, <1>4, <1>5, DataStands DEF Next

\* No queue or socket holds more than it can.
LEMMA LimitsKept == Spec => []LimitsInv
<1>1. Init => LimitsInv
  BY LimitsInit
<1>2. ServiceInv /\ LimitsInv /\ [Next]_vars => LimitsInv'
  BY LimitsStep
<1> QED
  BY <1>1, <1>2, DataInOrder, PTL DEF Spec

\* The types of the whole daemon with its programs: packets are written to fields
\* there are, no queue or socket overflows, and what is registered, about to be
\* written or on its way is a query, or the reply to one, of an application.
THEOREM ServiceTypeCorrect == Spec => []TypeOK
<1>1. ServiceInv /\ LimitsInv => TypeOK
  BY ServiceTypes
<1> QED
  BY <1>1, DataInOrder, LimitsKept, PTL

\* elaboration_thread() writes a packet field by field and without a lock, and
\* yet the data moves from packet to packet as PacketStore says, when what is
\* still to be written is counted as written.
THEOREM DataMovesAsStore == Spec => ImplementsStore
<1>1. Init => Store!StoreInit
  BY StoreStarts
<1>2. ServiceInv /\ LimitsInv /\ [Next]_vars => [Store!StoreNext]_Store!StoreVars
  BY StoreStep
<1> QED
  BY <1>1, <1>2, DataInOrder, LimitsKept, PTL DEF Spec, ImplementsStore, Store!StoreSpec

=============================================================================
