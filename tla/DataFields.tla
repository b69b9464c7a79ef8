----------------------------- MODULE DataFields -----------------------------
(***************************************************************************)
(* The fields of the internal data: in which order the elaboration thread  *)
(* writes those of a packet (src/elaboration_thread.c), and which of them  *)
(* serve_query() reads for a query, into which member of the reply         *)
(* (src/application_manager.c).  The build is not optimised, so a field is *)
(* written by a store of its own, in the order of the source.              *)
(*                                                                         *)
(* What a field holds is the number of the packet that its value came      *)
(* from, 0 for the zero of static storage.                                 *)
(***************************************************************************)
EXTENDS InternalData, SequencesExt

EngineFields   == {"throttle", "real_thrust", "oil_temp", "oil_press", "fuel_press",
                   "status", "engine_flags"}
AttitudeFields == {"altitude", "roll", "pitch", "yaw"}
SpeedsFields   == {"aoa", "airspeed"}

FieldsOf(section) ==
  CASE section = "engine"   -> EngineFields
    [] section = "attitude" -> AttitudeFields
    [] section = "speeds"   -> SpeedsFields

\* A section is attitude, speeds, or an engine, which has a number.
Sections == {<<"attitude", 0>>, <<"speeds", 0>>} \cup ({"engine"} \X Engines)

FieldAt(section, field) == <<section[1], section[2], field>>

Locations == UNION {{FieldAt(s, f) : f \in FieldsOf(s[1]) \cup {"last_update"}} : s \in Sections}

IsStamp(location) == location[3] = "last_update"

-----------------------------------------------------------------------------
\* An elaboration that forgets the time stamp of the speeds.
Assignments_Unstamped(packet) ==
  LET In(section, names) == [k \in DOMAIN names |-> FieldAt(section, names[k])]
  IN CASE packet.identifier = AFDX_PACKET_TYPE_ADIRU ->
            In(<<"attitude", 0>>, <<"last_update", "altitude", "roll", "pitch", "yaw">>)
              \o In(<<"speeds", 0>>, <<"aoa", "airspeed">>)
       [] packet.identifier = AFDX_PACKET_TYPE_ENGINE ->
            In(<<"engine", packet.engine_id>>,
               <<"last_update", "throttle", "real_thrust", "oil_temp", "oil_press",
                 "fuel_press", "status", "engine_flags">>)
       [] OTHER -> << >>

\* The switch of elaboration_thread(), as the locations it writes in turn.
Assignments(packet) ==
  LET In(section, names) == [k \in DOMAIN names |-> FieldAt(section, names[k])]
  IN CASE packet.identifier = AFDX_PACKET_TYPE_ADIRU ->
            In(<<"attitude", 0>>, <<"last_update", "altitude", "roll", "pitch", "yaw">>)
              \o In(<<"speeds", 0>>, <<"last_update", "aoa", "airspeed">>)
       [] packet.identifier = AFDX_PACKET_TYPE_ENGINE ->
            In(<<"engine", packet.engine_id>>,
               <<"last_update", "throttle", "real_thrust", "oil_temp", "oil_press",
                 "fuel_press", "status", "engine_flags">>)
       [] OTHER -> << >>

-----------------------------------------------------------------------------
\* The cases of serve_query(): section and field that are read, and the member
\* of the reply that is set.  The reply has one union for each member, so that
\* the other two are sent with whatever was on the stack.
serve_query_case ==
  [ENGINE_THROTTLE    |-> <<"engine", "throttle", "u8">>,
   ENGINE_REAL_THRUST |-> <<"engine", "real_thrust", "u8">>,
   ENGINE_OIL_TEMP    |-> <<"engine", "oil_temp", "i16">>,
   ENGINE_OIL_PRESS   |-> <<"engine", "oil_press", "i16">>,
   ENGINE_FUEL_PRESS  |-> <<"engine", "fuel_press", "i16">>,
   ENGINE_STATUS      |-> <<"engine", "status", "u8">>,
   ENGINE_FLAGS       |-> <<"engine", "engine_flags", "u8">>,
   ATTITUDE_ALTITUDE  |-> <<"attitude", "altitude", "i32">>,
   ATTITUDE_ROLL      |-> <<"attitude", "roll", "i16">>,
   ATTITUDE_PITCH     |-> <<"attitude", "pitch", "i16">>,
   ATTITUDE_YAW       |-> <<"attitude", "yaw", "i16">>,
   SPEEDS_AOA         |-> <<"speeds", "aoa", "i16">>,
   SPEEDS_AIRSPEED    |-> <<"speeds", "airspeed", "i16">>]

DataIds == DOMAIN serve_query_case

\* An answer that is always put in the same member of the reply.
MemberOf_One(data_id) == "i16"

MemberOf(data_id) == serve_query_case[data_id][3]

\* Only an engine's data depends on the engine id of the query.
LocationOf(query) ==
  LET case == serve_query_case[query.data_id]
  IN FieldAt(<<case[1], IF case[1] = "engine" THEN query.engine_id ELSE 0>>, case[2])

=============================================================================
