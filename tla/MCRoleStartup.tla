---------------------------- MODULE MCRoleStartup ---------------------------
(* Every command line that departs in at most two options from a sender with *)
(* the default options, or from a receiver without or with a clock offset.   *)
EXTENDS RoleStartup

Default ==
  [ entry |-> "run_benchmark", role |-> "sender", payload |-> 1,
    rate |-> "positive", duration |-> "positive", warmup |-> "zero",
    timeout |-> "positive", session |-> None, domain |-> None, depth |-> 1,
    deadline |-> None, clockSync |-> "unknown", offset |-> None,
    maxOffset |-> "positive" ]

Values ==
  [ entry |-> {"run_benchmark", "sender", "receiver"},
    role |-> {None, "sender", "receiver"}, payload |-> {-1, 0, 3, 4},
    rate |-> Kinds, duration |-> Kinds, warmup |-> Kinds,
    timeout |-> Kinds, session |-> {-1, 0, 2, 7, 8}, domain |-> {-1, 0, 2, 3},
    depth |-> {0}, deadline |-> Kinds, clockSync |-> {"ok", "offset"},
    offset |-> Kinds \ {"negative"}, maxOffset |-> Kinds ]

Departures(line) ==
  UNION {{[line EXCEPT ![o] = v] : v \in Values[o]} : o \in DOMAIN Values}

Receiver == [Default EXCEPT !.role = "receiver"]

Defaults ==
  {Default, Receiver, [Receiver EXCEPT !.clockSync = "offset", !.offset = "positive"]}

MCCommandLines ==
  {line \in UNION {Departures(d) : d \in UNION {Departures(e) : e \in Defaults}} :
     line.entry = "run_benchmark" => line.role # None}

MCRandomIds == {1, 2}
=============================================================================
