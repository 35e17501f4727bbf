---------------------------- MODULE Configuration ----------------------------
(***************************************************************************)
(* How a client is configured and constructed: variables of the environment,   *)
(* the ConfigOptions objects that read them once and keep what they read, what   *)
(* the constructor refuses, and the address it connects to.                    *)
(*                                                                         *)
(* The environment has values under <<name, suffix>>; an option that is read     *)
(* without a suffix has suffix "".  A value is                                *)
(*   words     what stands between its commas; none when it is empty          *)
(*   integer   the number an int holds of it, if it is one                     *)
(* A word of SSDB is an address:                                             *)
(*   protocol  "tcp" or "unix"                                               *)
(*   form      "host:port", or another form that is no address of a node        *)
(*   odd       it has a character that SSDB must not have                     *)
(*   shard     the shard that listens there, or "nobody"                       *)
(*   listed    the cluster reports the shard under this address                *)
(***************************************************************************)
EXTENDS ClientCalls

Text(words) == [words |-> words, integer |-> {}]
Number(n) == [words |-> <<"number">>, integer |-> {n}]

(***************************************************************************)
(* Options are read from the environment when they are first asked for.        *)
(***************************************************************************)
ConfigOptions(suffix) == [suffix |-> suffix, ints |-> << >>, strings |-> << >>]
Success(options, value) == [options |-> options, error |-> "none", value |-> value]
Failure(options, error) == [options |-> options, error |-> error, value |-> Nothing]

(* Mutant of Suffixed: the suffix is left out.                                    *)
NotSuffixed(options, name) == <<name, "">>

Suffixed(options, name) == <<name, options.suffix>>
Present(env, options, name) == Suffixed(options, name) \in DOMAIN env
Empty(env, options, name) ==
  Present(env, options, name) => env[Suffixed(options, name)].words = << >>

\* An option that must be there may be empty, and then is the default.
GetConfigInteger(env, options, name, default, needed) ==
  LET key == Suffixed(options, name) IN
  IF name = "" \/ (needed /\ ~Present(env, options, name)) THEN Failure(options, "Key")
  ELSE IF Empty(env, options, name) THEN Success(options, default)
  ELSE IF env[key].integer = {} THEN Failure(options, "Parameter")
  ELSE Success(options, CHOOSE n \in env[key].integer : TRUE)
GetConfigString(env, options, name, default, needed) ==
  IF name = "" \/ (needed /\ ~Present(env, options, name)) THEN Failure(options, "Key")
  ELSE IF Empty(env, options, name) THEN Success(options, default)
  ELSE Success(options, env[Suffixed(options, name)].words)

IntegerOption(env, options, name, default, needed) ==
  IF name \in DOMAIN options.ints THEN Success(options, options.ints[name])
  ELSE LET read == GetConfigInteger(env, options, name, default, needed) IN
       IF read.error # "none" THEN read
       ELSE Success([options EXCEPT !.ints = Put(@, name, read.value)], read.value)
StringOption(env, options, name, default, needed) ==
  IF name \in DOMAIN options.strings THEN Success(options, options.strings[name])
  ELSE LET read == GetConfigString(env, options, name, default, needed) IN
       IF read.error # "none" THEN read
       ELSE Success([options EXCEPT !.strings = Put(@, name, read.value)], read.value)
GetIntegerOption(env, options, name) == IntegerOption(env, options, name, -1, TRUE)
GetStringOption(env, options, name) == StringOption(env, options, name, << >>, TRUE)
ResolveIntegerOption(env, options, name, default) == IntegerOption(env, options, name, default, FALSE)
ResolveStringOption(env, options, name, default) == StringOption(env, options, name, default, FALSE)

IsConfigured(env, options, name) ==
  IF name \in DOMAIN options.ints \cup DOMAIN options.strings THEN Success(options, TRUE)
  ELSE IF name = "" THEN Failure(options, "Key")
  ELSE Success(options, Present(env, options, name))
OverrideIntegerOption(options, name, value) ==
  Success([options EXCEPT !.ints = Put(@, name, value)], Nothing)
OverrideStringOption(options, name, words) ==
  Success([options EXCEPT !.strings = Put(@, name, words)], Nothing)

\* Only the factory makes an object that can be asked.
OptionsCall(env, memory, call) ==
  IF call.do = "create" THEN Success(ConfigOptions(call.suffix), Nothing)
  ELSE IF call.on \notin DOMAIN memory THEN Failure(ConfigOptions(""), "Runtime")
  ELSE LET options == memory[call.on] IN
       CASE call.do = "get_integer_option" -> GetIntegerOption(env, options, call.name)
         [] call.do = "get_string_option" -> GetStringOption(env, options, call.name)
         [] call.do = "is_configured" -> IsConfigured(env, options, call.name)
         [] call.do = "override_integer_option" -> OverrideIntegerOption(options, call.name, call.value)
         [] call.do = "override_string_option" -> OverrideStringOption(options, call.name, call.value)

(***************************************************************************)
(* The part of the constructor that all connections share.                    *)
(***************************************************************************)
Defaults == [SR_CONN_TIMEOUT |-> 100, SR_CONN_INTERVAL |-> 1000, SR_CMD_TIMEOUT |-> 100,
             SR_SOCKET_TIMEOUT |-> 1800000, SR_CMD_INTERVAL |-> 1000, SR_THREAD_COUNT |-> 4]
InTurn == <<"SR_CONN_TIMEOUT", "SR_CONN_INTERVAL", "SR_CMD_TIMEOUT", "SR_SOCKET_TIMEOUT",
            "SR_CMD_INTERVAL", "SR_THREAD_COUNT">>
ResolveAll(env, options) ==
  FoldLeft(LAMBDA found, name :
             IF found.error # "none" THEN found
             ELSE ResolveIntegerOption(env, found.options, name, Defaults[name]),
           Success(options, 0), InTurn)
LargestTimeout == 2147483        \* INT_MAX / 1000
CheckRuntimeVariables(ints) ==
  /\ ints["SR_CONN_TIMEOUT"] \in 1 .. LargestTimeout
  /\ ints["SR_CMD_TIMEOUT"] \in 1 .. LargestTimeout
  /\ \A name \in {"SR_CONN_INTERVAL", "SR_CMD_INTERVAL", "SR_SOCKET_TIMEOUT"} : ints[name] > 0
(* Mutant of Attempts: the first attempt is not counted.                          *)
Retries(timeout, interval) == (timeout * 1000) \div interval

Attempts(timeout, interval) == (timeout * 1000) \div interval + 1
\* The count goes to an unsigned parameter; 0 asks for a thread per processor.
MoreThreadsThanThereAre(count) == count < 0
Threads(count) == IF count = 0 THEN 1 ELSE count

IsNode(address) == address.protocol = "unix" \/ address.form = "host:port"
Blank == [protocol |-> "tcp", form |-> "", odd |-> FALSE, shard |-> "nobody", listed |-> FALSE]
AddressesIn(words) == IF words # << >> /\ Last(words) = Blank THEN Front(words) ELSE words
CheckSsdbString(words) == \A i \in DOMAIN words : ~words[i].odd
SsdbValid(words) ==
  /\ words # << >> /\ CheckSsdbString(words)
  /\ \A i \in DOMAIN AddressesIn(words) : IsNode(AddressesIn(words)[i])

(***************************************************************************)
(* The constructor as far as the choice of an address: what it refuses, the     *)
(* options it has read, and the addresses among which it chooses.              *)
(***************************************************************************)
Clustered == {<<"clustered">>, <<"Clustered">>, <<"CLUSTERED">>}
ServerType(env, options, call) ==
  IF "cluster" \in DOMAIN call THEN Success(options, call.cluster)
  ELSE LET type == ResolveStringOption(env, options, "SR_DB_TYPE", <<"Clustered">>)
       IN [type EXCEPT !.value = type.value \in Clustered]
Refusing(error) == [error |-> error, addresses |-> {}]
NewServer(env, options, cluster) ==
  LET all == ResolveAll(env, options)
      ssdb == ResolveStringOption(env, all.options, "SSDB", << >>)
      choices == ToSet(AddressesIn(ssdb.value))
  IN IF all.error # "none" THEN Refusing(all.error)
     ELSE IF ~CheckRuntimeVariables(all.options.ints) THEN Refusing("Parameter")
     ELSE IF MoreThreadsThanThereAre(all.options.ints["SR_THREAD_COUNT"]) THEN Refusing("terminate")
     ELSE IF ~SsdbValid(ssdb.value) THEN Refusing("Runtime")
     ELSE [error |-> "none", options |-> ssdb.options, addresses |-> choices]

(***************************************************************************)
(* The settings of the new client, and what it sends to connect.  A cluster is   *)
(* asked for its slots by the connection and then by the client.               *)
(***************************************************************************)
GetPrefixSettings(env, options, set) ==
  LET out == ResolveStringOption(env, options, "SSKEYOUT", << >>)
      in == ResolveStringOption(env, options, "SSKEYIN", << >>)
      named == SelectSeq(in.value, LAMBDA w : w # "")
      sources == [i \in DOMAIN named |-> <<named[i]>>]
  IN [set EXCEPT !.put = out.value, !.sources = sources,
                 !.source = IF sources = << >> THEN << >> ELSE sources[1]]
LastPrefix(set, address) ==
  IF address.listed THEN Addressed(set, address.shard) ELSE Order[1]
NewClient(env, options, old, cluster, address) ==
  LET ints == options.ints
      set == [old EXCEPT
        !.cluster = cluster, !.chunk = 0, !.threads = Threads(ints["SR_THREAD_COUNT"]),
        !.attempts = [connection |-> Attempts(ints["SR_CONN_TIMEOUT"], ints["SR_CONN_INTERVAL"]),
                      command |-> Attempts(ints["SR_CMD_TIMEOUT"], ints["SR_CMD_INTERVAL"])],
        !.use = [tensor |-> TRUE, dataset |-> TRUE, list |-> TRUE, model |-> FALSE, bytes |-> @.bytes]]
  IN GetPrefixSettings(env, options, [set EXCEPT !.last = LastPrefix(set, address)])
Connect(set, address) ==
  Each(IF set.cluster
       THEN <<CmdAt(address.shard, "CLUSTER SLOTS", NoKey, {}), CmdAt(Order[1], "CLUSTER SLOTS", NoKey, {})>>
       ELSE <<CmdAt(address.shard, "PING", NoKey, {})>>)
  \o Then("connected", set)
\* What nobody answers, or no cluster, is tried until the last attempt.
Reached(address, cluster, servesCluster) ==
  address.shard \in ToSet(Order) /\ (cluster => servesCluster)
=============================================================================
