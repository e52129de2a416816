------------------------------- MODULE Startup -------------------------------
(***************************************************************************)
(* From a command to a runner: the commands of the binary that derive      *)
(* accounts and connect to the node (bin/main.rs), ScenarioBuilder::build  *)
(* (src/scenario.rs), derive_accounts and the sink's constructor           *)
(* (src/subxt_transaction.rs), and the connector with its attempts         *)
(* (src/subxt_api_connector.rs), beside a node that comes up and goes down *)
(* when it wants.                                                          *)
(* How the transactions take their nonces is ScenarioBuild's business:     *)
(* here every account has its nonce fetched or not.                        *)
(***************************************************************************)
EXTENDS Integers, Sequences, FiniteSets

CONSTANTS
  None,          \* Option::None
  U32Max,        \* u32::MAX
  UsizeSpan,     \* usize::MAX + 1
  MaxAccounts,   \* bound: accounts the memory has room for
  Names,         \* account_id: what a user may give as an account
  Parse,         \* parse::<u32>() of a name, or None
  to_string,     \* the name a number is written as
  Keyring,       \* the names the keyring knows
  Machines,      \* [debug_build, available_parallelism] to build on
  Sessions,      \* sequences of commands, one after another
  MAX_ATTEMPTS,  \* attempts to connect
  MaxLosses      \* bound: how often the node goes down

Id == 0..U32Max
Chain == {"sub", "eth", "fake"}

(* The expects that fail, and what the operating system has to say. *)
Message == {
  "configuration", "attempt to subtract with overflow", "out of memory", "unknown keyring name",
  "should connect to rpc client", "to account exists", "account nonce shall exists",
  "Error setting Ctrl-C handler"}

(* A command of the binary, or a scenario of a library's user. *)
Command == [
  name          : {"tx", "check_nonce", "endow"},
  chain         : Chain \cup {None},
  rpc_uri       : BOOLEAN,                 \* it is set
  payload       : {"recipe", "sub", "eth"},
  account_id    : Names \cup {None},
  start_id      : Id \cup {None},
  last_id       : Id \cup {None},
  nonce_from    : BOOLEAN,                 \* it is given
  block_monitor : BOOLEAN,
  ctrlc_hook    : BOOLEAN,
  same_process  : BOOLEAN]                 \* as the command before it

ASSUME StartupAssumption ==
  /\ U32Max \in Nat
  /\ None \notin Nat \cup Names \cup Chain \cup Message
  /\ Parse \in [Names -> Id \cup {None}]
  /\ to_string \in [Id -> Names]
  /\ \A i \in Id : Parse[to_string[i]] = i
  /\ Keyring \subseteq {name \in Names : Parse[name] = None}
  /\ Machines \subseteq [debug_build : BOOLEAN, available_parallelism : Nat \ {0}]
  /\ \A s \in Sessions : s \in Seq(Command) /\ s # <<>>
  /\ UsizeSpan \in Nat
  /\ \A m \in Machines :
       m.available_parallelism * (U32Max + 1 + MaxAccounts) + U32Max < UsizeSpan
  /\ MaxAccounts \in Nat \ {0}
  /\ MAX_ATTEMPTS \in Nat \ {0}
  /\ MaxLosses \in Nat

VARIABLES
  machine,         \* where the program runs, and how it was built
  session,         \* the commands
  current,         \* which of them runs
  phase,           \* how far it is, or how it ended
  message,         \* the expect that failed, or None
  accounts,        \* keys of from_accounts and to_accounts
  attempts,        \* attempts to connect that failed
  api_up,          \* the connection of api is alive
  hook_installed,  \* a Ctrl-C handler was set in this process
  node,            \* "down", "starting" (it accepts connections) or "serving"
  losses,          \* how often it went down
  chain_spec,      \* keys of the accounts its chain spec endows
  endowed,         \* keys of the accounts that exist on its chain
  met, last_met    \* history: what the command's contacts with the node met

metVars == <<met, last_met>>
commandVars == <<session, current, phase, message, accounts, attempts, api_up, hook_installed, metVars>>
nodeVars == <<node, losses, endowed>>
vars == <<machine, commandVars, chain_spec, nodeVars>>

command == session[current]
Ended == {"built", "answered", "written", "failed", "panicked", "aborted"}

-------------------------------------------------------------------------------
(* Accounts. *)

IsRange(c) == c.start_id # None \/ (c.account_id # None /\ Parse[c.account_id] # None)
StartId(c) == IF c.start_id # None THEN c.start_id ELSE Parse[c.account_id]
LastId(c)  == IF c.start_id # None /\ c.last_id # None THEN c.last_id ELSE StartId(c)

(* AccountsDescription::Derived(from..to): last_id + 1 is a u32. *)
Overflows(c) == LastId(c) = U32Max
(* Mutant: the last id is left out. *)
RangeEnd_Exclusive(c) == LastId(c)

RangeEnd(c) == (LastId(c) + 1) % (U32Max + 1)

(* to_id - from_id and thread_idx * n are usize: they wrap in a release build. *)
Length(from, to) == (to - from) % UsizeSpan
Threads(from, to) ==
  IF Length(from, to) < machine.available_parallelism
  THEN Length(from, to) ELSE machine.available_parallelism

(* Mutant: the formula that is commented out, which forgets the remainder. *)
ChunkStart_Truncated(k, from, to) == from + k * (Length(from, to) \div Threads(from, to))

ChunkStart(k, from, to) ==
  (from + ((k * Length(from, to)) % UsizeSpan) \div Threads(from, to)) % UsizeSpan

(* The ids the k-th thread derives, counting from 0. *)
Chunk(k, from, to) == ChunkStart(k, from, to)..(ChunkStart(k + 1, from, to) - 1)
DerivedIds(from, to) == UNION {Chunk(k, from, to) : k \in 0..(Threads(from, to) - 1)}

(* The accounts the transactions of a scenario name. *)
Signers(c) ==
  IF c.start_id # None THEN {to_string[i] : i \in c.start_id..LastId(c)} ELSE {c.account_id}

-------------------------------------------------------------------------------
(* The program. *)

End(how, why) == phase' = how /\ message' = why
Go(where) == End(where, None)
Meets == met' = met \cup {node} /\ last_met' = node

Init ==
  /\ machine \in Machines
  /\ session \in Sessions /\ current = 1
  /\ phase = "configure" /\ message = None
  /\ accounts = {}
  /\ attempts = 0
  /\ api_up = FALSE
  /\ hook_installed = FALSE
  /\ node \in {"down", "starting", "serving"}
  /\ losses = 0
  /\ chain_spec = {}
  /\ endowed = Keyring
  /\ met = {} /\ last_met = None

(* What the builder, or main, finds missing before it does anything. *)
Misconfigured(c) ==
  \/ c.name # "endow" /\ c.chain \in {None, "fake"}
  \/ c.name = "tx" /\ (~c.rpc_uri \/ c.payload \notin {"recipe", c.chain})
  \/ c.start_id = None /\ c.account_id = None
  \/ machine.debug_build /\ IsRange(c) /\ Overflows(c)

Configure ==
  /\ phase = "configure"
  /\ IF Misconfigured(command) THEN End("panicked", "configuration")
     ELSE Go(IF command.block_monitor THEN "monitor"
             ELSE IF command.name = "endow" /\ command.chain = "fake" THEN "write"
             ELSE "derive")
  /\ UNCHANGED <<machine, session, current, accounts, attempts, api_up, hook_installed, metVars, chain_spec, nodeVars>>

(* BlockMonitor::new is an argument of the sink's constructor: it comes first,
   and it tries once. *)
ConnectMonitor ==
  /\ phase = "monitor"
  /\ Meets
  /\ IF node = "serving" THEN Go("derive") ELSE End("panicked", "should connect to rpc client")
  /\ UNCHANGED <<machine, session, current, accounts, attempts, api_up, hook_installed, chain_spec, nodeVars>>

(* derive_accounts, for the senders and then for the receivers. *)
Derive ==
  /\ phase = "derive"
  /\ LET from == StartId(command)
         to == RangeEnd(command)
         next == IF command.name = "endow" THEN "write" ELSE "connect"
     IN \/ /\ IsRange(command) /\ to < from /\ machine.debug_build
           /\ End("panicked", "attempt to subtract with overflow")
           /\ UNCHANGED accounts
        \/ /\ IsRange(command) /\ ~(to < from /\ machine.debug_build)
           /\ IF Cardinality(DerivedIds(from, to)) > MaxAccounts
              THEN End("aborted", "out of memory") /\ UNCHANGED accounts
              ELSE Go(next) /\ accounts' = {to_string[i] : i \in DerivedIds(from, to)}
        \/ /\ ~IsRange(command)
           /\ IF command.account_id \in Keyring
              THEN Go(next) /\ accounts' = {command.account_id}
              ELSE End("panicked", "unknown keyring name") /\ UNCHANGED accounts
  /\ UNCHANGED <<machine, session, current, attempts, api_up, hook_installed, metVars, chain_spec, nodeVars>>

(* helpers::client(url).await? : a refused connection ends connect() at once. *)
Connect ==
  /\ phase = "connect"
  /\ Meets
  /\ IF node = "down" THEN End("panicked", "should connect to rpc client") ELSE Go("backend")
  /\ UNCHANGED <<machine, session, current, accounts, attempts, api_up, hook_installed, chain_spec, nodeVars>>

(* Mutant: it sleeps and tries again, without counting. *)
FromBackend_Uncounted ==
  /\ phase = "backend"
  /\ Meets
  /\ Go(IF node = "serving" THEN "client" ELSE "connect")
  /\ api_up' = (node = "serving")
  /\ UNCHANGED <<machine, session, current, accounts, attempts, hook_installed, chain_spec, nodeVars>>

(* Mutant: attempts are counted from 0 to MAX_ATTEMPTS. *)
FromBackend_OneMore ==
  /\ phase = "backend"
  /\ Meets
  /\ IF node = "serving" THEN Go("client") /\ api_up' = TRUE /\ UNCHANGED attempts
     ELSE /\ attempts' = attempts + 1
          /\ IF attempts = MAX_ATTEMPTS
             THEN End("panicked", "should connect to rpc client") ELSE Go("connect")
          /\ UNCHANGED api_up
  /\ UNCHANGED <<machine, session, current, accounts, hook_installed, chain_spec, nodeVars>>

(* Mutant: the last attempt is not made. *)
FromBackend_OneShort ==
  /\ phase = "backend"
  /\ Meets
  /\ IF node = "serving" THEN Go("client") /\ api_up' = TRUE /\ UNCHANGED attempts
     ELSE /\ attempts' = attempts + 1
          /\ IF attempts + 2 >= MAX_ATTEMPTS
             THEN End("panicked", "should connect to rpc client") ELSE Go("connect")
          /\ UNCHANGED api_up
  /\ UNCHANGED <<machine, session, current, accounts, hook_installed, chain_spec, nodeVars>>

(* OnlineClient::from_backend asks the node for its metadata: if that fails
   connect() sleeps and tries again, MAX_ATTEMPTS times. *)
FromBackend ==
  /\ phase = "backend"
  /\ Meets
  /\ IF node = "serving" THEN Go("client") /\ api_up' = TRUE /\ UNCHANGED attempts
     ELSE /\ attempts' = attempts + 1
          /\ IF attempts + 1 = MAX_ATTEMPTS
             THEN End("panicked", "should connect to rpc client") ELSE Go("connect")
          /\ UNCHANGED api_up
  /\ UNCHANGED <<machine, session, current, accounts, hook_installed, chain_spec, nodeVars>>

(* The sink's rpc_client is a second connection. *)
ConnectClient ==
  /\ phase = "client"
  /\ Meets
  /\ IF node = "down" THEN End("panicked", "should connect to rpc client")
     ELSE Go(IF command.name = "tx" THEN "transactions" ELSE "answer")
  /\ UNCHANGED <<machine, session, current, accounts, attempts, api_up, hook_installed, chain_spec, nodeVars>>

(* Mutant: an account that is missing gets no transactions. *)
BuildTransactions_Lenient ==
  /\ phase = "transactions"
  /\ IF ~command.nonce_from /\ Signers(command) # {}
        /\ ~(api_up /\ Signers(command) \cap accounts \subseteq endowed)
     THEN End("panicked", "account nonce shall exists") ELSE Go("hook")
  /\ UNCHANGED <<machine, session, current, accounts, attempts, api_up, hook_installed, metVars, chain_spec, nodeVars>>

(* build_transactions looks the accounts up, and fetches their nonces through
   the api unless nonce_from is given. *)
BuildTransactions ==
  /\ phase = "transactions"
  /\ IF ~(Signers(command) \subseteq accounts) THEN End("panicked", "to account exists")
     ELSE IF ~command.nonce_from /\ Signers(command) # {} /\ ~(api_up /\ Signers(command) \subseteq endowed)
     THEN End("panicked", "account nonce shall exists")
     ELSE Go("hook")
  /\ UNCHANGED <<machine, session, current, accounts, attempts, api_up, hook_installed, metVars, chain_spec, nodeVars>>

(* Runner::new, and the Ctrl-C hook: one handler per process. *)
InstallHook ==
  /\ phase = "hook"
  /\ IF command.ctrlc_hook /\ hook_installed
     THEN End("panicked", "Error setting Ctrl-C handler") ELSE Go("built")
  /\ hook_installed' = (hook_installed \/ command.ctrlc_hook)
  /\ UNCHANGED <<machine, session, current, accounts, attempts, api_up, metVars, chain_spec, nodeVars>>

(* CheckNonce: what build() panics about is an error here. *)
AnswerNonce ==
  /\ phase = "answer"
  /\ Go(IF command.account_id \in accounts /\ api_up /\ command.account_id \in endowed
        THEN "answered" ELSE "failed")
  /\ UNCHANGED <<machine, session, current, accounts, attempts, api_up, hook_installed, metVars, chain_spec, nodeVars>>

(* GenerateEndowedAccounts adds what it derived to the balances of a chain spec,
   if that can be read and has any, and writes the result over the output file,
   which is the one the node is started with. *)
WriteEndowed ==
  /\ phase = "write"
  /\ \/ Go("failed") /\ UNCHANGED chain_spec
     \/ Go("written") /\ chain_spec' = accounts
  /\ UNCHANGED <<machine, session, current, accounts, attempts, api_up, hook_installed, metVars, nodeVars>>

(* The next command; a library's user may build a second scenario in the
   process of the first. *)
HasNext ==
  current < Len(session) /\ (session[current + 1].same_process => phase = "built")

NextCommand ==
  /\ phase \in Ended
  /\ HasNext
  /\ current' = current + 1
  /\ hook_installed' = (hook_installed /\ session[current + 1].same_process)
  /\ Go("configure")
  /\ accounts' = {} /\ attempts' = 0 /\ api_up' = FALSE /\ met' = {} /\ last_met' = None
  /\ UNCHANGED <<machine, session, chain_spec, nodeVars>>

Step ==
  \/ Configure \/ ConnectMonitor \/ Derive \/ Connect \/ FromBackend \/ ConnectClient
  \/ BuildTransactions \/ InstallHook \/ AnswerNonce \/ WriteEndowed \/ NextCommand

-------------------------------------------------------------------------------
(* The node: it is started with the chain spec as it is then. *)

NodeStarts ==
  /\ node = "down"
  /\ node' = "starting"
  /\ endowed' = Keyring \cup chain_spec
  /\ UNCHANGED <<machine, commandVars, chain_spec, losses>>

NodeServes ==
  /\ node = "starting"
  /\ node' = "serving"
  /\ UNCHANGED <<machine, commandVars, chain_spec, losses, endowed>>

(* Every connection goes down with the node, and is not made again. *)
NodeLost ==
  /\ node # "down"
  /\ losses < MaxLosses
  /\ node' = "down"
  /\ losses' = losses + 1
  /\ api_up' = FALSE
  /\ UNCHANGED <<machine, session, current, phase, message, accounts, attempts, hook_installed, metVars, chain_spec, endowed>>

StartupOver == phase \in Ended /\ ~HasNext /\ UNCHANGED vars

Next == Step \/ NodeStarts \/ NodeServes \/ NodeLost \/ StartupOver

Spec == Init /\ [][Next]_vars

(* The program runs; the node may do what it wants, as a request to a node
   that is gone fails and one that hangs runs into the client's timeout. *)
FairSpec == Spec /\ WF_vars(Step)

-------------------------------------------------------------------------------
(* Properties. *)

(* Every variable stays in its type; in particular connect() never counts more
   than MAX_ATTEMPTS failures (subxt_api_connector.rs:20-54). *)
TypeOK ==
  /\ machine \in Machines
  /\ session \in Sessions /\ current \in 1..Len(session)
  /\ phase \in Ended \cup {"configure", "monitor", "derive", "connect", "backend", "client",
                           "transactions", "hook", "answer", "write"}
  /\ message \in Message \cup {None}
  /\ (message = None) <=> (phase \notin {"panicked", "aborted"})
  /\ accounts \subseteq Names
  /\ attempts \in 0..MAX_ATTEMPTS
  /\ api_up \in BOOLEAN /\ hook_installed \in BOOLEAN
  /\ node \in {"down", "starting", "serving"}
  /\ losses \in 0..MaxLosses
  /\ chain_spec \subseteq Names /\ endowed \subseteq Names
  /\ api_up => "serving" \in met /\ node # "down"

(* However many threads share a range, each of its ids is derived by exactly
   one of them, and nothing else is (subxt_transaction.rs:469-508). *)
DerivedOnce(from, to) ==
  /\ DerivedIds(from, to) = from..(to - 1)
  /\ \A j, k \in 0..(Threads(from, to) - 1) :
       j # k => Chunk(j, from, to) \cap Chunk(k, from, to) = {}
RangeDerivedOnce ==
  LET from == StartId(command)
      to == RangeEnd(command)
  IN IsRange(command) /\ from <= to => DerivedOnce(from, to)

(* What a user has to get right. An account given by name is one of the keyring
   or "in the form of a number" (scenario.rs:271), the largest number is out of
   reach, and a range fits into memory. *)
SoundAccounts(c) ==
  IF c.start_id # None
  THEN LastId(c) < U32Max /\ c.start_id <= LastId(c) + 1 /\ LastId(c) - c.start_id < MaxAccounts
  ELSE c.account_id \in Keyring \/ Parse[c.account_id] \in Id \ {U32Max}

(* An account is derived under the name of the keyring, or under the number the
   way the program writes it, and looked up the way the user wrote it. *)
NamedAsDerived(c) ==
  c.start_id = None => c.account_id \in Keyring \cup {to_string[i] : i \in Id}

Sound(c) ==
  /\ c.chain \in {"sub", "eth"}
  /\ c.name = "tx" => c.rpc_uri /\ c.payload \in {"recipe", c.chain}
  /\ c.start_id # None \/ c.account_id # None
  /\ SoundAccounts(c)

(* The node answered whenever the command turned to it, and still does. *)
Steady == node # "down" /\ losses = 0 /\ met \subseteq {"serving"}

(* A sound command at a node that serves unwinds for three reasons only: a hook
   that the process already has, accounts the chain does not know, and a number
   written as the program would not write it, which does not "behave the same as
   using with_start_id" (scenario.rs:270-273, 546-609,
   subxt_transaction.rs:227-250, 468-516, 649-664). *)
SoundIsBuilt ==
  Sound(command) /\ Steady =>
    /\ phase # "aborted"
    /\ phase = "panicked" =>
         \/ message = "Error setting Ctrl-C handler" /\ command.ctrlc_hook /\ hook_installed
         \/ /\ message = "account nonce shall exists"
            /\ ~command.nonce_from /\ ~(Signers(command) \subseteq endowed)
         \/ message = "to account exists" /\ ~NamedAsDerived(command)

(* A scenario that is built signs with exactly the accounts it was asked for,
   and they exist: a range that wraps, or an account the program does not find
   under the name it was given, a number among them, never gets as far as a
   runner that sends something else (scenario.rs:551-568,
   subxt_transaction.rs:651-664). *)
BuiltSignsForAll ==
  phase = "built" =>
    /\ Signers(command) = {} \/ (Sound(command) /\ NamedAsDerived(command))
    /\ Signers(command) \subseteq accounts
    /\ api_up /\ ~command.nonce_from => Signers(command) \subseteq endowed

(* connect() gives up for two reasons only: the node refused the connection, or
   MAX_ATTEMPTS times it did not answer; a monitored scenario also when the
   node was not serving at its very first contact
   (subxt_api_connector.rs:20-54, block_monitor.rs:76-80). *)
GivesUpForAReason ==
  message = "should connect to rpc client" =>
    \/ last_met = "down"
    \/ attempts = MAX_ATTEMPTS
    \/ command.block_monitor /\ accounts = {}

(* Funds for a range cover the scenarios on it: once the node runs on a chain
   spec written for the ids from start_id to last_id, and not again for others,
   a scenario on ids among them finds all of its accounts on the chain
   (main.rs:221-283 against scenario.rs:551-553). *)
EndowedSuffices ==
  \A i \in 1..(current - 1) :
    LET written == session[i] IN
      /\ written.name = "endow" /\ written.chain = command.chain
      /\ \A j \in 1..(current - 1) : session[j].name = "endow" => j = i
      /\ command.name = "tx" /\ IsRange(command) /\ IsRange(written)
      /\ StartId(written) <= StartId(command) /\ LastId(command) <= LastId(written)
      /\ chain_spec # {} /\ chain_spec \subseteq endowed
      /\ phase = "built" \/ message = "account nonce shall exists"
      => Signers(command) \subseteq endowed

(* A command ends, whatever the node does (subxt_api_connector.rs:20-54). *)
StartupEnds == []<>(phase \in Ended)
===============================================================================
