------------------------------ MODULE MCStartup ------------------------------
(* Startup on machines whose u32 has three bits and whose usize has six. *)
EXTENDS Startup, TLC

MCToString == [i \in 0..7 |-> ToString(i)]
NumberNames == {MCToString[i] : i \in 0..7}
DevNames == {"alice", "bob"}
MCNames == NumberNames \cup DevNames \cup {"05", "mallory"}
MCParse == [name \in MCNames |->
              IF name = "05" THEN 5
              ELSE IF name \in NumberNames THEN CHOOSE i \in 0..7 : MCToString[i] = name
              ELSE None]
MCMachines == [debug_build : BOOLEAN, available_parallelism : 1..3]

(* A scenario; the commands differ from it in what is named. *)
Plain == [name |-> "tx", chain |-> "sub", rpc_uri |-> TRUE, payload |-> "recipe",
          account_id |-> None, start_id |-> None, last_id |-> None, nonce_from |-> FALSE,
          block_monitor |-> FALSE, ctrlc_hook |-> FALSE, same_process |-> FALSE]
Many(first, last) == [Plain EXCEPT !.start_id = first, !.last_id = last]
Single(account) == [Plain EXCEPT !.account_id = account]
Endow(first, last) == [Many(first, last) EXCEPT !.name = "endow"]
CheckNonce(account) == [Single(account) EXCEPT !.name = "check_nonce"]

(* Ranges of every length, the empty, the reversed and the topmost one; every
   way to name an account; and what a library's user may leave out. *)
Alone ==
  {[Many(first, last) EXCEPT !.nonce_from = TRUE] : first \in {0, 2, 5, 7}, last \in {None, 1, 4, 6, 7}}
  \cup {[Single(account) EXCEPT !.nonce_from = given] :
          account \in {"alice", "mallory", "3", "05", "7", None}, given \in BOOLEAN}
  \cup {CheckNonce(account) : account \in {"alice", "mallory", "3", "05", "7"}}
  \cup {[Single("bob") EXCEPT !.chain = chain, !.payload = payload, !.rpc_uri = set] :
          chain \in {"sub", "eth", "fake", None}, payload \in {"recipe", "sub", "eth"}, set \in BOOLEAN}
  \cup {[Single("alice") EXCEPT !.block_monitor = TRUE]}

(* Funds first, then a scenario on them; and two scenarios in a process. *)
Pairs ==
  {<<Endow(first, 5), second>> : first \in {1, 3},
     second \in {Many(3, 5), Many(1, 2), [Many(3, 4) EXCEPT !.block_monitor = TRUE], Single("3"), CheckNonce("3")}}
  \cup {<<Endow(7, 7), Single("7")>>, <<[Endow(3, 5) EXCEPT !.chain = "fake"], Many(3, 5)>>}
  \cup {<<[Single("alice") EXCEPT !.ctrlc_hook = first],
          [Single("bob") EXCEPT !.ctrlc_hook = TRUE, !.same_process = same]>> :
          first, same \in BOOLEAN}

MCSessions == {<<c>> : c \in Alone} \cup Pairs
===============================================================================
