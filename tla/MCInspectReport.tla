-------------------------- MODULE MCInspectReport --------------------------
(* Values for TLC: all flags of inspect that decide what is read, with and       *)
(* without --pid, and those of diff; checkpoints whose processes fork or form    *)
(* a chain, with ones that are stopped, zombies or of a state CRIU does not      *)
(* name, with environments that do not parse, and lacking any group of files.  *)
EXTENDS InspectReport

NoFlags ==
  [command |-> "inspect", all |-> FALSE, stats |-> FALSE, psTree |-> FALSE, cmd |-> FALSE,
   env |-> FALSE, files |-> FALSE, sockets |-> FALSE, pid |-> 0, format |-> "tree"]
MCCalls ==
  {[NoFlags EXCEPT !.stats = s, !.psTree = t, !.cmd = c, !.env = e, !.files = f, !.sockets = k,
                   !.pid = p, !.format = m] :
     s, t, c, e, f, k \in BOOLEAN, p \in {0, 2, 9}, m \in {"tree", "json"}}
  \union {[NoFlags EXCEPT !.all = TRUE, !.pid = p, !.format = m] :
            p \in {0, 2}, m \in {"tree", "json", "other"}}
  \union {[NoFlags EXCEPT !.command = "diff", !.cmd = c, !.env = e, !.files = f, !.sockets = k] :
            c, e, f, k \in BOOLEAN}
  \union {[NoFlags EXCEPT !.command = "memparse"]}

CheckpointOf(parent, state, badEnv) ==
  [parent |-> parent, state |-> state, sockets |-> {1, 3}, badEnv |-> badEnv, lacks |-> {}]
Fork == CheckpointOf(<<0, 1, 1, 2>>, <<"Alive", "Stopped", "Alive", "Alive">>, {})
Chain == CheckpointOf(<<2, 0, 2, 3>>, <<"Alive", "Stopped", "Alive", "Zombie">>, {3})
Groups ==
  {"spec.dump", "config.dump", "network.status", "stats-dump", "files.img", "fs-", "ids-",
   "fdinfo-", "pagemap-", "pages-", "mm-", "pstree.img", "core-"}
MCCheckpoints ==
  {Fork, Chain, [Chain EXCEPT !.badEnv = {}],
   [Fork EXCEPT !.state[2] = "Unknown", !.badEnv = {2, 4}]}
  \union {[Fork EXCEPT !.lacks = {g}] : g \in Groups}
=============================================================================
