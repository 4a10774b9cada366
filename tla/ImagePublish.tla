---------------------------- MODULE ImagePublish ----------------------------
(***************************************************************************)
(* What checkpointctl build promises about the image store: a build puts    *)
(* its image under the name it was given at most once; it reports success   *)
(* only after that, and failure only if it never does.  A build that is     *)
(* killed reports nothing, and the commit it had started may still happen.  *)
(***************************************************************************)
CONSTANTS Builders, ImageNames, Contents, NoImage

VARIABLES
  target,     \* the image name each build was given
  images,     \* what the store has under each name
  published,  \* the builds that have put their image there
  outcome     \* what a build has told its user

vars == <<target, images, published, outcome>>

Init ==
  /\ target \in [Builders -> ImageNames]
  /\ images = [n \in ImageNames |-> NoImage]
  /\ published = {}
  /\ outcome = [p \in Builders |-> "running"]

Publish(p) ==
  /\ outcome[p] \in {"running", "killed"}
  /\ p \notin published
  /\ published' = published \union {p}
  /\ \E c \in Contents :
       images' = [images EXCEPT ![target[p]] = [by |-> p, payload |-> c]]
  /\ UNCHANGED <<target, outcome>>

Report(p, how) ==
  /\ outcome[p] = "running"
  /\ outcome' = [outcome EXCEPT ![p] = how]
  /\ UNCHANGED <<target, images, published>>

Succeed(p) == p \in published /\ Report(p, "ok")
Fail(p) == p \notin published /\ Report(p, "error")
Kill(p) == Report(p, "killed")

Next == \E p \in Builders : Publish(p) \/ Succeed(p) \/ Fail(p) \/ Kill(p)

Spec == Init /\ [][Next]_vars
=============================================================================
