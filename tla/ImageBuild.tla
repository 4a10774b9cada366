----------------------------- MODULE ImageBuild -----------------------------
(***************************************************************************)
(* checkpointctl build: CreateImageFromCheckpoint runs buildah to make an   *)
(* empty container, to add the archive, to set one annotation after the     *)
(* other and to commit the container as an image; a deferred buildah rm     *)
(* removes the container.  Several builds share buildah's store, and other  *)
(* programs replace the archives.                                          *)
(*                                                                         *)
(* The store is buildah's, known from the calls alone: a command that fails *)
(* changes nothing, and from gives every container a name of its own.       *)
(***************************************************************************)
EXTENDS Naturals

CONSTANTS
  Builders,    \* runs of checkpointctl build
  Paths,       \* archives they may be given
  ImageNames,  \* image names they may be given
  Containers,  \* container names buildah may choose
  Keys,        \* the annotations of getCheckpointAnnotations
  Contents,    \* what an archive may hold
  Good,        \* the contents whose dumps extract, parse and name an engine
  NoArchive, NoContainer, NoImage

ASSUME BuildAssumption ==
  /\ Good \subseteq Contents
  /\ NoArchive \notin Contents
  /\ NoContainer \notin Containers
  /\ NoImage \notin [by : Builders, payload : Contents, notes : SUBSET (Keys \X Contents)]

VARIABLES
  archive,    \* what each path holds now
  live,       \* the containers of buildah's store
  layers,     \* what was added to a container
  notes,      \* its annotations, pairs of key and the content they tell of
  images,     \* the images of the store
  request,    \* the path and the image name each build was given
  pc,
  container,  \* newContainer
  tempDir,    \* the directory of getCheckpointAnnotations exists
  stuck,      \* what the deferred calls could not remove
  found,      \* the content the annotations were read from
  todo,       \* the annotations the loop has not come to
  status,
  replaced,   \* history: the paths replaced since a build added its archive
  published   \* history: the builds whose commit has happened

store == <<live, layers, notes, images, published>>
local == <<container, tempDir, stuck, found, todo>>
vars == <<archive, store, request, pc, local, status, replaced>>

Running == {"from", "add", "temp", "extract", "untemp", "annotate", "commit", "rm"}
Ended == {"exit", "killed", "orphan"}  \* orphan: killed, its commit still runs

-----------------------------------------------------------------------------
Init ==
  /\ archive \in [Paths -> Contents \union {NoArchive}]
  /\ live = {}
  /\ layers = [c \in Containers |-> NoArchive]
  /\ notes = [c \in Containers |-> {}]
  /\ images = [n \in ImageNames |-> NoImage]
  /\ request \in [Builders -> [path : Paths, image : ImageNames]]
  /\ pc = [p \in Builders |-> "from"]
  /\ container = [p \in Builders |-> NoContainer]
  /\ tempDir = [p \in Builders |-> FALSE]
  /\ stuck = [p \in Builders |-> {}]
  /\ found = [p \in Builders |-> NoArchive]
  /\ todo = [p \in Builders |-> {}]
  /\ status = [p \in Builders |-> "none"]
  /\ replaced = [p \in Builders |-> FALSE]
  /\ published = {}

Goto(p, next) == pc' = [pc EXCEPT ![p] = next]

(* An error return: what is deferred is next.                               *)
FailTo(p, next) ==
  /\ status' = [status EXCEPT ![p] = "error"]
  /\ Goto(p, next)

FreshAny == Containers  \* mutant: a name that may be taken

(* buildah gives the new container a name no other container has.            *)
Fresh == Containers \ live

From(p) ==
  /\ pc[p] = "from"
  /\ \E c \in Fresh :
       /\ live' = live \union {c}
       /\ container' = [container EXCEPT ![p] = c]
       /\ layers' = [layers EXCEPT ![c] = NoArchive]
       /\ notes' = [notes EXCEPT ![c] = {}]
  /\ Goto(p, "add")
  /\ UNCHANGED <<archive, images, published, request, tempDir, stuck, found,
                 todo, status, replaced>>

FromFails(p) ==
  /\ pc[p] = "from"
  /\ FailTo(p, "exit")
  /\ UNCHANGED <<archive, store, request, local, replaced>>

Add(p) ==
  /\ pc[p] = "add"
  /\ archive[request[p].path] # NoArchive
  /\ layers' = [layers EXCEPT ![container[p]] = archive[request[p].path]]
  /\ replaced' = [replaced EXCEPT ![p] = FALSE]
  /\ Goto(p, "temp")
  /\ UNCHANGED <<archive, live, notes, images, published, request, local, status>>

(* mutant: an error before the annotations ends the build at once            *)
UndeferredAddFails(p) ==
  /\ pc[p] = "add"
  /\ FailTo(p, "exit")
  /\ UNCHANGED <<archive, store, request, local, replaced>>

AddFails(p) ==
  /\ pc[p] = "add"
  /\ FailTo(p, "rm")
  /\ UNCHANGED <<archive, store, request, local, replaced>>

MakeTemp(p) ==
  /\ pc[p] = "temp"
  /\ \/ /\ tempDir' = [tempDir EXCEPT ![p] = TRUE]
        /\ Goto(p, "extract")
        /\ UNCHANGED status
     \/ FailTo(p, "rm") /\ UNCHANGED tempDir
  /\ UNCHANGED <<archive, store, request, container, stuck, found, todo, replaced>>

(* mutant: the dumps are not checked                                         *)
ExtractUnchecked(p) ==
  /\ pc[p] = "extract"
  /\ found' = [found EXCEPT ![p] = archive[request[p].path]]
  /\ todo' = [todo EXCEPT ![p] = Keys]
  /\ Goto(p, "untemp")
  /\ UNCHANGED <<archive, store, request, container, tempDir, stuck, status, replaced>>

(* UntarFiles opens the archive anew; the dumps it leaves are parsed.        *)
(* Whatever fails, the directory goes and then the container.               *)
Extract(p) ==
  /\ pc[p] = "extract"
  /\ IF archive[request[p].path] \in Good
     THEN /\ found' = [found EXCEPT ![p] = archive[request[p].path]]
          /\ todo' = [todo EXCEPT ![p] = Keys]
          /\ Goto(p, "untemp")
          /\ UNCHANGED status
     ELSE FailTo(p, "untemp") /\ UNCHANGED <<found, todo>>
  /\ UNCHANGED <<archive, store, request, container, tempDir, stuck, replaced>>

ExtractFails(p) ==
  /\ pc[p] = "extract"
  /\ FailTo(p, "untemp")
  /\ UNCHANGED <<archive, store, request, local, replaced>>

(* The deferred os.RemoveAll, whose error is dropped.                        *)
RemoveTemp(p) ==
  /\ pc[p] = "untemp"
  /\ \/ tempDir' = [tempDir EXCEPT ![p] = FALSE] /\ UNCHANGED stuck
     \/ stuck' = [stuck EXCEPT ![p] = @ \union {"tempDir"}] /\ UNCHANGED tempDir
  /\ Goto(p, IF status[p] = "error" THEN "rm" ELSE "annotate")
  /\ UNCHANGED <<archive, store, request, container, found, todo, status, replaced>>

(* mutant: the archive is read again for every annotation                    *)
AnnotateAnew(p) ==
  /\ pc[p] = "annotate"
  /\ \E key \in todo[p] :
       /\ notes' = [notes EXCEPT
            ![container[p]] = @ \union {<<key, archive[request[p].path]>>}]
       /\ todo' = [todo EXCEPT ![p] = @ \ {key}]
  /\ UNCHANGED <<archive, live, layers, images, published, request, pc, container,
                 tempDir, stuck, found, status, replaced>>

(* The loop over the map, in any order.  A failing buildah config is         *)
(* reported on stdout and the loop goes on.                                 *)
Annotate(p) ==
  /\ pc[p] = "annotate"
  /\ \E key \in todo[p] :
       /\ \/ notes' = [notes EXCEPT ![container[p]] = @ \union {<<key, found[p]>>}]
          \/ UNCHANGED notes
       /\ todo' = [todo EXCEPT ![p] = @ \ {key}]
  /\ UNCHANGED <<archive, live, layers, images, published, request, pc, container,
                 tempDir, stuck, found, status, replaced>>

AnnotateEnds(p) ==
  /\ pc[p] = "annotate"
  /\ todo[p] = {}
  /\ Goto(p, "commit")
  /\ UNCHANGED <<archive, store, request, local, status, replaced>>

Image(p) ==
  [by |-> p, payload |-> layers[container[p]], notes |-> notes[container[p]]]

Publish(p) ==
  /\ images' = [images EXCEPT ![request[p].image] = Image(p)]
  /\ published' = published \union {p}

Commit(p) ==
  /\ pc[p] = "commit"
  /\ Publish(p)
  /\ status' = [status EXCEPT ![p] = "ok"]
  /\ Goto(p, "rm")
  /\ UNCHANGED <<archive, live, layers, notes, request, local, replaced>>

(* mutant: a failing commit is reported and the build goes on                *)
LenientCommitFails(p) ==
  /\ pc[p] = "commit"
  /\ status' = [status EXCEPT ![p] = "ok"]
  /\ Goto(p, "rm")
  /\ UNCHANGED <<archive, store, request, local, replaced>>

CommitFails(p) ==
  /\ pc[p] = "commit"
  /\ FailTo(p, "rm")
  /\ UNCHANGED <<archive, store, request, local, replaced>>

(* The deferred buildah rm, which may fail with a warning.                   *)
Remove(p) ==
  /\ pc[p] = "rm"
  /\ \/ live' = live \ {container[p]} /\ UNCHANGED stuck
     \/ stuck' = [stuck EXCEPT ![p] = @ \union {"container"}] /\ UNCHANGED live
  /\ Goto(p, "exit")
  /\ UNCHANGED <<archive, layers, notes, images, published, request, container,
                 tempDir, found, todo, status, replaced>>

(* A signal: no deferred call runs.  A buildah commit that is under way is a  *)
(* process of its own and may outlive its parent.                            *)
Kill(p) ==
  /\ pc[p] \in Running
  /\ \/ Goto(p, "killed")
     \/ pc[p] = "commit" /\ Goto(p, "orphan")
  /\ UNCHANGED <<archive, store, request, local, status, replaced>>

OrphanCommit(p) ==
  /\ pc[p] = "orphan"
  /\ Publish(p)
  /\ Goto(p, "killed")
  /\ UNCHANGED <<archive, live, layers, notes, request, local, status, replaced>>

Replace(a) ==
  /\ \E c \in (Contents \union {NoArchive}) \ {archive[a]} :
       archive' = [archive EXCEPT ![a] = c]
  /\ replaced' = [p \in Builders |-> replaced[p] \/ request[p].path = a]
  /\ UNCHANGED <<store, request, pc, local, status>>

Step(p) ==
  \/ From(p) \/ FromFails(p) \/ Add(p) \/ AddFails(p) \/ MakeTemp(p)
  \/ Extract(p) \/ ExtractFails(p) \/ RemoveTemp(p)
  \/ Annotate(p) \/ AnnotateEnds(p) \/ Commit(p) \/ CommitFails(p) \/ Remove(p)

Next ==
  \/ \E p \in Builders : Step(p) \/ Kill(p) \/ OrphanCommit(p)
  \/ \E a \in Paths : Replace(a)

Spec == Init /\ [][Next]_vars

-----------------------------------------------------------------------------
(***************************************************************************)
(* Properties                                                              *)
(***************************************************************************)

ImageType ==
  [by : Builders, payload : Contents, notes : SUBSET (Keys \X Contents)]

(* Every variable holds a value of its kind; in particular the payload of an *)
(* image is the content of an archive, and annotations tell of good ones.    *)
TypeOK ==
  /\ archive \in [Paths -> Contents \union {NoArchive}]
  /\ live \subseteq Containers
  /\ layers \in [Containers -> Contents \union {NoArchive}]
  /\ notes \in [Containers -> SUBSET (Keys \X Good)]
  /\ images \in [ImageNames -> ImageType \union {NoImage}]
  /\ request \in [Builders -> [path : Paths, image : ImageNames]]
  /\ pc \in [Builders -> Running \union Ended]
  /\ container \in [Builders -> Containers \union {NoContainer}]
  /\ tempDir \in [Builders -> BOOLEAN]
  /\ stuck \in [Builders -> SUBSET {"tempDir", "container"}]
  /\ found \in [Builders -> Good \union {NoArchive}]
  /\ todo \in [Builders -> SUBSET Keys]
  /\ status \in [Builders -> {"none", "ok", "error"}]
  /\ replaced \in [Builders -> BOOLEAN]
  /\ published \subseteq Builders

(* The deferred calls of CreateImageFromCheckpoint and                        *)
(* getCheckpointAnnotations: a build that ended by itself has left neither a *)
(* container of its own nor a temporary directory, whatever failed, unless   *)
(* the removal itself failed.                                               *)
NothingLeft ==
  \A p \in Builders :
    pc[p] = "exit" =>
      /\ tempDir[p] => "tempDir" \in stuck[p]
      /\ container[p] \in live =>
           \/ "container" \in stuck[p]
           \/ \E q \in Builders \ {p} : container[q] = container[p]

(* Builds do not work on one another's containers: two containers that are   *)
(* in use are two, and they exist.                                          *)
Using(p) == pc[p] \in (Running \ {"from"}) \union {"orphan"}

ContainersApart ==
  \A p \in Builders :
    Using(p) =>
      /\ container[p] \in live
      /\ \A q \in Builders \ {p} : Using(q) => container[q] # container[p]

(* build reads the archive twice, to add it and to annotate the image.  An    *)
(* image's annotations tell of one content, and unless the archive was       *)
(* replaced after it was added they tell of the very content of the image.   *)
OneContent ==
  \A n \in ImageNames :
    images[n] # NoImage =>
      LET img == images[n] IN
      /\ \A x, y \in img.notes : x[2] = y[2]
      /\ ~replaced[img.by] => \A x \in img.notes : x[2] = img.payload

(* build's help: the metadata of the checkpoint is applied as annotations of  *)
(* the image.  A build that reports success has given its image all of them. *)
AnnotationsApplied ==
  \A p \in Builders :
    status[p] = "ok" /\ images[request[p].image] # NoImage =>
      LET img == images[request[p].image] IN
      img.by = p => {x[1] : x \in img.notes} = Keys

-----------------------------------------------------------------------------
(***************************************************************************)
(* CreateImageFromCheckpoint implements ImagePublish.  Success is reported   *)
(* when the deferred rm has returned, failure as soon as it is certain.      *)
(***************************************************************************)

Seen(img) == IF img = NoImage THEN NoImage ELSE [by |-> img.by, payload |-> img.payload]

Outcome(p) ==
  CASE status[p] = "error"                 -> "error"
    [] pc[p] \in {"killed", "orphan"} /\ status[p] # "error" -> "killed"
    [] pc[p] = "exit" /\ status[p] = "ok"  -> "ok"
    [] OTHER                               -> "running"

Publishing == INSTANCE ImagePublish WITH
  target <- [p \in Builders |-> request[p].image],
  images <- [n \in ImageNames |-> Seen(images[n])],
  outcome <- [p \in Builders |-> Outcome(p)]

(* A build publishes its image at most once and under the name it was given; *)
(* it reports success only for a published image and failure only for one    *)
(* that was not and will not be published.                                  *)
PublishesOnce == Publishing!Spec
=============================================================================
