-------------------------- MODULE PluginDiscovery --------------------------
(***************************************************************************)
(* What every checkpointctl command does before it starts: DiscoverPlugins  *)
(* goes through PATH and asks each plugin it finds for a description, main   *)
(* registers the plugins after the built-in commands, and the subcommand the *)
(* user named is looked up and run.  Files may appear and vanish meanwhile.  *)
(*                                                                         *)
(* A plugin under query is a child process that may start a descendant; both *)
(* hold the write end of the pipe that Cmd.Output reads.  They are known     *)
(* from the way os/exec is called.                                          *)
(***************************************************************************)
EXTENDS Naturals, SequencesExt

CONSTANTS
  PathDirs,     \* PATH, a sequence of directories
  Names,        \* file names without the prefix
  InOrder(_),   \* a set of them as os.ReadDir sorts it
  Unprefixed,   \* those that stand for files without the prefix
  FirstWord(_), \* the first word of a name
  FileSystems,  \* what the directories may hold
  Builtins,     \* the commands main adds itself, a sequence of names
  Implicit,     \* the commands cobra adds to them, a sequence of names
  MaxChanges    \* bound on changes of the files

PathDirSet == Range(PathDirs)

(* A link is a symbolic link to a directory, a dangling one leads nowhere.   *)
Kinds == {"none", "directory", "plain", "exec", "link", "dangling"}

ASSUME PluginAssumption ==
  /\ FileSystems \subseteq [PathDirSet -> [Names -> Kinds]]
  /\ MaxChanges \in Nat
  /\ \A S \in SUBSET Names : InOrder(S) \in Seq(Names) /\ Range(InOrder(S)) = S
  /\ PathDirs \in Seq(PathDirSet) /\ Implicit \in Seq(Range(Implicit))
  /\ Builtins \in Seq(Range(Builtins)) /\ IsInjective(Builtins)
  /\ \A n \in Range(Builtins) : FirstWord(n) = n

VARIABLES
  fs,        \* the files of the directories
  changes,   \* how often they have changed
  steady,    \* the plugins that have been where they are all the time (history)
  pc,
  dirIndex,  \* the directory of PATH being read
  listing,   \* the entries of it that are left, with their types
  seen,
  plugins,
  child,     \* the plugin under query: none, running or its exit
  holders,   \* the processes that hold the pipe open
  output,    \* whether a description was written to it
  timer,     \* the context's 500 ms
  commands,  \* rootCommand's commands
  registered, \* how many plugins main's loop has come to
  ran        \* the user's subcommand, what it turned out to be, once it runs

query == <<child, holders, output, timer>>
registration == <<commands, registered>>
vars == <<fs, changes, steady, pc, dirIndex, listing, seen, plugins, query, registration, ran>>

NoQuery ==
  child' = "none" /\ output' = FALSE /\ timer' = "none" /\ UNCHANGED holders

Goto(next) == pc' = next

(* A command of rootCommand: its name, the file of the plugin and its place on *)
(* PATH.  CreatePluginCommand gives cobra the name of the plugin, of which     *)
(* cobra takes the first word for the command's.                             *)
BuiltIn == 0
Command(n, file, from) == [name |-> n, file |-> file, from |-> from]
BuiltinCommand(n) == Command(n, n, BuiltIn)
CommandOf(plugin) == Command(FirstWord(plugin.name), plugin.name, plugin.dir)
Found == Head(listing)
Dir == PathDirs[dirIndex]

(* Names that may be subcommands.                                            *)
Subcommands == Names \ (Unprefixed \union {""})

(* The places on PATH with an entry of a name that is not a directory and that *)
(* passes the check of its mode.                                             *)
Places(n) == {i \in 1..Len(PathDirs) : fs[PathDirs[i]][n] \in {"exec", "link"}}

-----------------------------------------------------------------------------
Init ==
  /\ fs \in FileSystems
  /\ changes = 0
  /\ steady = {place \in Subcommands \X (1..Len(PathDirs)) : place[2] \in Places(place[1])}
  /\ pc = "readdir"
  /\ dirIndex = 1
  /\ listing = <<>>
  /\ seen = {}
  /\ plugins = <<>>
  /\ child = "none" /\ holders = {} /\ output = FALSE /\ timer = "none"
  /\ commands = [i \in DOMAIN Builtins |-> BuiltinCommand(Builtins[i])]
  /\ registered = 0
  /\ ran = <<>>

(* os.ReadDir: the names with their types; of a link only that it is one.    *)
Listed(dir) ==
  LET here == InOrder({n \in Names : fs[dir][n] # "none"})
  IN [i \in DOMAIN here |->
        [name |-> here[i], isDir |-> fs[dir][here[i]] = "directory"]]

ReadDir ==
  /\ pc = "readdir"
  /\ dirIndex <= Len(PathDirs)
  /\ listing' = Listed(Dir)
  /\ Goto("entry")
  /\ UNCHANGED <<fs, changes, steady, dirIndex, seen, plugins, query, registration, ran>>

NextDir ==
  /\ pc = "entry"
  /\ listing = <<>>
  /\ dirIndex' = dirIndex + 1
  /\ Goto("readdir")
  /\ UNCHANGED <<fs, changes, steady, listing, seen, plugins, query, registration, ran>>

(* mutants: a name that was found before is looked at again; any file name    *)
(* will do                                                                   *)
SkippedUnseen(entry) ==
  entry.isDir \/ entry.name \in Unprefixed \/ entry.name = ""

SkippedAnyPrefix(entry) ==
  entry.isDir \/ entry.name = "" \/ entry.name \in seen

(* The entries the loop passes over.                                         *)
Skipped(entry) ==
  entry.isDir \/ entry.name \in Unprefixed \/ entry.name = "" \/ entry.name \in seen

Entry ==
  /\ pc = "entry"
  /\ listing # <<>>
  /\ IF Skipped(Found) THEN listing' = Tail(listing) /\ UNCHANGED pc
                       ELSE Goto("stat") /\ UNCHANGED listing
  /\ UNCHANGED <<fs, changes, steady, dirIndex, seen, plugins, query, registration, ran>>

(* info.Mode()&0o111 # 0, of what a link leads to: directories have the bits. *)
Passes(kind) == kind \in {"exec", "link", "directory"}

(* mutant: the loop ends at a file that has vanished or is not executable     *)
StatAbandons ==
  /\ pc = "stat"
  /\ IF Passes(fs[Dir][Found.name])
     THEN /\ seen' = seen \union {Found.name}
          /\ Goto("start")
          /\ UNCHANGED listing
     ELSE listing' = <<>> /\ Goto("entry") /\ UNCHANGED seen
  /\ UNCHANGED <<fs, changes, steady, dirIndex, plugins, query, registration, ran>>

Stat ==
  /\ pc = "stat"
  /\ IF Passes(fs[Dir][Found.name])
     THEN /\ seen' = seen \union {Found.name}
          /\ Goto("start")
          /\ UNCHANGED listing
     ELSE listing' = Tail(listing) /\ Goto("entry") /\ UNCHANGED seen
  /\ UNCHANGED <<fs, changes, steady, dirIndex, plugins, query, registration, ran>>

(* The plugin is appended with the description it gave.                      *)
Discovered(described) ==
  /\ plugins' = Append(plugins,
       [name |-> Found.name, dir |-> dirIndex, described |-> described])
  /\ listing' = Tail(listing)
  /\ NoQuery
  /\ Goto("entry")

(* cmd.Output starts the plugin, or cannot: no file, not one to execute, or   *)
(* one the kernel refuses.                                                   *)
StartQuery ==
  /\ pc = "start"
  /\ \/ /\ fs[Dir][Found.name] = "exec"
        /\ child' = "running"
        /\ holders' = {"child"}
        /\ output' = FALSE
        /\ timer' = "armed"
        /\ Goto("wait")
        /\ UNCHANGED <<plugins, listing>>
     \/ Discovered(FALSE)
  /\ UNCHANGED <<fs, changes, steady, dirIndex, seen, registration, ran>>

(* Cmd.Wait returns when the process is reaped and the pipe is at its end.   *)
Answered == child \notin {"none", "running"} /\ holders = {}

Supports == child = "42"

EndQuery ==
  /\ pc = "wait"
  /\ Answered
  /\ Discovered(Supports /\ output)
  /\ UNCHANGED <<fs, changes, steady, dirIndex, seen, registration, ran>>

(* mutant: the context is not the command's                                  *)
TimeoutUnheard ==
  /\ pc = "wait"
  /\ timer = "armed"
  /\ timer' = "fired"
  /\ UNCHANGED <<fs, changes, steady, pc, dirIndex, listing, seen, plugins, child, holders,
                 output, registration, ran>>

(* context.WithTimeout: the child is killed.                                 *)
Timeout ==
  /\ pc = "wait"
  /\ timer = "armed"
  /\ timer' = "fired"
  /\ IF child = "running"
     THEN child' = "killed" /\ holders' = holders \ {"child"}
     ELSE UNCHANGED <<child, holders>>
  /\ UNCHANGED <<fs, changes, steady, pc, dirIndex, listing, seen, plugins, output, registration, ran>>

(* The plugin's own steps.                                                   *)
PluginStep ==
  /\ pc = "wait"
  /\ \/ holders # {} /\ output' = TRUE /\ UNCHANGED <<child, holders>>
     \/ /\ child = "running"
        /\ \E code \in {"42", "0"} : child' = code
        /\ holders' = holders \ {"child"}
        /\ UNCHANGED output
     \/ /\ child = "running"
        /\ holders' = holders \union {"descendant"}
        /\ UNCHANGED <<child, output>>
     \/ holders' = holders \ {"descendant"} /\ UNCHANGED <<child, output>>
  /\ UNCHANGED <<fs, changes, steady, pc, dirIndex, listing, seen, plugins, timer, registration, ran>>

(* mutant: plugins are registered whatever is built in                       *)
ShadowsNone(plugin) == FALSE

(* A plugin that would shadow a built-in command, by the name of its file.    *)
Shadows(plugin) == Contains(Builtins, plugin.name)

DiscoveryEnded == pc = "readdir" /\ dirIndex > Len(PathDirs)

(* One round of main's loop over the plugins.                                *)
Register ==
  /\ DiscoveryEnded /\ registered < Len(plugins)
  /\ LET plugin == plugins[registered + 1] IN
     commands' = IF Shadows(plugin) THEN commands
                 ELSE Append(commands, CommandOf(plugin))
  /\ registered' = registered + 1
  /\ UNCHANGED <<fs, changes, steady, pc, dirIndex, listing, seen, plugins, query, ran>>

(* Execute lets cobra add its own commands; help is added in any case,         *)
(* completion unless a command of that name is there.                        *)
Execute ==
  /\ DiscoveryEnded /\ registered = Len(plugins)
  /\ commands' = commands \o [i \in DOMAIN Implicit |-> BuiltinCommand(Implicit[i])]
  /\ Goto("run")
  /\ UNCHANGED <<fs, changes, steady, dirIndex, listing, seen, plugins, query, registered, ran>>

(* findNext takes the first command of that name.                            *)
Resolved(n) == commands[Min({i \in DOMAIN commands : commands[i].name = n})]

(* The user's subcommand runs.  A plugin replaces the process by the file     *)
(* that is there now, or cannot.                                            *)
RunCommand ==
  /\ pc = "run"
  /\ \E c \in Range(commands) :
       LET run == Resolved(c.name) IN
       ran' = <<[name |-> c.name, from |-> run.from,
                 started |-> run.from = BuiltIn \/ fs[PathDirs[run.from]][run.file] = "exec"]>>
  /\ Goto("exit")
  /\ UNCHANGED <<fs, changes, steady, dirIndex, listing, seen, plugins, query, registration>>

(* Somebody installs, replaces or removes a plugin.                          *)
Change ==
  /\ changes < MaxChanges
  /\ changes' = changes + 1
  /\ fs' \in FileSystems \ {fs}
  /\ steady' = {place \in steady : fs'[PathDirs[place[2]]][place[1]] \in {"exec", "link"}}
  /\ UNCHANGED <<pc, dirIndex, listing, seen, plugins, query, registration, ran>>

Step ==
  \/ ReadDir \/ NextDir \/ Entry \/ Stat \/ StartQuery \/ EndQuery
  \/ Register \/ Execute \/ RunCommand

Next == Step \/ Timeout \/ PluginStep \/ Change

(* checkpointctl is scheduled and its timer fires; what a plugin does is its  *)
(* own affair.                                                              *)
Spec == Init /\ [][Next]_vars /\ WF_vars(Step) /\ WF_vars(Timeout)

-----------------------------------------------------------------------------
(***************************************************************************)
(* Properties                                                              *)
(***************************************************************************)

FileNames == Names \union Range(Builtins) \union Range(Implicit)
CommandNames == {FirstWord(n) : n \in Names} \union Range(Builtins) \union Range(Implicit)
Origins == {BuiltIn} \union (1..Len(PathDirs))

(* Every variable holds a value of its kind; only files that have the prefix  *)
(* and a name after it were taken for plugins.                               *)
TypeOK ==
  /\ fs \in FileSystems
  /\ changes \in 0..MaxChanges
  /\ steady \subseteq Subcommands \X (1..Len(PathDirs))
  /\ pc \in {"readdir", "entry", "stat", "start", "wait", "run", "exit"}
  /\ dirIndex \in 1..(Len(PathDirs) + 1)
  /\ listing \in Seq([name : Names, isDir : BOOLEAN])
  /\ seen \subseteq Subcommands
  /\ plugins \in Seq([name : Subcommands, dir : 1..Len(PathDirs), described : BOOLEAN])
  /\ child \in {"none", "running", "42", "0", "killed"}
  /\ holders \subseteq {"child", "descendant"}
  /\ output \in BOOLEAN
  /\ timer \in {"none", "armed", "fired"}
  /\ commands \in Seq([name : CommandNames, file : FileNames, from : Origins])
  /\ registered \in 0..Len(plugins)
  /\ ran \in Seq([name : CommandNames, from : Origins, started : BOOLEAN])

(* The loops over PATH and its entries: whatever changes meanwhile, a name is *)
(* discovered once and not twice; if nothing changes, every name is found     *)
(* that is there, at its first place on PATH, and no other.                  *)
FirstInPathWins ==
  /\ \A i, j \in DOMAIN plugins : plugins[i].name = plugins[j].name => i = j
  /\ changes = 0 /\ pc = "run" =>
       {<<plugins[i].name, plugins[i].dir>> : i \in DOMAIN plugins} =
         {found \in Subcommands \X (1..Len(PathDirs)) :
            found[2] \in Places(found[1]) /\ \A i \in Places(found[1]) : found[2] <= i}

(* The same loops, whatever comes, goes and changes under them: a plugin that   *)
(* stays where it is all the time is discovered, there or at a place before,  *)
(* and no other file that vanishes or is refused can hide it.                *)
SteadyPluginsFound ==
  pc = "run" =>
    \A place \in steady : \E i \in DOMAIN plugins :
      plugins[i].name = place[1] /\ plugins[i].dir <= place[2]

(* The plugins that ask for a word.                                          *)
Claims(word) == {i \in DOMAIN plugins : FirstWord(plugins[i].name) = word}

(* main and cobra: a subcommand main has itself is never a plugin; any other   *)
(* word runs the plugin that was discovered first of those whose names begin  *)
(* with it; and where two of main's commands share a name, one is a plugin of *)
(* several words.                                                            *)
EveryNameResolves ==
  pc = "run" =>
    /\ \A n \in Range(Builtins) : Resolved(n).from = BuiltIn
    /\ \A i \in DOMAIN plugins :
         LET word == FirstWord(plugins[i].name)
         IN ~Contains(Builtins, word) =>
              Resolved(word) = CommandOf(plugins[Min(Claims(word))])
    /\ \A i, j \in 1..(Len(commands) - Len(Implicit)) :
         commands[i].name = commands[j].name /\ i # j =>
           \E k \in {i, j} : commands[k].file # commands[k].name

(* getPluginDescription's 500 ms are enough for plugins that never answer: if  *)
(* no descendant of a plugin keeps the pipe for ever, the command is reached. *)
PatientlyRuns == []<>("descendant" \notin holders) => <>(pc = "exit")

(* checkpointctl gets to its command, whatever the plugins on PATH do: they    *)
(* have 500 ms, says the comment of getPluginDescription.                    *)
CommandRuns == <>(pc = "exit")

=============================================================================
