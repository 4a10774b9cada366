----------------------- MODULE PluginDiscoveryProofs -----------------------
(***************************************************************************)
(* Proofs about PluginDiscovery, for any PATH, any files in its directories *)
(* and any changes of them, and whatever the plugins do.                     *)
(***************************************************************************)
EXTENDS PluginDiscovery, SequenceTheorems, WellFoundedInduction, TLAPS

-----------------------------------------------------------------------------
(***************************************************************************)
(* Types                                                                   *)
(***************************************************************************)

Entries == [name : Names, isDir : BOOLEAN]
PluginType == [name : Subcommands, dir : 1..Len(PathDirs), described : BOOLEAN]
CommandType == [name : CommandNames, file : FileNames, from : Origins]

Reading == {"entry", "stat", "start", "wait"}

(* Where the loops are.                                                      *)
Loops ==
  /\ pc \in Reading => dirIndex <= Len(PathDirs)
  /\ pc \in {"stat", "start", "wait"} =>
       listing # <<>> /\ Found.name \in Subcommands /\ ~Found.isDir
  /\ pc \in {"run", "exit"} => dirIndex > Len(PathDirs) /\ registered = Len(plugins)
  /\ dirIndex <= Len(PathDirs) => registered = 0
  /\ pc # "wait" => holders = {}

TypeInv == TypeOK /\ Loops

LEMMA Lengths ==
  /\ Len(PathDirs) \in Nat /\ Len(Builtins) \in Nat /\ Len(Implicit) \in Nat
  /\ DOMAIN Builtins = 1..Len(Builtins) /\ DOMAIN Implicit = 1..Len(Implicit)
BY PluginAssumption

LEMMA BuiltinCommands ==
  /\ [i \in DOMAIN Builtins |-> BuiltinCommand(Builtins[i])] \in Seq(CommandType)
  /\ Len([i \in DOMAIN Builtins |-> BuiltinCommand(Builtins[i])]) = Len(Builtins)
<1>1. \A i \in DOMAIN Builtins : BuiltinCommand(Builtins[i]) \in CommandType
  <2>1. \A i \in DOMAIN Builtins : Builtins[i] \in CommandNames /\ Builtins[i] \in FileNames
    BY DEF CommandNames, FileNames, Range
  <2> QED BY <2>1 DEF BuiltinCommand, Command, CommandType, Origins
<1> QED BY <1>1, Lengths

LEMMA ImplicitCommands ==
  /\ [i \in DOMAIN Implicit |-> BuiltinCommand(Implicit[i])] \in Seq(CommandType)
  /\ Len([i \in DOMAIN Implicit |-> BuiltinCommand(Implicit[i])]) = Len(Implicit)
<1>1. \A i \in DOMAIN Implicit : BuiltinCommand(Implicit[i]) \in CommandType
  <2>1. \A i \in DOMAIN Implicit : Implicit[i] \in CommandNames /\ Implicit[i] \in FileNames
    BY DEF CommandNames, FileNames, Range
  <2> QED BY <2>1 DEF BuiltinCommand, Command, CommandType, Origins
<1> QED BY <1>1, Lengths

LEMMA PluginCommand ==
  ASSUME NEW plugin \in PluginType
  PROVE  CommandOf(plugin) \in CommandType
<1>1. plugin.name \in Names
  BY DEF PluginType, Subcommands
<1>2. plugin.dir \in Origins
  BY DEF PluginType, Origins
<1>3. FirstWord(plugin.name) \in CommandNames /\ plugin.name \in FileNames
  BY <1>1 DEF CommandNames, FileNames
<1> QED BY <1>2, <1>3 DEF CommandOf, Command, CommandType

LEMMA ListedType ==
  ASSUME NEW dir
  PROVE  /\ Listed(dir) \in Seq(Entries)
         /\ {Listed(dir)[k].name : k \in DOMAIN Listed(dir)} = {n \in Names : fs[dir][n] # "none"}
         /\ \A k \in DOMAIN Listed(dir) :
              Listed(dir)[k].isDir <=> fs[dir][Listed(dir)[k].name] = "directory"
<1> DEFINE S == {n \in Names : fs[dir][n] # "none"}
           here == InOrder(S)
<1>1. here \in Seq(Names) /\ Range(here) = S
  BY PluginAssumption
<1>2. Listed(dir) = [i \in DOMAIN here |->
                       [name |-> here[i], isDir |-> fs[dir][here[i]] = "directory"]]
  BY DEF Listed
<1> HIDE DEF here
<1>3. Len(here) \in Nat /\ DOMAIN here = 1..Len(here) /\ \A i \in DOMAIN here : here[i] \in Names
  BY <1>1
<1>4. Listed(dir) \in Seq(Entries)
  BY <1>2, <1>3 DEF Entries
<1>5. DOMAIN Listed(dir) = DOMAIN here /\ \A i \in DOMAIN here :
        Listed(dir)[i].name = here[i] /\ Listed(dir)[i].isDir = (fs[dir][here[i]] = "directory")
  BY <1>2
<1>6. {Listed(dir)[k].name : k \in DOMAIN Listed(dir)} = S
  BY <1>1, <1>5 DEF Range
<1> QED BY <1>4, <1>5, <1>6

LEMMA TypeInit == Init => TypeInv
<1> SUFFICES ASSUME Init PROVE TypeInv
  OBVIOUS
<1> USE DEF Init
<1>1. commands \in Seq(CommandType)
  BY BuiltinCommands
<1>2. fs \in FileSystems /\ changes \in 0..MaxChanges /\ dirIndex \in 1..(Len(PathDirs) + 1)
  BY PluginAssumption, Lengths
<1>3. listing \in Seq(Entries) /\ plugins \in Seq(PluginType) /\ ran \in Seq([name : CommandNames, from : Origins, started : BOOLEAN])
      /\ Len(plugins) = 0
  OBVIOUS
<1>4. registered \in 0..Len(plugins)
  BY <1>3
<1>s. steady \subseteq Subcommands \X (1..Len(PathDirs))
  OBVIOUS
<1> HIDE DEF Init
<1>f. /\ pc = "readdir" /\ seen = {} /\ child = "none" /\ holders = {} /\ output = FALSE
      /\ timer = "none" /\ registered = 0
  BY DEF Init
<1>5. TypeOK
  BY <1>1, <1>2, <1>3, <1>4, <1>s, <1>f DEF TypeOK, CommandType, Entries, PluginType
<1> QED BY <1>5, <1>f DEF TypeInv, Loops, Reading

(* The entry that the loops are at.                                          *)
LEMMA FoundType ==
  ASSUME TypeInv, listing # <<>>
  PROVE  Found \in Entries /\ Tail(listing) \in Seq(Entries)
<1>1. listing \in Seq(Entries)
  BY DEF TypeInv, TypeOK, Entries
<1> QED BY <1>1, HeadTailProperties DEF Found

LEMMA TypeReadDir == TypeInv /\ ReadDir => TypeInv'
<1> SUFFICES ASSUME TypeInv, ReadDir PROVE TypeInv'
  OBVIOUS
<1>1. listing' \in Seq(Entries)
  BY ListedType DEF ReadDir
<1> QED BY <1>1 DEF ReadDir, TypeInv, TypeOK, Loops, Reading, Goto, query, registration, Entries

LEMMA TypeNextDir == TypeInv /\ NextDir => TypeInv'
<1> SUFFICES ASSUME TypeInv, NextDir PROVE TypeInv'
  OBVIOUS
<1>1. dirIndex' \in 1..(Len(PathDirs) + 1)
  BY Lengths DEF NextDir, TypeInv, TypeOK, Loops, Reading
<1> QED BY <1>1 DEF NextDir, TypeInv, TypeOK, Loops, Reading, Goto, query, registration

LEMMA TypeEntry == TypeInv /\ Entry => TypeInv'
<1> SUFFICES ASSUME TypeInv, Entry PROVE TypeInv'
  OBVIOUS
<1>1. Found \in Entries /\ Tail(listing) \in Seq(Entries)
  BY FoundType DEF Entry
<1>2. ~Skipped(Found) => Found.name \in Subcommands /\ ~Found.isDir
  BY <1>1 DEF Skipped, Entries, Subcommands
<1>3. CASE Skipped(Found)
  BY <1>1, <1>3 DEF Entry, TypeInv, TypeOK, Loops, Reading, query, registration, Entries
<1>4. CASE ~Skipped(Found)
  <2>1. listing' = listing /\ Found' = Found
    BY <1>4 DEF Entry, Found
  <2> QED BY <1>2, <1>4, <2>1
          DEF Entry, TypeInv, TypeOK, Loops, Reading, Goto, query, registration
<1> QED BY <1>3, <1>4

LEMMA TypeStat == TypeInv /\ Stat => TypeInv'
<1> SUFFICES ASSUME TypeInv, Stat PROVE TypeInv'
  OBVIOUS
<1>1. listing # <<>> /\ Found.name \in Subcommands /\ ~Found.isDir
  BY DEF Stat, TypeInv, Loops
<1>2. Tail(listing) \in Seq(Entries)
  BY <1>1, FoundType
<1>3. CASE Passes(fs[Dir][Found.name])
  <2>1. listing' = listing /\ Found' = Found /\ seen' = seen \union {Found.name}
    BY <1>3 DEF Stat, Found
  <2> QED BY <1>1, <1>3, <2>1
          DEF Stat, TypeInv, TypeOK, Loops, Reading, Goto, query, registration
<1>4. CASE ~Passes(fs[Dir][Found.name])
  BY <1>2, <1>4 DEF Stat, TypeInv, TypeOK, Loops, Reading, Goto, query, registration, Entries
<1> QED BY <1>3, <1>4

LEMMA TypeDiscovered ==
  ASSUME TypeInv, pc \in {"start", "wait"}, holders = {}, NEW described \in BOOLEAN,
         Discovered(described),
         UNCHANGED <<fs, changes, steady, dirIndex, seen, registration, ran>>
  PROVE  TypeInv'
<1>1. listing # <<>> /\ Found.name \in Subcommands /\ dirIndex \in 1..Len(PathDirs) /\ registered = 0
  BY Lengths DEF TypeInv, TypeOK, Loops, Reading
<1>2. Tail(listing) \in Seq(Entries)
  BY <1>1, FoundType
<1> DEFINE new == [name |-> Found.name, dir |-> dirIndex, described |-> described]
<1>3. new \in PluginType
  BY <1>1 DEF PluginType
<1>4. plugins' = Append(plugins, new) /\ plugins \in Seq(PluginType)
  BY DEF Discovered, TypeInv, TypeOK, PluginType
<1> HIDE DEF new
<1>5. plugins' \in Seq(PluginType) /\ Len(plugins') \in Nat
  BY <1>3, <1>4
<1>6. registered' \in 0..Len(plugins') /\ registered' = 0
  BY <1>1, <1>5 DEF registration
<1>7. /\ listing' \in Seq(Entries) /\ pc' = "entry" /\ holders' = {}
      /\ child' = "none" /\ output' = FALSE /\ timer' = "none"
      /\ UNCHANGED <<fs, changes, steady, dirIndex, seen, commands, ran>>
  BY <1>2 DEF Discovered, NoQuery, Goto, registration
<1>8. TypeOK'
  BY <1>5, <1>6, <1>7 DEF TypeInv, TypeOK, Entries, PluginType
<1> QED BY <1>1, <1>6, <1>7, <1>8 DEF TypeInv, Loops, Reading

LEMMA TypeStartQuery == TypeInv /\ StartQuery => TypeInv'
<1> SUFFICES ASSUME TypeInv, StartQuery PROVE TypeInv'
  OBVIOUS
<1>1. CASE Discovered(FALSE)
  BY <1>1, TypeDiscovered DEF StartQuery, TypeInv, Loops
<1>2. CASE ~Discovered(FALSE)
  <2>1. /\ pc = "start" /\ pc' = "wait" /\ child' = "running" /\ holders' = {"child"}
        /\ output' = FALSE /\ timer' = "armed"
        /\ UNCHANGED <<fs, changes, steady, dirIndex, seen, plugins, listing, commands, registered, ran>>
    BY <1>2 DEF StartQuery, Goto, registration
  <2>2. Found' = Found
    BY <2>1 DEF Found
  <2>3. TypeOK'
    BY <2>1 DEF TypeInv, TypeOK
  <2> QED BY <2>1, <2>2, <2>3 DEF TypeInv, Loops, Reading
<1> QED BY <1>1, <1>2

LEMMA TypeEndQuery == TypeInv /\ EndQuery => TypeInv'
<1> SUFFICES ASSUME TypeInv, EndQuery PROVE TypeInv'
  OBVIOUS
<1>1. (Supports /\ output) \in BOOLEAN
  BY DEF Supports, TypeInv, TypeOK
<1> QED BY <1>1, TypeDiscovered DEF EndQuery, Answered

LEMMA TypeQuery == TypeInv /\ (Timeout \/ PluginStep) => TypeInv'
<1> SUFFICES ASSUME TypeInv, Timeout \/ PluginStep PROVE TypeInv'
  OBVIOUS
<1>1. pc = "wait" /\ UNCHANGED <<fs, changes, steady, pc, dirIndex, listing, seen, plugins, commands, registered, ran>>
  BY DEF Timeout, PluginStep, registration
<1>2. /\ child' \in {"none", "running", "42", "0", "killed"}
      /\ holders' \subseteq {"child", "descendant"}
      /\ output' \in BOOLEAN /\ timer' \in {"none", "armed", "fired"}
  BY DEF Timeout, PluginStep, TypeInv, TypeOK
<1>3. Found' = Found
  BY <1>1 DEF Found
<1> QED BY <1>1, <1>2, <1>3 DEF TypeInv, TypeOK, Loops, Reading

LEMMA TypeRegister == TypeInv /\ Register => TypeInv'
<1> SUFFICES ASSUME TypeInv, Register PROVE TypeInv'
  OBVIOUS
<1>1. plugins \in Seq(PluginType) /\ registered \in 0..Len(plugins) /\ registered < Len(plugins)
  BY DEF Register, TypeInv, TypeOK, PluginType
<1>2. plugins[registered + 1] \in PluginType /\ registered + 1 \in 0..Len(plugins)
  BY <1>1
<1> DEFINE command == CommandOf(plugins[registered + 1])
<1>3. command \in CommandType
  BY <1>2, PluginCommand
<1>4. commands' \in {commands, Append(commands, command)} /\ commands \in Seq(CommandType)
  BY DEF Register, TypeInv, TypeOK, CommandType
<1> HIDE DEF command
<1>5. commands' \in Seq(CommandType)
  BY <1>3, <1>4
<1>6. registered' \in 0..Len(plugins) /\ pc = "readdir"
      /\ UNCHANGED <<fs, changes, steady, pc, dirIndex, listing, seen, plugins, child, holders, output, timer, ran>>
  BY <1>2 DEF Register, DiscoveryEnded, query
<1>7. ~(dirIndex <= Len(PathDirs))
  <2>1. dirIndex \in Nat /\ dirIndex > Len(PathDirs)
    BY Lengths DEF Register, DiscoveryEnded, TypeInv, TypeOK
  <2> QED BY <2>1, Lengths
<1> QED BY <1>5, <1>6, <1>7 DEF TypeInv, TypeOK, Loops, Reading, CommandType

LEMMA TypeExecute == TypeInv /\ Execute => TypeInv'
<1> SUFFICES ASSUME TypeInv, Execute PROVE TypeInv'
  OBVIOUS
<1> DEFINE more == [i \in DOMAIN Implicit |-> BuiltinCommand(Implicit[i])]
<1>1. commands' = commands \o more /\ commands \in Seq(CommandType) /\ more \in Seq(CommandType)
  BY ImplicitCommands DEF Execute, TypeInv, TypeOK, CommandType
<1> HIDE DEF more
<1>2. commands' \in Seq(CommandType)
  BY <1>1
<1>3. /\ pc = "readdir" /\ pc' = "run" /\ dirIndex > Len(PathDirs) /\ registered = Len(plugins)
      /\ UNCHANGED <<fs, changes, steady, dirIndex, listing, seen, plugins, child, holders, output, timer, registered, ran>>
  BY DEF Execute, DiscoveryEnded, Goto, query
<1> QED BY <1>2, <1>3 DEF TypeInv, TypeOK, Loops, Reading, CommandType

LEMMA TypeChange == TypeInv /\ Change => TypeInv'
<1> SUFFICES ASSUME TypeInv, Change PROVE TypeInv'
  OBVIOUS
<1>1. changes' \in 0..MaxChanges /\ fs' \in FileSystems
  BY PluginAssumption DEF Change, TypeInv, TypeOK
<1>2. UNCHANGED <<pc, dirIndex, listing, seen, plugins, child, holders, output, timer, commands, registered, ran>>
  BY DEF Change, query, registration
<1>3. Found' = Found
  BY <1>2 DEF Found
<1>4. steady' \subseteq Subcommands \X (1..Len(PathDirs))
  BY DEF Change, TypeInv, TypeOK
<1> QED BY <1>1, <1>2, <1>3, <1>4 DEF TypeInv, TypeOK, Loops, Reading


LEMMA TypeStutter == TypeInv /\ UNCHANGED vars => TypeInv'
<1> SUFFICES ASSUME TypeInv, UNCHANGED vars PROVE TypeInv'
  OBVIOUS
<1>1. UNCHANGED <<fs, changes, steady, pc, dirIndex, listing, seen, plugins, child, holders, output,
                  timer, commands, registered, ran>>
  BY DEF vars, query, registration
<1>2. Found' = Found
  BY <1>1 DEF Found
<1> QED BY <1>1, <1>2 DEF TypeInv, TypeOK, Loops, Reading

-----------------------------------------------------------------------------
(***************************************************************************)
(* Discovery                                                               *)
(***************************************************************************)

PluginNames == {plugins[i].name : i \in DOMAIN plugins}
Asked == IF pc \in {"start", "wait"} THEN {Found.name} ELSE {}

(* A name is seen when its plugin is about to be asked, once.                 *)
SeenOnce ==
  /\ \A i, j \in DOMAIN plugins : plugins[i].name = plugins[j].name => i = j
  /\ seen = PluginNames \union Asked
  /\ pc \in {"start", "wait"} => Found.name \notin PluginNames
  /\ pc = "stat" => Found.name \notin seen

Left == {listing[k].name : k \in DOMAIN listing}

(* The loops have passed the place of name n in directory i.                  *)
Passed(n, i) == i < dirIndex \/ (i = dirIndex /\ pc \in Reading /\ n \notin Left)

(* The parts of FoundFirst.                                                  *)
FirstPlaces ==
  \A k \in DOMAIN plugins :
    /\ plugins[k].dir \in Places(plugins[k].name)
    /\ \A j \in Places(plugins[k].name) : plugins[k].dir <= j

PassedSeen == \A n \in Subcommands : \A i \in Places(n) : Passed(n, i) => n \in seen

KindsListed ==
  pc \in Reading => \A k \in DOMAIN listing :
    listing[k].isDir <=> fs[Dir][listing[k].name] = "directory"

AskedFirst ==
  pc \in {"start", "wait"} =>
    dirIndex \in Places(Found.name) /\ \A j \in Places(Found.name) : dirIndex <= j

(* What was found while nothing changed: plugins at the first of their places, *)
(* and all whose place the loops have passed.                                *)
FoundFirst == FirstPlaces /\ PassedSeen /\ KindsListed /\ AskedFirst

DiscoveryInv == SeenOnce /\ (changes = 0 => FoundFirst)

-----------------------------------------------------------------------------
(***************************************************************************)
(* Registration                                                            *)
(***************************************************************************)

(* The commands that main registered.                                        *)
Own == Len(commands) - (IF pc \in {"run", "exit"} THEN Len(Implicit) ELSE 0)

(* Where plugin k was registered: what is before it are main's own commands    *)
(* and plugins discovered earlier.                                           *)
Placed(i, k) ==
  /\ commands[i] = CommandOf(plugins[k])
  /\ \A h \in (Len(Builtins) + 1)..(i - 1) : \E m \in 1..(k - 1) :
       commands[h] = CommandOf(plugins[m])

RegistrationInv ==
  /\ Own \in Nat /\ Own >= Len(Builtins)
  /\ \A i \in 1..Len(Builtins) : commands[i] = BuiltinCommand(Builtins[i])
  /\ \A i \in (Len(Builtins) + 1)..Own : \E k \in 1..registered :
       commands[i] = CommandOf(plugins[k]) /\ ~Shadows(plugins[k])
  /\ \A k \in 1..registered : ~Shadows(plugins[k]) =>
       \E i \in (Len(Builtins) + 1)..Own : Placed(i, k)
  /\ \A i, j \in 1..Own : commands[i].file = commands[j].file => i = j

-----------------------------------------------------------------------------
(***************************************************************************)
(* findNext                                                                *)
(***************************************************************************)

(* Every set of numbers that is not empty has a smallest one.                *)
LEMMA LeastNatural ==
  ASSUME NEW T \in SUBSET Nat, T # {}
  PROVE  Min(T) \in T /\ \A y \in T : Min(T) <= y
<1>1. \A x, y \in Nat : y < x => <<y, x>> \in OpToRel(<, Nat)
  BY Zenon DEF OpToRel
<1>2. PICK R : IsWellFoundedOn(R, Nat) /\ \A x, y \in Nat : y < x => <<y, x>> \in R
  <2> DEFINE R == OpToRel(<, Nat)
  <2>1. IsWellFoundedOn(R, Nat)
    BY NatLessThanWellFounded, Zenon
  <2>2. \A x, y \in Nat : y < x => <<y, x>> \in R
    BY <1>1, Zenon
  <2> HIDE DEF R
  <2> WITNESS R
  <2> QED BY <2>1, <2>2, Zenon
<1>3. PICK x \in T : \A y \in T : ~(<<y, x>> \in R)
  BY <1>2, WFMin
<1>4. \A y \in T : ~(y < x)
  BY <1>2, <1>3
<1>5. \A y \in T : x <= y
  BY <1>4
<1> QED BY <1>5 DEF Min

(* A name that is among the commands runs the first command of that name.     *)
LEMMA ResolvedFirst ==
  ASSUME commands \in Seq(CommandType), NEW i \in DOMAIN commands
  PROVE  \E j \in DOMAIN commands :
           /\ j <= i /\ commands[j].name = commands[i].name
           /\ Resolved(commands[i].name) = commands[j]
           /\ commands[j] \in CommandType
<1> DEFINE T == {k \in DOMAIN commands : commands[k].name = commands[i].name}
<1>1. Len(commands) \in Nat /\ DOMAIN commands = 1..Len(commands)
  OBVIOUS
<1>2. i \in T /\ T \subseteq Nat
  BY <1>1
<1>3. Min(T) \in T /\ Min(T) <= i
  <2> HIDE DEF T
  <2> QED BY <1>2, LeastNatural
<1>4. Resolved(commands[i].name) = commands[Min(T)]
  BY DEF Resolved
<1> HIDE DEF T
<1>5. PICK j : j = Min(T)
  OBVIOUS
<1>6. j \in DOMAIN commands /\ commands[j].name = commands[i].name
  BY <1>3, <1>5 DEF T
<1>7. commands[j] \in CommandType
  BY <1>6
<1> QED BY <1>3, <1>4, <1>5, <1>6, <1>7

LEMMA TypeRunCommand == TypeInv /\ RunCommand => TypeInv'
<1> SUFFICES ASSUME TypeInv, RunCommand PROVE TypeInv'
  OBVIOUS
<1>1. commands \in Seq(CommandType)
  BY DEF TypeInv, TypeOK, CommandType
<1>2. PICK c \in Range(commands) :
        ran' = <<[name |-> c.name, from |-> Resolved(c.name).from,
                  started |-> Resolved(c.name).from = BuiltIn
                                \/ fs[PathDirs[Resolved(c.name).from]][Resolved(c.name).file] = "exec"]>>
  BY DEF RunCommand
<1>3. PICK i \in DOMAIN commands : c = commands[i]
  BY DEF Range
<1>4. c.name \in CommandNames
  <2>1. c \in CommandType
    BY <1>1, <1>3
  <2> QED BY <2>1 DEF CommandType
<1>5. PICK j \in DOMAIN commands :
        Resolved(commands[i].name) = commands[j] /\ commands[j] \in CommandType
  BY <1>1, ResolvedFirst
<1> PICK from : from = commands[j].from
  OBVIOUS
<1> PICK started \in BOOLEAN :
       started <=> (from = BuiltIn \/ fs[PathDirs[from]][Resolved(c.name).file] = "exec")
  OBVIOUS
<1>a. from \in Origins /\ from = Resolved(c.name).from
  BY <1>3, <1>5 DEF CommandType
<1>6. ran' = <<[name |-> c.name, from |-> from, started |-> started]>>
  BY <1>2, <1>a
<1>7. ran' \in Seq([name : CommandNames, from : Origins, started : BOOLEAN])
  BY <1>4, <1>a, <1>6
<1>8. pc = "run" /\ pc' = "exit"
      /\ UNCHANGED <<fs, changes, steady, dirIndex, listing, seen, plugins, child, holders, output, timer, commands, registered>>
  BY DEF RunCommand, Goto, query, registration
<1> QED BY <1>7, <1>8 DEF TypeInv, TypeOK, Loops, Reading

LEMMA TypeStep == TypeInv /\ [Next]_vars => TypeInv'
BY TypeReadDir, TypeNextDir, TypeEntry, TypeStat, TypeStartQuery, TypeEndQuery, TypeRegister,
   TypeExecute, TypeRunCommand, TypeQuery, TypeChange, TypeStutter DEF Next, Step

(* For any PATH and any files: every variable keeps to its kind, and nothing   *)
(* but a file with the prefix and a name after it is taken for a plugin.      *)
THEOREM TypeCorrect == Spec => []TypeOK
<1>1. TypeInv => TypeOK
  BY DEF TypeInv
<1> QED BY <1>1, TypeInit, TypeStep, PTL DEF Spec

-----------------------------------------------------------------------------
(***************************************************************************)
(* The first of every name on PATH                                         *)
(***************************************************************************)

LEMMA PlacesType == \A n : Places(n) \subseteq 1..Len(PathDirs)
BY DEF Places

LEMMA SamePlaces == fs' = fs => \A n : Places(n)' = Places(n)
BY DEF Places

LEMMA ListingTail ==
  ASSUME TypeInv, listing # <<>>
  PROVE  /\ 1 \in DOMAIN listing /\ Found = listing[1]
         /\ \A k \in DOMAIN Tail(listing) :
              k + 1 \in DOMAIN listing /\ Tail(listing)[k] = listing[k + 1]
         /\ \A k \in DOMAIN listing : k = 1 \/
              (k - 1 \in DOMAIN Tail(listing) /\ Tail(listing)[k - 1] = listing[k])
<1>1. listing \in Seq(Entries)
  BY DEF TypeInv, TypeOK, Entries
<1>2. Len(listing) \in Nat \ {0} /\ DOMAIN listing = 1..Len(listing)
  BY <1>1, EmptySeq
<1>3. DOMAIN Tail(listing) = 1..(Len(listing) - 1)
      /\ \A k \in 1..(Len(listing) - 1) : Tail(listing)[k] = listing[k + 1]
  BY <1>1, <1>2, HeadTailProperties
<1> QED BY <1>2, <1>3 DEF Found

LEMMA LeftOfTail ==
  ASSUME TypeInv, listing # <<>>, listing' = Tail(listing)
  PROVE  Left \subseteq Left' \union {Found.name}
<1> SUFFICES ASSUME NEW k \in DOMAIN listing, listing[k].name # Found.name
             PROVE  \E m \in DOMAIN listing' : listing'[m].name = listing[k].name
  BY DEF Left
<1>1. k - 1 \in DOMAIN Tail(listing) /\ Tail(listing)[k - 1] = listing[k]
  BY ListingTail
<1> QED BY <1>1

(* The plugin that was asked last is the last one.                           *)
LEMMA PluginAppended ==
  ASSUME TypeInv, pc \in {"start", "wait"}, NEW described, Discovered(described)
  PROVE  /\ DOMAIN plugins = 1..Len(plugins) /\ Len(plugins) \in Nat
         /\ DOMAIN plugins' = 1..(Len(plugins) + 1)
         /\ \A k \in DOMAIN plugins : plugins'[k] = plugins[k]
         /\ plugins'[Len(plugins) + 1].name = Found.name
         /\ plugins'[Len(plugins) + 1].dir = dirIndex
         /\ PluginNames' = PluginNames \union {Found.name}
<1>1. PICK new : new = [name |-> Found.name, dir |-> dirIndex, described |-> described]
  OBVIOUS
<1>2. plugins' = Append(plugins, new) /\ plugins \in Seq(PluginType)
  BY <1>1 DEF Discovered, TypeInv, TypeOK, PluginType
<1>3. /\ DOMAIN plugins = 1..Len(plugins) /\ Len(plugins) \in Nat
      /\ DOMAIN plugins' = 1..(Len(plugins) + 1)
      /\ \A k \in DOMAIN plugins : plugins'[k] = plugins[k]
      /\ plugins'[Len(plugins) + 1] = new
  BY <1>2
<1>4. new.name = Found.name /\ new.dir = dirIndex
  BY <1>1
<1>5. PluginNames' = PluginNames \union {Found.name}
  BY <1>3, <1>4 DEF PluginNames
<1> QED BY <1>3, <1>4, <1>5

LEMMA SeenInit == Init => SeenOnce
<1> SUFFICES ASSUME Init PROVE SeenOnce
  OBVIOUS
<1>1. DOMAIN plugins = {}
  BY DEF Init
<1> QED BY <1>1 DEF Init, SeenOnce, PluginNames, Asked

LEMMA SeenLooping ==
  ASSUME SeenOnce, UNCHANGED <<plugins, seen>>,
         pc \notin {"start", "wait"}, pc' \notin {"stat", "start", "wait"}
  PROVE  SeenOnce'
BY DEF SeenOnce, PluginNames, Asked

LEMMA SeenIdle ==
  ASSUME SeenOnce, UNCHANGED <<plugins, seen, listing>>,
         pc' = pc \/ (pc = "start" /\ pc' = "wait")
  PROVE  SeenOnce'
<1>1. Found' = Found
  BY DEF Found
<1> QED BY <1>1 DEF SeenOnce, PluginNames, Asked

LEMMA SeenDiscovered ==
  ASSUME TypeInv, SeenOnce, pc \in {"start", "wait"}, NEW described, Discovered(described),
         UNCHANGED seen
  PROVE  SeenOnce'
<1>1. pc' = "entry" /\ Found.name \notin PluginNames /\ seen = PluginNames \union {Found.name}
  BY DEF Discovered, Goto, SeenOnce, Asked
<1>2. \A k \in DOMAIN plugins : plugins[k].name # Found.name
  BY <1>1 DEF PluginNames
<1>3. \A i, j \in DOMAIN plugins : plugins[i].name = plugins[j].name => i = j
  BY DEF SeenOnce
<1>4. \A i, j \in DOMAIN plugins' : plugins'[i].name = plugins'[j].name => i = j
  BY <1>2, <1>3, PluginAppended
<1> QED BY <1>1, <1>4, PluginAppended DEF SeenOnce, Asked

LEMMA SeenStep == TypeInv /\ SeenOnce /\ [Next]_vars => SeenOnce'
<1> SUFFICES ASSUME TypeInv, SeenOnce, [Next]_vars PROVE SeenOnce'
  OBVIOUS
<1>1. CASE ReadDir \/ NextDir \/ Register \/ Execute \/ RunCommand
  BY <1>1, SeenLooping
     DEF ReadDir, NextDir, Register, Execute, RunCommand, DiscoveryEnded, Goto
<1>2. CASE Entry
  <2>1. CASE Skipped(Found)
    BY <1>2, <2>1, SeenLooping DEF Entry
  <2>2. CASE ~Skipped(Found)
    <3>1. pc = "entry" /\ pc' = "stat" /\ UNCHANGED <<plugins, seen, listing>>
      BY <1>2, <2>2 DEF Entry, Goto
    <3>2. Found' = Found /\ Found.name \notin seen
      BY <2>2, <3>1 DEF Found, Skipped
    <3> QED BY <3>1, <3>2 DEF SeenOnce, PluginNames, Asked
  <2> QED BY <2>1, <2>2
<1>3. CASE Stat
  <2>1. CASE Passes(fs[Dir][Found.name])
    <3>1. pc = "stat" /\ pc' = "start" /\ UNCHANGED <<plugins, listing>>
          /\ seen' = seen \union {Found.name}
      BY <1>3, <2>1 DEF Stat, Goto
    <3>2. Found' = Found
      BY <3>1 DEF Found
    <3> QED BY <3>1, <3>2 DEF SeenOnce, PluginNames, Asked
  <2>2. CASE ~Passes(fs[Dir][Found.name])
    BY <1>3, <2>2, SeenLooping DEF Stat, Goto
  <2> QED BY <2>1, <2>2
<1>4. CASE StartQuery
  <2>1. CASE Discovered(FALSE)
    BY <1>4, <2>1, SeenDiscovered DEF StartQuery
  <2>2. CASE ~Discovered(FALSE)
    BY <1>4, <2>2, SeenIdle DEF StartQuery, Goto
  <2> QED BY <2>1, <2>2
<1>5. CASE EndQuery
  <2>1. Discovered(Supports /\ output) /\ pc = "wait" /\ UNCHANGED seen
    BY <1>5 DEF EndQuery
  <2> QED BY <2>1, SeenDiscovered
<1>6. CASE Timeout \/ PluginStep \/ Change \/ UNCHANGED vars
  BY <1>6, SeenIdle DEF Timeout, PluginStep, Change, vars
<1> QED BY <1>1, <1>2, <1>3, <1>4, <1>5, <1>6 DEF Next, Step

LEMMA FirstInit == Init => FoundFirst
<1> SUFFICES ASSUME Init PROVE FoundFirst
  OBVIOUS
<1>1. DOMAIN plugins = {} /\ pc = "readdir" /\ dirIndex = 1
  BY DEF Init
<1>2. \A n, i : i \in Places(n) => ~Passed(n, i)
  BY <1>1, Lengths DEF Places, Passed, Reading
<1> QED BY <1>1, <1>2
        DEF FoundFirst, FirstPlaces, PassedSeen, KindsListed, AskedFirst, Reading

LEMMA SameFirstPlaces ==
  ASSUME FirstPlaces, UNCHANGED <<fs, plugins>>
  PROVE  FirstPlaces'
<1>1. \A n : Places(n)' = Places(n)
  BY SamePlaces
<1> QED BY <1>1 DEF FirstPlaces

(* The next entry, or none: what the rest of the listing says still holds.    *)
LEMMA SameKinds ==
  ASSUME TypeInv, KindsListed, pc \in Reading, UNCHANGED <<fs, dirIndex>>,
         listing' = listing \/ (listing # <<>> /\ listing' = Tail(listing))
  PROVE  KindsListed'
<1>1. Dir' = Dir
  BY DEF Dir
<1>2. CASE listing' = listing
  BY <1>1, <1>2 DEF KindsListed
<1>3. CASE listing # <<>> /\ listing' = Tail(listing)
  <2>1. \A k \in DOMAIN listing' : k + 1 \in DOMAIN listing /\ listing'[k] = listing[k + 1]
    BY <1>3, ListingTail
  <2> QED BY <1>1, <2>1 DEF KindsListed
<1> QED BY <1>2, <1>3

(* The entry passed over is none that this directory could give.             *)
LEMMA PassOver ==
  ASSUME TypeInv, PassedSeen, listing # <<>>, listing' = Tail(listing),
         pc \in Reading, UNCHANGED <<fs, dirIndex>>, seen \subseteq seen',
         Found.name \in Subcommands /\ dirIndex \in Places(Found.name) => Found.name \in seen'
  PROVE  PassedSeen'
<1> SUFFICES ASSUME NEW n \in Subcommands, NEW i \in Places(n)', Passed(n, i)'
             PROVE  n \in seen'
  BY DEF PassedSeen
<1>1. i \in Places(n)
  BY SamePlaces
<1>2. CASE Passed(n, i)
  BY <1>1, <1>2 DEF PassedSeen
<1>3. CASE ~Passed(n, i)
  <2>1. i = dirIndex /\ n \in Left /\ n \notin Left'
    BY <1>3 DEF Passed
  <2>2. n = Found.name
    BY <2>1, LeftOfTail
  <2> QED BY <1>1, <2>1, <2>2
<1> QED BY <1>2, <1>3

(* Nothing is passed: the loops stay where they are.                         *)
LEMMA NothingPassed ==
  ASSUME PassedSeen, UNCHANGED <<fs, dirIndex, listing>>, seen \subseteq seen',
         pc \in Reading <=> pc' \in Reading
  PROVE  PassedSeen'
<1>1. \A n : Places(n)' = Places(n)
  BY SamePlaces
<1>2. \A n, i : Passed(n, i)' => Passed(n, i)
  BY DEF Passed, Left
<1> QED BY <1>1, <1>2 DEF PassedSeen

LEMMA SameAsked ==
  ASSUME AskedFirst, UNCHANGED <<fs, dirIndex, listing>>, pc \in {"start", "wait"}
  PROVE  AskedFirst'
<1>1. Found' = Found
  BY DEF Found
<1>2. Places(Found.name)' = Places(Found.name)
  BY <1>1 DEF Places
<1> QED BY <1>1, <1>2 DEF AskedFirst

LEMMA FirstReadDir == TypeInv /\ SeenOnce /\ FoundFirst /\ ReadDir => FoundFirst'
<1> SUFFICES ASSUME TypeInv, FoundFirst, ReadDir PROVE FoundFirst'
  OBVIOUS
<1>1. /\ pc = "readdir" /\ pc' = "entry" /\ listing' = Listed(Dir)
      /\ UNCHANGED <<fs, dirIndex, seen, plugins>>
  BY DEF ReadDir, Goto
<1>2. Dir' = Dir
  BY <1>1 DEF Dir
<1>3. FirstPlaces'
  BY <1>1, SameFirstPlaces DEF FoundFirst
<1>4. Left' = {n \in Names : fs[Dir][n] # "none"}
  BY <1>1, ListedType DEF Left
<1>5. PassedSeen'
  <2> SUFFICES ASSUME NEW n \in Subcommands, NEW i \in Places(n)', Passed(n, i)'
               PROVE  n \in seen'
    BY DEF PassedSeen
  <2>1. i \in Places(n)
    BY <1>1, SamePlaces
  <2>2. i # dirIndex
    <3>1. i = dirIndex => fs[Dir][n] \in {"exec", "link"}
      BY <2>1 DEF Places, Dir
    <3>2. i = dirIndex => n \in Left'
      BY <1>4, <3>1 DEF Subcommands
    <3> QED BY <1>1, <3>2 DEF Passed, TypeInv, TypeOK
  <2>3. Passed(n, i)
    BY <1>1, <2>2 DEF Passed
  <2> QED BY <1>1, <2>1, <2>3 DEF FoundFirst, PassedSeen
<1>6. KindsListed'
  BY <1>1, <1>2, ListedType DEF KindsListed
<1>7. AskedFirst'
  BY <1>1 DEF AskedFirst
<1> QED BY <1>3, <1>5, <1>6, <1>7 DEF FoundFirst

LEMMA FirstNextDir == TypeInv /\ SeenOnce /\ FoundFirst /\ NextDir => FoundFirst'
<1> SUFFICES ASSUME TypeInv, FoundFirst, NextDir PROVE FoundFirst'
  OBVIOUS
<1>1. /\ pc = "entry" /\ pc' = "readdir" /\ listing = <<>> /\ dirIndex' = dirIndex + 1
      /\ UNCHANGED <<fs, seen, plugins>>
  BY DEF NextDir, Goto
<1>2. FirstPlaces'
  BY <1>1, SameFirstPlaces DEF FoundFirst
<1>3. Left = {}
  BY <1>1 DEF Left
<1>4. PassedSeen'
  <2> SUFFICES ASSUME NEW n \in Subcommands, NEW i \in Places(n)', Passed(n, i)'
               PROVE  n \in seen'
    BY DEF PassedSeen
  <2>1. i \in Places(n) /\ i \in Nat /\ dirIndex \in Nat
    BY <1>1, SamePlaces, PlacesType, Lengths DEF TypeInv, TypeOK
  <2>2. i < dirIndex + 1
    BY <1>1, <2>1 DEF Passed, Reading
  <2>3. i < dirIndex \/ i = dirIndex
    BY <2>1, <2>2
  <2>4. Passed(n, i)
    BY <1>1, <1>3, <2>3 DEF Passed, Reading
  <2> QED BY <1>1, <2>1, <2>4 DEF FoundFirst, PassedSeen
<1>5. KindsListed' /\ AskedFirst'
  BY <1>1 DEF KindsListed, AskedFirst, Reading
<1> QED BY <1>2, <1>4, <1>5 DEF FoundFirst

LEMMA FirstEntry == TypeInv /\ SeenOnce /\ FoundFirst /\ Entry => FoundFirst'
<1> SUFFICES ASSUME TypeInv, FoundFirst, Entry PROVE FoundFirst'
  OBVIOUS
<1>1. /\ pc = "entry" /\ pc \in Reading /\ listing # <<>>
      /\ UNCHANGED <<fs, dirIndex, seen, plugins>>
  BY DEF Entry, Reading
<1>2. FirstPlaces'
  BY <1>1, SameFirstPlaces DEF FoundFirst
<1>3. listing' = listing \/ listing' = Tail(listing)
  BY DEF Entry
<1>4. KindsListed'
  BY <1>1, <1>3, SameKinds DEF FoundFirst
<1>5. AskedFirst'
  BY <1>1 DEF Entry, Goto, AskedFirst
<1>6. PassedSeen'
  <2>1. CASE Skipped(Found)
    <3>1. listing' = Tail(listing)
      BY <2>1 DEF Entry
    <3>2. Found.isDir => dirIndex \notin Places(Found.name)
      <4>1. Found.isDir => fs[Dir][Found.name] = "directory"
        BY <1>1, ListingTail DEF FoundFirst, KindsListed
      <4> QED BY <4>1 DEF Places, Dir
    <3>3. Found.name \in Subcommands /\ dirIndex \in Places(Found.name) => Found.name \in seen
      BY <2>1, <3>2 DEF Skipped, Subcommands
    <3> QED BY <1>1, <3>1, <3>3, PassOver DEF FoundFirst
  <2>2. CASE ~Skipped(Found)
    <3>1. listing' = listing /\ pc' \in Reading
      BY <2>2 DEF Entry, Goto, Reading
    <3> QED BY <1>1, <3>1, NothingPassed DEF FoundFirst
  <2> QED BY <2>1, <2>2
<1> QED BY <1>2, <1>4, <1>5, <1>6 DEF FoundFirst

LEMMA FirstStat == TypeInv /\ SeenOnce /\ FoundFirst /\ Stat => FoundFirst'
<1> SUFFICES ASSUME TypeInv, SeenOnce, FoundFirst, Stat PROVE FoundFirst'
  OBVIOUS
<1>1. /\ pc = "stat" /\ pc \in Reading /\ listing # <<>> /\ Found.name \in Subcommands
      /\ ~Found.isDir /\ UNCHANGED <<fs, dirIndex, plugins>>
  BY DEF Stat, Reading, TypeInv, Loops
<1>2. FirstPlaces'
  BY <1>1, SameFirstPlaces DEF FoundFirst
<1>3. listing' = listing \/ listing' = Tail(listing)
  BY DEF Stat
<1>4. KindsListed'
  BY <1>1, <1>3, SameKinds DEF FoundFirst
<1>5. CASE Passes(fs[Dir][Found.name])
  <2>1. /\ pc' = "start" /\ pc' \in Reading /\ listing' = listing
        /\ seen' = seen \union {Found.name}
    BY <1>5 DEF Stat, Goto, Reading
  <2>2. PassedSeen'
    BY <1>1, <2>1, NothingPassed DEF FoundFirst
  <2>3. fs[Dir][Found.name] # "directory"
    BY <1>1, ListingTail DEF FoundFirst, KindsListed
  <2>4. dirIndex \in 1..Len(PathDirs)
    BY <1>1, Lengths DEF TypeInv, TypeOK, Loops
  <2>5. dirIndex \in Places(Found.name)
    BY <1>5, <2>3, <2>4 DEF Passes, Places, Dir
  <2>6. \A j \in Places(Found.name) : dirIndex <= j
    <3> SUFFICES ASSUME NEW j \in Places(Found.name), j < dirIndex PROVE FALSE
      BY <2>4, PlacesType, Lengths
    <3>1. Found.name \in seen
      BY <1>1 DEF FoundFirst, PassedSeen, Passed
    <3> QED BY <1>1, <3>1 DEF SeenOnce
  <2>7. Found' = Found /\ Places(Found.name)' = Places(Found.name)
    BY <1>1, <2>1 DEF Found, Places
  <2>8. AskedFirst'
    BY <1>1, <2>5, <2>6, <2>7 DEF AskedFirst
  <2> QED BY <1>2, <1>4, <2>2, <2>8 DEF FoundFirst
<1>6. CASE ~Passes(fs[Dir][Found.name])
  <2>1. pc' = "entry" /\ listing' = Tail(listing) /\ seen' = seen
    BY <1>6 DEF Stat, Goto
  <2>2. dirIndex \notin Places(Found.name)
    BY <1>6 DEF Passes, Places, Dir
  <2>3. PassedSeen'
    BY <1>1, <2>1, <2>2, PassOver DEF FoundFirst
  <2>4. AskedFirst'
    BY <2>1 DEF AskedFirst
  <2> QED BY <1>2, <1>4, <2>3, <2>4 DEF FoundFirst
<1> QED BY <1>5, <1>6

LEMMA FirstDiscovered ==
  ASSUME TypeInv, SeenOnce, FoundFirst, pc \in {"start", "wait"}, NEW described,
         Discovered(described), UNCHANGED <<fs, dirIndex, seen>>
  PROVE  FoundFirst'
<1>1. /\ pc \in Reading /\ pc' = "entry" /\ listing # <<>> /\ listing' = Tail(listing)
      /\ Found.name \in seen
  BY DEF Reading, Discovered, Goto, TypeInv, Loops, SeenOnce, Asked
<1>2. KindsListed'
  BY <1>1, SameKinds DEF FoundFirst
<1>3. PassedSeen'
  BY <1>1, PassOver DEF FoundFirst
<1>4. AskedFirst'
  BY <1>1 DEF AskedFirst
<1>5. FirstPlaces'
  <2>1. dirIndex \in Places(Found.name) /\ \A j \in Places(Found.name) : dirIndex <= j
    BY DEF FoundFirst, AskedFirst
  <2>2. \A n : Places(n)' = Places(n)
    BY SamePlaces
  <2> SUFFICES ASSUME NEW k \in DOMAIN plugins'
               PROVE  /\ plugins'[k].dir \in Places(plugins'[k].name)
                      /\ \A j \in Places(plugins'[k].name) : plugins'[k].dir <= j
    BY <2>2 DEF FirstPlaces
  <2>3. CASE k \in DOMAIN plugins
    <3>1. plugins'[k] = plugins[k]
      BY <2>3, PluginAppended
    <3> QED BY <2>3, <3>1 DEF FoundFirst, FirstPlaces
  <2>4. CASE k \notin DOMAIN plugins
    <3>1. k = Len(plugins) + 1
      BY <2>4, PluginAppended
    <3>2. plugins'[k].name = Found.name /\ plugins'[k].dir = dirIndex
      BY <3>1, PluginAppended
    <3> QED BY <2>1, <3>2
  <2> QED BY <2>3, <2>4
<1> QED BY <1>2, <1>3, <1>4, <1>5 DEF FoundFirst

(* The loops, and everything else, stay where they are.                       *)
LEMMA FirstIdle ==
  ASSUME FoundFirst, UNCHANGED <<fs, dirIndex, listing, plugins, seen>>,
         \/ pc' = pc
         \/ pc = "start" /\ pc' = "wait"
         \/ pc \notin Reading /\ pc' \notin Reading
  PROVE  FoundFirst'
<1>1. FirstPlaces' /\ PassedSeen'
  BY SameFirstPlaces, NothingPassed DEF FoundFirst, Reading
<1>2. Dir' = Dir /\ Found' = Found
  BY DEF Dir, Found
<1>3. KindsListed'
  BY <1>2 DEF FoundFirst, KindsListed, Reading
<1>4. AskedFirst'
  <2>1. CASE pc \in {"start", "wait"}
    BY <2>1, SameAsked DEF FoundFirst
  <2>2. CASE pc \notin {"start", "wait"}
    BY <2>2 DEF AskedFirst, Reading
  <2> QED BY <2>1, <2>2
<1> QED BY <1>1, <1>3, <1>4 DEF FoundFirst

LEMMA FirstStep ==
  ASSUME TypeInv, DiscoveryInv, [Next]_vars, changes' = 0
  PROVE  FoundFirst'
<1>1. CASE Change
  BY <1>1 DEF Change, TypeInv, TypeOK
<1>2. CASE ~Change
  <2>1. changes = 0
    BY <1>2 DEF Next, Step, ReadDir, NextDir, Entry, Stat, StartQuery, EndQuery, Register,
                Execute, RunCommand, Timeout, PluginStep, vars
  <2>2. SeenOnce /\ FoundFirst
    BY <2>1 DEF DiscoveryInv
  <2>3. CASE StartQuery
    <3>1. CASE Discovered(FALSE)
      BY <2>2, <2>3, <3>1, FirstDiscovered DEF StartQuery
    <3>2. CASE ~Discovered(FALSE)
      BY <2>2, <2>3, <3>2, FirstIdle DEF StartQuery, Goto
    <3> QED BY <3>1, <3>2
  <2>4. CASE EndQuery
    <3>1. Discovered(Supports /\ output) /\ pc = "wait" /\ UNCHANGED <<fs, dirIndex, seen>>
      BY <2>4 DEF EndQuery
    <3> QED BY <2>2, <3>1, FirstDiscovered
  <2>5. CASE Register \/ Execute \/ RunCommand \/ Timeout \/ PluginStep \/ UNCHANGED vars
    BY <2>2, <2>5, FirstIdle
       DEF Register, Execute, RunCommand, Timeout, PluginStep, vars, DiscoveryEnded, Goto, Reading
  <2> QED BY <1>2, <2>2, <2>3, <2>4, <2>5, FirstReadDir, FirstNextDir, FirstEntry, FirstStat
          DEF Next, Step
<1> QED BY <1>1, <1>2

LEMMA DiscoveryStep == TypeInv /\ DiscoveryInv /\ [Next]_vars => DiscoveryInv'
BY SeenStep, FirstStep DEF DiscoveryInv

(* Once the loops are done, the plugins are the first files of their names.   *)
LEMMA DiscoveryResult == TypeInv /\ DiscoveryInv => FirstInPathWins
<1> SUFFICES ASSUME TypeInv, DiscoveryInv PROVE FirstInPathWins
  OBVIOUS
<1>1. \A i, j \in DOMAIN plugins : plugins[i].name = plugins[j].name => i = j
  BY DEF DiscoveryInv, SeenOnce
<1>2. ASSUME changes = 0, pc = "run"
      PROVE  {<<plugins[i].name, plugins[i].dir>> : i \in DOMAIN plugins} =
               {found \in Subcommands \X (1..Len(PathDirs)) :
                  found[2] \in Places(found[1]) /\ \A i \in Places(found[1]) : found[2] <= i}
  <2> DEFINE Known == {<<plugins[i].name, plugins[i].dir>> : i \in DOMAIN plugins}
             First == {found \in Subcommands \X (1..Len(PathDirs)) :
                  found[2] \in Places(found[1]) /\ \A i \in Places(found[1]) : found[2] <= i}
  <2>1. \A k \in DOMAIN plugins : plugins[k] \in PluginType
    <3>1. plugins \in Seq(PluginType)
      BY DEF TypeInv, TypeOK, PluginType
    <3> QED BY <3>1
  <2>2. FirstPlaces /\ PassedSeen /\ seen = PluginNames
    BY <1>2 DEF DiscoveryInv, SeenOnce, FoundFirst, Asked
  <2>3. ASSUME NEW k \in DOMAIN plugins PROVE <<plugins[k].name, plugins[k].dir>> \in First
    <3>1. plugins[k].name \in Subcommands /\ plugins[k].dir \in 1..Len(PathDirs)
      BY <2>1 DEF PluginType
    <3>2. plugins[k].dir \in Places(plugins[k].name)
          /\ \A j \in Places(plugins[k].name) : plugins[k].dir <= j
      BY <2>2 DEF FirstPlaces
    <3> QED BY <3>1, <3>2
  <2>4. ASSUME NEW n \in Subcommands, NEW i \in Places(n), \A j \in Places(n) : i <= j
        PROVE  <<n, i>> \in Known
    <3>1. i \in 1..Len(PathDirs) /\ dirIndex > Len(PathDirs) /\ dirIndex \in Nat
      BY <1>2, PlacesType, Lengths DEF TypeInv, TypeOK, Loops
    <3>2. n \in PluginNames
      BY <2>2, <3>1, Lengths DEF PassedSeen, Passed
    <3>3. PICK k \in DOMAIN plugins : plugins[k].name = n
      BY <3>2 DEF PluginNames
    <3>4. plugins[k].dir \in Places(n) /\ plugins[k].dir <= i /\ i <= plugins[k].dir
      BY <2>2, <2>4, <3>3 DEF FirstPlaces
    <3>5. plugins[k].dir = i
      BY <3>1, <3>4, PlacesType, Lengths
    <3> QED BY <3>3, <3>5
  <2>5. Known \subseteq First
    BY <2>3
  <2>6. First \subseteq Known
    <3> SUFFICES ASSUME NEW found \in First PROVE found \in Known
      OBVIOUS
    <3>1. found = <<found[1], found[2]>> /\ found[1] \in Subcommands /\ found[2] \in Places(found[1])
          /\ \A j \in Places(found[1]) : found[2] <= j
      OBVIOUS
    <3> HIDE DEF Known, First
    <3> QED BY <3>1, <2>4
  <2> QED BY <2>5, <2>6
<1> QED BY <1>1, <1>2 DEF FirstInPathWins

(* For any PATH and any files: a name is discovered once whatever changes, and *)
(* if nothing changes, the plugins are the first files of their names, all of *)
(* them.                                                                     *)
THEOREM FirstOnPath == Spec => []FirstInPathWins
<1>1. Init => DiscoveryInv
  BY SeenInit, FirstInit DEF DiscoveryInv
<1> QED BY <1>1, TypeInit, TypeStep, DiscoveryStep, DiscoveryResult, PTL DEF Spec

-----------------------------------------------------------------------------
(***************************************************************************)
(* Plugins that stay                                                       *)
(***************************************************************************)

(* A plugin of that name was discovered there or before, or is being asked.   *)
Known(n, i) ==
  \/ \E k \in DOMAIN plugins : plugins[k].name = n /\ plugins[k].dir <= i
  \/ pc \in {"start", "wait"} /\ Found.name = n /\ dirIndex <= i

StillThere == \A place \in steady : place[2] \in Places(place[1])

PluginsPassed == \A k \in DOMAIN plugins : plugins[k].dir <= dirIndex

SteadyListed ==
  pc \in Reading => \A k \in DOMAIN listing :
    <<listing[k].name, dirIndex>> \in steady => ~listing[k].isDir

SteadyKnown ==
  \A n \in Subcommands : \A i \in 1..Len(PathDirs) :
    <<n, i>> \in steady /\ Passed(n, i) => Known(n, i)

(* What stays is what the listing says it is, and once the loops have passed   *)
(* it, it is known.                                                          *)
SteadyInv == StillThere /\ PluginsPassed /\ SteadyListed /\ SteadyKnown

LEMMA SteadyInit == Init => SteadyInv
<1> SUFFICES ASSUME Init PROVE SteadyInv
  OBVIOUS
<1>1. DOMAIN plugins = {} /\ pc = "readdir" /\ dirIndex = 1
  BY DEF Init
<1>2. StillThere
  <2>1. \A place \in steady : place \in {p \in Subcommands \X (1..Len(PathDirs)) : p[2] \in Places(p[1])}
    BY Zenon DEF Init
  <2> QED BY <2>1 DEF StillThere
<1>3. SteadyKnown
  <2>1. \A n : \A i \in 1..Len(PathDirs) : ~Passed(n, i)
    BY <1>1, Lengths DEF Passed, Reading
  <2> QED BY <2>1 DEF SteadyKnown
<1> QED BY <1>1, <1>2, <1>3 DEF SteadyInv, PluginsPassed, SteadyListed, Reading

LEMMA SteadyPlace ==
  ASSUME StillThere, NEW n, NEW i, <<n, i>> \in steady
  PROVE  i \in 1..Len(PathDirs) /\ fs[PathDirs[i]][n] \in {"exec", "link"}
<1>1. i \in Places(n)
  BY DEF StillThere
<1> QED BY <1>1 DEF Places

LEMMA SameStillThere ==
  ASSUME StillThere, UNCHANGED <<fs, steady>>
  PROVE  StillThere'
<1>1. \A n : Places(n)' = Places(n)
  BY SamePlaces
<1> QED BY <1>1 DEF StillThere

(* The loops stay where they are, and what is steady can only become less.     *)
LEMMA SteadyIdle ==
  ASSUME SteadyInv, StillThere', steady' \subseteq steady, UNCHANGED <<dirIndex, listing, plugins>>,
         \/ pc' = pc
         \/ pc = "start" /\ pc' = "wait"
         \/ pc \notin Reading /\ pc' \notin Reading
  PROVE  SteadyInv'
<1>1. Found' = Found
  BY DEF Found
<1>2. pc \in Reading <=> pc' \in Reading
  BY DEF Reading
<1>3. \A n, i : (Passed(n, i)' => Passed(n, i)) /\ (Known(n, i) => Known(n, i)')
  BY <1>1, <1>2 DEF Passed, Known, Left, Reading
<1>4. SteadyKnown'
  BY <1>3 DEF SteadyInv, SteadyKnown
<1>5. PluginsPassed' /\ SteadyListed'
  BY <1>2 DEF SteadyInv, PluginsPassed, SteadyListed
<1> QED BY <1>4, <1>5 DEF SteadyInv

LEMMA SteadyChange == SteadyInv /\ Change => SteadyInv'
<1> SUFFICES ASSUME SteadyInv, Change PROVE SteadyInv'
  OBVIOUS
<1>1. UNCHANGED <<pc, dirIndex, listing, plugins>> /\ steady' \subseteq steady
  BY DEF Change
<1>2. ASSUME NEW place \in steady' PROVE place[2] \in Places(place[1])'
  <2>1. place \in steady /\ fs'[PathDirs[place[2]]][place[1]] \in {"exec", "link"}
    BY DEF Change
  <2>2. place[2] \in 1..Len(PathDirs)
    BY <2>1 DEF SteadyInv, StillThere, Places
  <2> QED BY <2>1, <2>2 DEF Places
<1>3. StillThere'
  BY <1>2 DEF StillThere
<1> QED BY <1>1, <1>3, SteadyIdle

LEMMA SteadyReadDir == TypeInv /\ SteadyInv /\ ReadDir => SteadyInv'
<1> SUFFICES ASSUME TypeInv, SteadyInv, ReadDir PROVE SteadyInv'
  OBVIOUS
<1>1. /\ pc = "readdir" /\ pc' = "entry" /\ listing' = Listed(Dir)
      /\ UNCHANGED <<fs, steady, dirIndex, plugins>>
  BY DEF ReadDir, Goto
<1>2. StillThere'
  BY <1>1, SameStillThere DEF SteadyInv
<1>3. Left' = {n \in Names : fs[Dir][n] # "none"}
  BY <1>1, ListedType DEF Left
<1>4. SteadyListed'
  <2> SUFFICES ASSUME NEW k \in DOMAIN listing', <<listing'[k].name, dirIndex>> \in steady
               PROVE  ~listing'[k].isDir
    BY <1>1 DEF SteadyListed
  <2>1. fs[Dir][listing'[k].name] \in {"exec", "link"}
    BY SteadyPlace DEF SteadyInv, Dir
  <2>2. listing'[k].isDir <=> fs[Dir][listing'[k].name] = "directory"
    BY <1>1, ListedType
  <2> QED BY <2>1, <2>2
<1>5. SteadyKnown'
  <2> SUFFICES ASSUME NEW n \in Subcommands, NEW i \in 1..Len(PathDirs), <<n, i>> \in steady,
                      Passed(n, i)'
               PROVE  Known(n, i)'
    BY <1>1 DEF SteadyKnown
  <2>1. i # dirIndex
    <3>1. i = dirIndex => fs[Dir][n] \in {"exec", "link"}
      BY SteadyPlace DEF SteadyInv, Dir
    <3>2. i = dirIndex => n \in Left'
      BY <1>3, <3>1 DEF Subcommands
    <3> QED BY <1>1, <3>2 DEF Passed, TypeInv, TypeOK
  <2>2. Passed(n, i)
    BY <1>1, <2>1 DEF Passed
  <2>3. Known(n, i)
    BY <2>2 DEF SteadyInv, SteadyKnown
  <2> QED BY <1>1, <2>3 DEF Known
<1>6. PluginsPassed'
  BY <1>1 DEF SteadyInv, PluginsPassed
<1> QED BY <1>2, <1>4, <1>5, <1>6 DEF SteadyInv

LEMMA SteadyNextDir == TypeInv /\ SteadyInv /\ NextDir => SteadyInv'
<1> SUFFICES ASSUME TypeInv, SteadyInv, NextDir PROVE SteadyInv'
  OBVIOUS
<1>1. /\ pc = "entry" /\ pc' = "readdir" /\ listing = <<>> /\ dirIndex' = dirIndex + 1
      /\ UNCHANGED <<fs, steady, plugins>>
  BY DEF NextDir, Goto
<1>2. StillThere'
  BY <1>1, SameStillThere DEF SteadyInv
<1>3. Left = {} /\ dirIndex \in Nat
  BY <1>1, Lengths DEF Left, TypeInv, TypeOK
<1>4. SteadyKnown'
  <2> SUFFICES ASSUME NEW n \in Subcommands, NEW i \in 1..Len(PathDirs), <<n, i>> \in steady,
                      Passed(n, i)'
               PROVE  Known(n, i)'
    BY <1>1 DEF SteadyKnown
  <2>1. i \in Nat
    BY Lengths
  <2>2. i < dirIndex + 1
    BY <1>1 DEF Passed, Reading
  <2>3. i < dirIndex \/ i = dirIndex
    BY <1>3, <2>1, <2>2
  <2>4. Passed(n, i)
    BY <1>1, <1>3, <2>3 DEF Passed, Reading
  <2>5. Known(n, i)
    BY <2>4 DEF SteadyInv, SteadyKnown
  <2> QED BY <1>1, <2>5 DEF Known
<1>5. PluginsPassed'
  <2>1. \A k \in DOMAIN plugins : plugins[k].dir \in Nat
    <3>1. plugins \in Seq(PluginType)
      BY DEF TypeInv, TypeOK, PluginType
    <3>2. \A k \in DOMAIN plugins : plugins[k] \in PluginType
      BY <3>1
    <3> QED BY <3>2, Lengths DEF PluginType
  <2> QED BY <1>1, <1>3, <2>1 DEF SteadyInv, PluginsPassed
<1> QED BY <1>1, <1>2, <1>4, <1>5 DEF SteadyInv, SteadyListed, Reading

(* The rest of the listing.                                                  *)
LEMMA SteadyRest ==
  ASSUME TypeInv, SteadyListed, pc \in Reading, UNCHANGED <<steady, dirIndex>>,
         listing' = listing \/ (listing # <<>> /\ listing' = Tail(listing))
  PROVE  SteadyListed'
<1>1. CASE listing' = listing
  BY <1>1 DEF SteadyListed
<1>2. CASE listing # <<>> /\ listing' = Tail(listing)
  <2>1. \A k \in DOMAIN listing' : k + 1 \in DOMAIN listing /\ listing'[k] = listing[k + 1]
    BY <1>2, ListingTail
  <2> QED BY <2>1 DEF SteadyListed
<1> QED BY <1>1, <1>2

(* An entry passed over is known, or it is none that stays.                   *)
LEMMA SteadyPassOver ==
  ASSUME TypeInv, SteadyKnown, listing # <<>>, listing' = Tail(listing), pc \in Reading,
         UNCHANGED <<steady, dirIndex>>, \A n, i : Known(n, i) => Known(n, i)',
         Found.name \in Subcommands /\ <<Found.name, dirIndex>> \in steady =>
           Known(Found.name, dirIndex)
  PROVE  SteadyKnown'
<1> SUFFICES ASSUME NEW n \in Subcommands, NEW i \in 1..Len(PathDirs), <<n, i>> \in steady,
                    Passed(n, i)'
             PROVE  Known(n, i)'
  BY DEF SteadyKnown
<1>1. CASE Passed(n, i)
  BY <1>1 DEF SteadyKnown
<1>2. CASE ~Passed(n, i)
  <2>1. i = dirIndex /\ n \in Left /\ n \notin Left'
    BY <1>2 DEF Passed
  <2>2. n = Found.name
    BY <2>1, LeftOfTail
  <2> QED BY <2>1, <2>2
<1> QED BY <1>1, <1>2

LEMMA SteadyEntry == TypeInv /\ SeenOnce /\ SteadyInv /\ Entry => SteadyInv'
<1> SUFFICES ASSUME TypeInv, SeenOnce, SteadyInv, Entry PROVE SteadyInv'
  OBVIOUS
<1>1. /\ pc = "entry" /\ pc \in Reading /\ listing # <<>>
      /\ UNCHANGED <<fs, steady, dirIndex, plugins>>
  BY DEF Entry, Reading
<1>2. StillThere' /\ PluginsPassed'
  BY <1>1, SameStillThere DEF SteadyInv, PluginsPassed
<1>3. SteadyListed'
  BY <1>1, SteadyRest DEF SteadyInv, Entry
<1>4. \A n, i : Known(n, i) => Known(n, i)'
  BY <1>1 DEF Known
<1>5. SteadyKnown'
  <2>1. CASE Skipped(Found)
    <3>1. listing' = Tail(listing)
      BY <2>1 DEF Entry
    <3>2. ASSUME Found.name \in Subcommands, <<Found.name, dirIndex>> \in steady
          PROVE  Known(Found.name, dirIndex)
      <4>1. ~Found.isDir
        BY <1>1, <3>2, ListingTail DEF SteadyInv, SteadyListed
      <4>2. Found.name \in seen
        BY <2>1, <3>2, <4>1 DEF Skipped, Subcommands
      <4>3. PICK k \in DOMAIN plugins : plugins[k].name = Found.name
        BY <1>1, <4>2 DEF SeenOnce, Asked, PluginNames
      <4> QED BY <4>3 DEF SteadyInv, PluginsPassed, Known
    <3> QED BY <1>1, <1>4, <3>1, <3>2, SteadyPassOver DEF SteadyInv
  <2>2. CASE ~Skipped(Found)
    <3>1. listing' = listing /\ pc' \in Reading
      BY <2>2 DEF Entry, Goto, Reading
    <3>2. \A n, i : Passed(n, i)' => Passed(n, i)
      BY <1>1, <3>1 DEF Passed, Left
    <3> QED BY <1>1, <1>4, <3>2 DEF SteadyInv, SteadyKnown
  <2> QED BY <2>1, <2>2
<1> QED BY <1>2, <1>3, <1>5 DEF SteadyInv

LEMMA SteadyStat == TypeInv /\ SteadyInv /\ Stat => SteadyInv'
<1> SUFFICES ASSUME TypeInv, SteadyInv, Stat PROVE SteadyInv'
  OBVIOUS
<1>1. /\ pc = "stat" /\ pc \in Reading /\ pc' \in Reading /\ listing # <<>>
      /\ UNCHANGED <<fs, steady, dirIndex, plugins>>
  BY DEF Stat, Goto, Reading, TypeInv, Loops
<1>2. StillThere' /\ PluginsPassed'
  BY <1>1, SameStillThere DEF SteadyInv, PluginsPassed
<1>3. SteadyListed'
  BY <1>1, SteadyRest DEF SteadyInv, Stat
<1>4. \A n, i : Known(n, i) => Known(n, i)'
  BY <1>1 DEF Known
<1>5. SteadyKnown'
  <2>1. CASE Passes(fs[Dir][Found.name])
    <3>1. listing' = listing
      BY <2>1 DEF Stat
    <3>2. \A n, i : Passed(n, i)' => Passed(n, i)
      BY <1>1, <3>1 DEF Passed, Left
    <3> QED BY <1>1, <1>4, <3>2 DEF SteadyInv, SteadyKnown
  <2>2. CASE ~Passes(fs[Dir][Found.name])
    <3>1. listing' = Tail(listing)
      BY <2>2 DEF Stat
    <3>2. <<Found.name, dirIndex>> \notin steady
      BY <2>2, SteadyPlace DEF SteadyInv, Dir, Passes
    <3> QED BY <1>1, <1>4, <3>1, <3>2, SteadyPassOver DEF SteadyInv
  <2> QED BY <2>1, <2>2
<1> QED BY <1>2, <1>3, <1>5 DEF SteadyInv

LEMMA SteadyDiscovered ==
  ASSUME TypeInv, SteadyInv, pc \in {"start", "wait"}, NEW described, Discovered(described),
         UNCHANGED <<fs, steady, dirIndex>>
  PROVE  SteadyInv'
<1>1. pc \in Reading /\ pc' = "entry" /\ listing # <<>> /\ listing' = Tail(listing)
  BY DEF Reading, Discovered, Goto, TypeInv, Loops
<1> PICK last : last = Len(plugins) + 1
  OBVIOUS
<1>2. /\ DOMAIN plugins \subseteq DOMAIN plugins' /\ last \in DOMAIN plugins'
      /\ \A k \in DOMAIN plugins : plugins'[k] = plugins[k]
      /\ \A k \in DOMAIN plugins' : k \in DOMAIN plugins \/ k = last
      /\ plugins'[last].name = Found.name /\ plugins'[last].dir = dirIndex
  BY PluginAppended
<1>3. StillThere'
  BY SameStillThere DEF SteadyInv
<1>4. dirIndex \in Nat
  BY Lengths DEF TypeInv, TypeOK
<1>5. PluginsPassed'
  BY <1>2, <1>4 DEF SteadyInv, PluginsPassed
<1>6. SteadyListed'
  BY <1>1, SteadyRest DEF SteadyInv
<1>7. \A n, i : Known(n, i) => Known(n, i)'
  BY <1>2 DEF Known
<1>8. Known(Found.name, dirIndex)
  BY <1>4 DEF Known
<1>9. SteadyKnown'
  BY <1>1, <1>7, <1>8, SteadyPassOver DEF SteadyInv
<1> QED BY <1>3, <1>5, <1>6, <1>9 DEF SteadyInv

LEMMA SteadyStep == TypeInv /\ SeenOnce /\ SteadyInv /\ [Next]_vars => SteadyInv'
<1> SUFFICES ASSUME TypeInv, SeenOnce, SteadyInv, [Next]_vars PROVE SteadyInv'
  OBVIOUS
<1>1. ASSUME UNCHANGED <<fs, steady, dirIndex, listing, plugins>>,
             \/ pc' = pc
             \/ pc = "start" /\ pc' = "wait"
             \/ pc \notin Reading /\ pc' \notin Reading
      PROVE  SteadyInv'
  BY <1>1, SameStillThere, SteadyIdle DEF SteadyInv
<1>2. CASE StartQuery
  <2>1. CASE Discovered(FALSE)
    BY <1>2, <2>1, SteadyDiscovered DEF StartQuery
  <2>2. CASE ~Discovered(FALSE)
    BY <1>1, <1>2, <2>2 DEF StartQuery, Goto
  <2> QED BY <2>1, <2>2
<1>3. CASE EndQuery
  <2>1. Discovered(Supports /\ output) /\ pc = "wait" /\ UNCHANGED <<fs, steady, dirIndex>>
    BY <1>3 DEF EndQuery
  <2> QED BY <2>1, SteadyDiscovered
<1>4. CASE Register \/ Execute \/ RunCommand \/ Timeout \/ PluginStep \/ UNCHANGED vars
  BY <1>1, <1>4
     DEF Register, Execute, RunCommand, Timeout, PluginStep, vars, DiscoveryEnded, Goto, Reading
<1> QED BY <1>2, <1>3, <1>4, SteadyReadDir, SteadyNextDir, SteadyEntry, SteadyStat, SteadyChange
        DEF Next, Step

LEMMA SteadyResult == TypeInv /\ SteadyInv => SteadyPluginsFound
<1> SUFFICES ASSUME TypeInv, SteadyInv, pc = "run", NEW place \in steady
             PROVE  \E k \in DOMAIN plugins :
                      plugins[k].name = place[1] /\ plugins[k].dir <= place[2]
  BY DEF SteadyPluginsFound
<1>1. place = <<place[1], place[2]>> /\ place[1] \in Subcommands /\ place[2] \in 1..Len(PathDirs)
  <2>1. steady \subseteq Subcommands \X (1..Len(PathDirs))
    BY DEF TypeInv, TypeOK
  <2> QED BY <2>1
<1>2. dirIndex > Len(PathDirs) /\ dirIndex \in Nat
  BY Lengths DEF TypeInv, TypeOK, Loops
<1>3. Passed(place[1], place[2])
  BY <1>1, <1>2, Lengths DEF Passed
<1>4. Known(place[1], place[2])
  BY <1>1, <1>3 DEF SteadyInv, SteadyKnown
<1> QED BY <1>4 DEF Known

(* For any PATH and any files, whatever is installed, replaced or removed under *)
(* the loops: a plugin that stays where it is is discovered there or before.  *)
THEOREM SteadyFound == Spec => []SteadyPluginsFound
<1>1. Init => TypeInv /\ SeenOnce /\ SteadyInv
  BY TypeInit, SeenInit, SteadyInit
<1> QED BY <1>1, TypeStep, SeenStep, SteadyStep, SteadyResult, PTL DEF Spec

-----------------------------------------------------------------------------
(***************************************************************************)
(* Every name among the commands                                           *)
(***************************************************************************)

LEMMA CommandFields ==
  /\ \A n : /\ BuiltinCommand(n).name = n /\ BuiltinCommand(n).file = n
            /\ BuiltinCommand(n).from = BuiltIn
  /\ \A plugin : /\ CommandOf(plugin).name = FirstWord(plugin.name)
                 /\ CommandOf(plugin).file = plugin.name
BY DEF BuiltinCommand, CommandOf, Command

LEMMA RegistrationInit == Init => RegistrationInv
<1> SUFFICES ASSUME Init PROVE RegistrationInv
  OBVIOUS
<1>1. commands = [i \in DOMAIN Builtins |-> BuiltinCommand(Builtins[i])] /\ registered = 0
      /\ pc = "readdir"
  BY DEF Init
<1>2. Own = Len(Builtins) /\ Len(Builtins) \in Nat
  BY <1>1, BuiltinCommands, Lengths DEF Own
<1>3. \A i \in 1..Len(Builtins) : commands[i] = BuiltinCommand(Builtins[i])
  BY <1>1, Lengths
<1>4. \A i, j \in 1..Own : commands[i].file = commands[j].file => i = j
  <2>1. \A i \in 1..Own : commands[i].file = Builtins[i]
    BY <1>2, <1>3, CommandFields
  <2>2. \A i, j \in 1..Own : Builtins[i] = Builtins[j] => i = j
    BY <1>2, Lengths, PluginAssumption DEF IsInjective
  <2> QED BY <2>1, <2>2
<1>5. (Len(Builtins) + 1)..Own = {} /\ 1..registered = {}
  BY <1>1, <1>2
<1>6. Own \in Nat /\ Own >= Len(Builtins)
  BY <1>2
<1> HIDE DEF Init
<1> QED BY <1>3, <1>4, <1>5, <1>6 DEF RegistrationInv

(* No plugin has been registered, or the plugins stay as they are.            *)
LEMMA RegistrationIdle ==
  ASSUME RegistrationInv, UNCHANGED registration, registered = 0 \/ plugins' = plugins,
         pc \in {"run", "exit"} <=> pc' \in {"run", "exit"}
  PROVE  RegistrationInv'
<1>1. commands' = commands /\ registered' = registered
  BY DEF registration
<1>2. Own' = Own
  BY <1>1 DEF Own
<1>3. CASE plugins' = plugins
  BY <1>1, <1>2, <1>3 DEF RegistrationInv, Shadows, Placed
<1>4. CASE registered = 0
  BY <1>1, <1>2, <1>4 DEF RegistrationInv
<1> QED BY <1>3, <1>4

LEMMA RegistrationRegister == TypeInv /\ SeenOnce /\ RegistrationInv /\ Register => RegistrationInv'
<1> SUFFICES ASSUME TypeInv, SeenOnce, RegistrationInv, Register PROVE RegistrationInv'
  OBVIOUS
<1>1. /\ commands \in Seq(CommandType) /\ plugins \in Seq(PluginType)
      /\ registered \in 0..Len(plugins) /\ registered < Len(plugins)
  BY DEF Register, TypeInv, TypeOK, CommandType, PluginType
<1>2. registered' = registered + 1 /\ registered \in Nat /\ registered + 1 \in DOMAIN plugins
      /\ 1..registered \subseteq DOMAIN plugins
  BY <1>1 DEF Register
<1>3. pc = "readdir" /\ pc' = "readdir" /\ plugins' = plugins
  BY DEF Register, DiscoveryEnded
<1>4. Own = Len(commands) /\ Own' = Len(commands') /\ Len(commands) \in Nat
      /\ Len(Builtins) \in Nat
  BY <1>1, <1>3, Lengths DEF Own
<1> PICK plugin : plugin = plugins[registered + 1]
  OBVIOUS
<1> PICK new : new = CommandOf(plugin)
  OBVIOUS
<1>5. \A k : Shadows(plugins[k])' <=> Shadows(plugins[k])
  BY <1>3 DEF Shadows
<1>6. CASE Shadows(plugin)
  <2>1. commands' = commands
    BY <1>6 DEF Register
  <2>2. \A k \in 1..registered' : k \in 1..registered \/ k = registered + 1
    BY <1>2
  <2>3. 1..registered \subseteq 1..registered'
    BY <1>2
  <2>4. \A i, k : Placed(i, k)' <=> Placed(i, k)
    BY <1>3, <2>1 DEF Placed
  <2> QED BY <1>2, <1>3, <1>4, <1>5, <1>6, <2>1, <2>2, <2>3, <2>4 DEF RegistrationInv
<1>7. CASE ~Shadows(plugin)
  <2>1. commands' = Append(commands, new)
    BY <1>7 DEF Register
  <2>2. new \in CommandType
    BY <1>1, <1>2, PluginCommand
  <2>3. /\ Len(commands') = Len(commands) + 1 /\ commands'[Len(commands) + 1] = new
        /\ \A i \in 1..Len(commands) : commands'[i] = commands[i]
    BY <1>1, <2>1, <2>2
  <2>4. new.file = plugin.name
    BY CommandFields
  <2>5. ASSUME NEW i \in 1..Own PROVE commands[i].file # new.file
    <3>1. CASE i \in 1..Len(Builtins)
      <4>1. commands[i].file = Builtins[i]
        BY <3>1, CommandFields DEF RegistrationInv
      <4> QED BY <1>7, <2>4, <3>1, <4>1 DEF Shadows, Contains
    <3>2. CASE i \notin 1..Len(Builtins)
      <4>1. i \in (Len(Builtins) + 1)..Own
        BY <1>4, <2>5, <3>2
      <4>2. PICK k \in 1..registered : commands[i] = CommandOf(plugins[k])
        BY <4>1 DEF RegistrationInv
      <4>3. k # registered + 1 /\ k \in DOMAIN plugins
        BY <1>2
      <4>4. plugins[k].name # plugin.name
        BY <1>2, <4>3 DEF SeenOnce
      <4> QED BY <2>4, <4>2, <4>4, CommandFields
    <3> QED BY <3>1, <3>2
  <2>6. Own' = Own + 1 /\ Own \in Nat /\ Own >= Len(Builtins)
    BY <1>4, <2>3 DEF RegistrationInv
  <2>7. \A i \in 1..Len(Builtins) : commands'[i] = BuiltinCommand(Builtins[i])
    BY <1>4, <2>3, <2>6 DEF RegistrationInv
  <2>8. ASSUME NEW i \in (Len(Builtins) + 1)..Own'
        PROVE  \E k \in 1..registered' :
                 commands'[i] = CommandOf(plugins[k]) /\ ~Shadows(plugins[k])
    <3>1. CASE i = Own + 1
      <4>1. commands'[i] = CommandOf(plugins[registered + 1])
        BY <1>4, <2>3, <3>1
      <4> QED BY <1>2, <1>7, <4>1
    <3>2. CASE i # Own + 1
      <4>1. i \in (Len(Builtins) + 1)..Own /\ commands'[i] = commands[i]
        BY <1>4, <2>3, <2>6, <2>8, <3>2
      <4>2. PICK k \in 1..registered :
              commands[i] = CommandOf(plugins[k]) /\ ~Shadows(plugins[k])
        BY <4>1 DEF RegistrationInv
      <4> QED BY <1>2, <4>1, <4>2
    <3> QED BY <3>1, <3>2
  <2>9. ASSUME NEW k \in 1..registered', ~Shadows(plugins[k])
        PROVE  \E i \in (Len(Builtins) + 1)..Own' : Placed(i, k)'
    <3>1. CASE k = registered + 1
      <4>1. ASSUME NEW h \in (Len(Builtins) + 1)..Own
            PROVE  \E m \in 1..(k - 1) : commands'[h] = CommandOf(plugins[m])
        <5>1. PICK m \in 1..registered : commands[h] = CommandOf(plugins[m])
          BY DEF RegistrationInv
        <5>2. commands'[h] = commands[h] /\ m \in 1..(k - 1)
          BY <1>2, <1>4, <2>3, <2>6, <3>1
        <5> QED BY <5>1, <5>2
      <4>2. commands'[Own + 1] = CommandOf(plugins[k])
        BY <1>4, <2>3, <3>1
      <4> PICK i : i = Own + 1
        OBVIOUS
      <4>3. i - 1 = Own /\ i \in (Len(Builtins) + 1)..Own'
        BY <1>4, <2>6
      <4>4. Placed(i, k)'
        BY <1>3, <4>1, <4>2, <4>3 DEF Placed
      <4> QED BY <4>3, <4>4
    <3>2. CASE k # registered + 1
      <4>1. k \in 1..registered
        BY <1>2, <2>9, <3>2
      <4>2. PICK i \in (Len(Builtins) + 1)..Own : Placed(i, k)
        BY <2>9, <4>1 DEF RegistrationInv
      <4>3. \A h \in (Len(Builtins) + 1)..i : commands'[h] = commands[h]
        BY <1>4, <2>3, <2>6
      <4>4. i \in (Len(Builtins) + 1)..i /\ i \in (Len(Builtins) + 1)..Own'
            /\ \A h \in (Len(Builtins) + 1)..(i - 1) : h \in (Len(Builtins) + 1)..i
        BY <1>4, <2>6
      <4>5. Placed(i, k)'
        BY <1>3, <4>2, <4>3, <4>4 DEF Placed
      <4> QED BY <4>4, <4>5
    <3> QED BY <3>1, <3>2
  <2>10. ASSUME NEW i \in 1..Own', NEW j \in 1..Own', commands'[i].file = commands'[j].file
         PROVE  i = j
    <3>1. \A m \in 1..Own' : m = Own + 1 \/ m \in 1..Own
      BY <2>6
    <3>2. \A m \in 1..Own : commands'[m] = commands[m]
      BY <1>4, <2>3
    <3>3. commands'[Own + 1] = new
      BY <1>4, <2>3
    <3> QED BY <2>5, <2>10, <3>1, <3>2, <3>3 DEF RegistrationInv
  <2>11. Own' \in Nat /\ Own' >= Len(Builtins)
    BY <1>4, <2>6
  <2> QED BY <1>3, <1>5, <2>7, <2>8, <2>9, <2>10, <2>11 DEF RegistrationInv
<1> QED BY <1>6, <1>7

LEMMA RegistrationExecute == TypeInv /\ RegistrationInv /\ Execute => RegistrationInv'
<1> SUFFICES ASSUME TypeInv, RegistrationInv, Execute PROVE RegistrationInv'
  OBVIOUS
<1> PICK more : more = [i \in DOMAIN Implicit |-> BuiltinCommand(Implicit[i])]
  OBVIOUS
<1>1. commands' = commands \o more /\ commands \in Seq(CommandType) /\ more \in Seq(CommandType)
      /\ Len(more) = Len(Implicit)
  BY ImplicitCommands DEF Execute, TypeInv, TypeOK, CommandType
<1>2. /\ Len(commands') = Len(commands) + Len(Implicit) /\ Len(commands) \in Nat
      /\ Len(Implicit) \in Nat /\ \A i \in 1..Len(commands) : commands'[i] = commands[i]
  BY <1>1, Lengths
<1>3. pc = "readdir" /\ pc' = "run" /\ plugins' = plugins /\ registered' = registered
  BY DEF Execute, DiscoveryEnded, Goto
<1>4. Own = Len(commands) /\ Own' = Own
  BY <1>2, <1>3 DEF Own
<1>5. Own \in Nat /\ Len(Builtins) \in Nat /\ Len(Builtins) <= Own
  BY <1>2, <1>4, Lengths DEF RegistrationInv
<1>6. /\ \A i \in 1..Own : commands'[i] = commands[i]
      /\ \A i \in 1..Len(Builtins) : commands'[i] = commands[i]
      /\ \A i \in (Len(Builtins) + 1)..Own : commands'[i] = commands[i]
  BY <1>2, <1>4, <1>5
<1>7. ASSUME NEW k, NEW i \in (Len(Builtins) + 1)..Own, Placed(i, k) PROVE Placed(i, k)'
  <2>1. \A h \in (Len(Builtins) + 1)..(i - 1) : h \in (Len(Builtins) + 1)..Own
    BY <1>5
  <2> QED BY <1>3, <1>6, <1>7, <2>1 DEF Placed
<1>8. \A k : Shadows(plugins[k])' <=> Shadows(plugins[k])
  BY <1>3 DEF Shadows
<1>9. \A k \in 1..registered' : ~Shadows(plugins[k])' =>
        \E i \in (Len(Builtins) + 1)..Own' : Placed(i, k)'
  <2> SUFFICES ASSUME NEW k \in 1..registered', ~Shadows(plugins[k])
               PROVE  \E i \in (Len(Builtins) + 1)..Own' : Placed(i, k)'
    BY <1>8
  <2>1. PICK i \in (Len(Builtins) + 1)..Own : Placed(i, k)
    BY <1>3 DEF RegistrationInv
  <2> QED BY <1>4, <1>7, <2>1
<1>10. \A i \in (Len(Builtins) + 1)..Own : \E k \in 1..registered :
         commands[i] = CommandOf(plugins[k]) /\ ~Shadows(plugins[k])
  BY DEF RegistrationInv
<1>11. \A i, j \in 1..Own : commands'[i].file = commands'[j].file => i = j
  BY <1>6 DEF RegistrationInv
<1>12. \A i \in 1..Len(Builtins) : commands'[i] = BuiltinCommand(Builtins[i])
  BY <1>6 DEF RegistrationInv
<1>13. Own' \in Nat /\ Own' >= Len(Builtins)
  BY ONLY <1>4, <1>5
<1>14. \A i \in (Len(Builtins) + 1)..Own : \E k \in 1..registered' :
         commands'[i] = CommandOf(plugins[k])' /\ ~Shadows(plugins[k])'
  <2> TAKE i \in (Len(Builtins) + 1)..Own
  <2>1. PICK k \in 1..registered : commands[i] = CommandOf(plugins[k]) /\ ~Shadows(plugins[k])
    BY ONLY <1>10
  <2>2. commands'[i] = commands[i]
    BY ONLY <1>6
  <2>3. CommandOf(plugins[k])' = CommandOf(plugins[k])
    BY <1>3
  <2> QED BY ONLY <1>3, <1>8, <2>1, <2>2, <2>3
<1>15. \A i, j \in 1..Own' : commands'[i].file = commands'[j].file => i = j
  BY ONLY <1>4, <1>11
<1> QED BY ONLY <1>4, <1>9, <1>12, <1>13, <1>14, <1>15 DEF RegistrationInv

LEMMA RegistrationStep ==
  TypeInv /\ SeenOnce /\ RegistrationInv /\ [Next]_vars => RegistrationInv'
<1> SUFFICES ASSUME TypeInv, SeenOnce, RegistrationInv, [Next]_vars PROVE RegistrationInv'
  OBVIOUS
<1>1. CASE \E described : Discovered(described) /\ pc \in {"start", "wait"} /\ UNCHANGED registration
  <2>1. registered = 0 /\ pc' = "entry"
    BY <1>1 DEF Discovered, Goto, TypeInv, Loops, Reading
  <2> QED BY <1>1, <2>1, RegistrationIdle
<1>2. CASE StartQuery
  <2>1. CASE Discovered(FALSE)
    BY <1>1, <1>2, <2>1 DEF StartQuery
  <2>2. CASE ~Discovered(FALSE)
    BY <1>2, <2>2, RegistrationIdle DEF StartQuery, Goto
  <2> QED BY <2>1, <2>2
<1>3. CASE EndQuery
  BY <1>1, <1>3 DEF EndQuery
<1>4. CASE \/ ReadDir \/ NextDir \/ Entry \/ Stat \/ RunCommand \/ Timeout \/ PluginStep \/ Change
           \/ UNCHANGED vars
  BY <1>4, RegistrationIdle
     DEF ReadDir, NextDir, Entry, Stat, RunCommand, Timeout, PluginStep, Change, vars, Goto
<1> QED BY <1>2, <1>3, <1>4, RegistrationRegister, RegistrationExecute DEF Next, Step

(* The first of main's commands of a name, when the command runs.             *)
LEMMA RegistrationResult == TypeInv /\ RegistrationInv => EveryNameResolves
<1> SUFFICES ASSUME TypeInv, RegistrationInv, pc = "run"
             PROVE  /\ \A n \in Range(Builtins) : Resolved(n).from = BuiltIn
                    /\ \A i \in DOMAIN plugins :
                         ~Contains(Builtins, FirstWord(plugins[i].name)) =>
                           Resolved(FirstWord(plugins[i].name)) =
                             CommandOf(plugins[Min(Claims(FirstWord(plugins[i].name)))])
                    /\ \A i, j \in 1..(Len(commands) - Len(Implicit)) :
                         commands[i].name = commands[j].name /\ i # j =>
                           \E k \in {i, j} : commands[k].file # commands[k].name
  BY DEF EveryNameResolves
<1>1. commands \in Seq(CommandType) /\ plugins \in Seq(PluginType) /\ registered = Len(plugins)
  BY DEF TypeInv, TypeOK, Loops, CommandType, PluginType
<1>2. Own = Len(commands) - Len(Implicit) /\ Own \in Nat /\ Own >= Len(Builtins)
      /\ Len(commands) \in Nat
  BY <1>1 DEF Own, RegistrationInv
<1>3. 1..Own \subseteq DOMAIN commands /\ 1..Len(Builtins) \subseteq 1..Own
  BY <1>1, <1>2, Lengths
<1>4. ASSUME NEW n \in Range(Builtins) PROVE Resolved(n).from = BuiltIn
  <2>1. PICK b \in 1..Len(Builtins) : Builtins[b] = n
    BY Lengths DEF Range
  <2>2. commands[b].name = n /\ b \in DOMAIN commands
    BY <1>3, <2>1, CommandFields DEF RegistrationInv
  <2>3. PICK j \in DOMAIN commands : j <= b /\ Resolved(commands[b].name) = commands[j]
    BY <1>1, <2>2, ResolvedFirst
  <2>4. j \in 1..Len(Builtins)
    BY <1>1, <2>1, <2>3, Lengths
  <2>5. commands[j].from = BuiltIn
    BY <2>4, CommandFields DEF RegistrationInv
  <2> QED BY <2>2, <2>3, <2>5
<1>5. ASSUME NEW p \in DOMAIN plugins, NEW word, word = FirstWord(plugins[p].name),
             ~Contains(Builtins, word)
      PROVE  Resolved(word) = CommandOf(plugins[Min(Claims(word))])
  <2>1. p \in Claims(word) /\ Claims(word) \in SUBSET Nat
    BY <1>1, <1>5 DEF Claims
  <2> PICK k : k = Min(Claims(word))
    OBVIOUS
  <2>2. k \in Claims(word) /\ \A m \in Claims(word) : k <= m
    BY <2>1, LeastNatural
  <2>3. k \in 1..registered /\ FirstWord(plugins[k].name) = word
    BY <1>1, <2>2 DEF Claims
  <2>4. ~Shadows(plugins[k])
    <3> SUFFICES ASSUME NEW b \in 1..Len(Builtins), Builtins[b] = plugins[k].name PROVE FALSE
      BY DEF Shadows, Contains
    <3>1. plugins[k].name \in Range(Builtins)
      BY Lengths DEF Range
    <3>2. plugins[k].name = word
      BY <2>3, <3>1, PluginAssumption
    <3> QED BY <1>5, <3>2 DEF Contains
  <2>5. PICK i \in (Len(Builtins) + 1)..Own : Placed(i, k)
    BY <2>3, <2>4 DEF RegistrationInv
  <2>6. i \in DOMAIN commands /\ commands[i].name = word
    <3>1. i \in 1..Own
      BY <1>2, <2>5, Lengths
    <3> QED BY <1>3, <2>3, <2>5, <3>1, CommandFields DEF Placed
  <2>7. PICK j \in DOMAIN commands :
          j <= i /\ commands[j].name = word /\ Resolved(word) = commands[j]
    BY <1>1, <2>6, ResolvedFirst
  <2>8. j \notin 1..Len(Builtins)
    <3> SUFFICES ASSUME j \in 1..Len(Builtins) PROVE FALSE
      OBVIOUS
    <3>1. Builtins[j] = word
      BY <2>7, CommandFields DEF RegistrationInv
    <3> QED BY <1>5, <3>1 DEF Contains
  <2>9. ~(j < i)
    <3> SUFFICES ASSUME j < i PROVE FALSE
      OBVIOUS
    <3>1. j \in (Len(Builtins) + 1)..(i - 1)
      BY <1>1, <1>2, <2>5, <2>7, <2>8, Lengths
    <3>2. PICK m \in 1..(k - 1) : commands[j] = CommandOf(plugins[m])
      BY <2>5, <3>1 DEF Placed
    <3>3. FirstWord(plugins[m].name) = word
      BY <2>7, <3>2, CommandFields
    <3>4. m \in DOMAIN plugins /\ m < k
      BY <1>1, <2>3
    <3>5. m \in Claims(word)
      BY <3>3, <3>4 DEF Claims
    <3> QED BY <1>1, <2>2, <2>3, <3>4, <3>5
  <2>10. j = i
    BY <1>1, <1>2, <2>5, <2>7, <2>9, Lengths
  <2> QED BY <2>5, <2>7, <2>10 DEF Placed
<1>6. ASSUME NEW i \in 1..Own, NEW j \in 1..Own, commands[i].name = commands[j].name, i # j
      PROVE  \E k \in {i, j} : commands[k].file # commands[k].name
  BY <1>6 DEF RegistrationInv
<1> QED BY <1>2, <1>4, <1>5, <1>6

(* For any built-in commands of one word, any commands that cobra adds and any *)
(* plugins, names of several words among them: a name of main's own runs       *)
(* main's own, any other word the plugin discovered first of those that begin *)
(* with it, and two commands of one name are never both what their file says. *)
THEOREM NamesResolve == Spec => []EveryNameResolves
<1>1. Init => TypeInv /\ SeenOnce /\ RegistrationInv
  BY TypeInit, SeenInit, RegistrationInit
<1> QED BY <1>1, TypeStep, SeenStep, RegistrationStep, RegistrationResult, PTL DEF Spec
=============================================================================
