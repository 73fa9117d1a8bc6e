-------------------------------- MODULE LuaPath --------------------------------
(***************************************************************************)
(* Where things are (LuaPath.cpp, FindVPRDLL.cpp, BindvrjLuaToLua.inl):    *)
(* the singleton finds the installation by walking up from a few starting  *)
(* places, and keeps the list of directories from which Lua's require()    *)
(* loads modules.                                                          *)
(*                                                                         *)
(* A directory is a value of Dirs; a place is a directory, or the lua or   *)
(* etc directory below an installation root.  The two patterns of a place  *)
(* in package.path (place?, place?.lua) are one entry here; an entry whose *)
(* string does not end in a slash matches nothing.                         *)
(***************************************************************************)
EXTENDS Naturals, Sequences, SequencesExt, FiniteSetsExt

CONSTANTS
    Dirs,       \* the directories that exist
    NoDir,      \* the empty string
    Parent,     \* Parent[d]: the directory above d, or NoDir
    ShareOf,    \* ShareOf[d]: d/share/vrjugglua, or NoDir
    Cwd,        \* fs::initial_path()
    ExeDir,     \* where the program's file is
    Disks       \* possible file systems: which directories hold which file, a
                \* hint in the lua directory, and the libraries linked in, in their
                \* order: where each is, and whether its path contains "vpr"

MaxUp == 5      \* the walk goes up at most five times

ASSUME LuaPathAssumption ==
    /\ NoDir \notin Dirs
    /\ Parent \in [Dirs -> Dirs \cup {NoDir}]
    /\ {Cwd, ExeDir} \subseteq Dirs
    /\ \A d \in Disks :
           /\ DOMAIN d = {"share", "flat", "etc", "mine", "font", "jdef", "hint", "libs"}
           /\ \A fn \in {"share", "flat", "etc", "mine", "font", "jdef"} : d[fn] \subseteq Dirs
           /\ \A r \in d["share"] : ShareOf[r] \in Dirs
           /\ d["hint"] \in Dirs \cup {NoDir}

VARIABLES
    disk,       \* the file system, which never changes
    lp,         \* the singleton LuaPath::inst
    packagePath,    \* Lua's package.path
    modelPath   \* osgDB's data file path list

pathVars == <<disk, lp, packagePath, modelPath>>

Place(dir, sub) == <<dir, sub>>
Entry(place, slash) == [place |-> place, slash |-> slash]

PathInit ==
    /\ disk \in Disks
    /\ lp = [valid |-> FALSE, exeDir |-> NoDir, root |-> NoDir, luaDir |-> NoDir,
             share |-> NoDir, juggler |-> NoDir, env |-> NoDir, search |-> <<>>]
    /\ packagePath = <<>>
    /\ modelPath = <<>>

\* A directory and those above it, as far as the walk goes; NoDir beyond the top.
Upwards(start) ==
    LET at[i \in 0..MaxUp] ==
            IF i = 0 THEN start
            ELSE IF at[i - 1] = NoDir THEN NoDir ELSE Parent[at[i - 1]]
    IN  at

\* Mutant of FindUpwards: one level too few.
MutFindUpwards(start, fn) ==
    LET at   == Upwards(start)
        hits == {i \in 0..(MaxUp - 1) : at[i] \in disk[fn]}
    IN  IF hits = {} THEN NoDir ELSE at[Min(hits)]

\* _findFilePath from one place: the nearest directory at or above it, within
\* five levels, that holds the file.
FindUpwards(start, fn) ==
    LET at   == Upwards(start)
        hits == {i \in 0..MaxUp : at[i] \in disk[fn]}
    IN  IF hits = {} THEN NoDir ELSE at[Min(hits)]

\* _findFilePath from several places: the first one that leads to the file.
FindFrom(starts, fn) ==
    LET hits == {i \in DOMAIN starts : FindUpwards(starts[i], fn) # NoDir}
    IN  IF hits = {} THEN NoDir ELSE FindUpwards(starts[Min(hits)], fn)

\* What argv[0] says about the program: its path, a bare name that the shell
\* looked up (completed with the working directory), or nothing.
ExeDirOf(arg0) ==
    CASE arg0 = "path" -> ExeDir
      [] arg0 = "bare" -> Cwd
      [] OTHER -> Parent[Cwd]

\* sharedObjectCallback: "vpr" is anywhere in the path of the library.
IsVPR(lib) == lib.vpr

\* findVPRDLL: of the libraries that look like VPR, the last one.
FindVPRDLL ==
    LET libs == SelectSeq(disk["libs"], IsVPR)
    IN  IF libs = <<>> THEN NoDir ELSE Last(libs).dir

\* _findJuggler: the installation's own VR Juggler (of a root that was not found,
\* what lies below the working directory), else the one above the VPR library
\* that is linked in, else VJ_BASE_DIR, which nobody sets here.
FindJuggler(root) ==
    IF root \in disk["jdef"] \/ (root = NoDir /\ Cwd \in disk["jdef"]) THEN root
    ELSE FindUpwards(FindVPRDLL, "jdef")

\* _setJugglerEnvironment: the VJ_BASE_DIR that Juggler is given, if it was found;
\* _foundJuggler, FALSE from the constructor on, is never set.
JugglerEnvironment(found, juggler) == IF found THEN juggler ELSE NoDir

\* What _init keeps of what it found.
Found(exe, inst, flat, root, assets) ==
    [valid   |-> TRUE,
     exeDir  |-> exe,
     root    |-> root,
     luaDir  |-> IF inst # NoDir THEN Entry(Place(inst, "lua"), TRUE)
                 ELSE Entry(Place(flat, "here"), FALSE),
     share   |-> FindFrom(assets, "font"),
     juggler |-> FindJuggler(root),
     env     |-> JugglerEnvironment(FALSE, FindJuggler(root)),
     search  |-> <<>>]

SomeDir(d) == IF d = NoDir THEN <<>> ELSE <<d>>

\* Mutant of Initialised: the root is that of a flat layout if there is one.
MutInitialised(arg0) ==
    LET exe    == ExeDirOf(arg0)
        starts == <<Cwd, Cwd, exe>>
        inst   == FindFrom(starts, "share")
        flat   == FindFrom(starts, "flat")
    IN  Found(exe, inst, flat, IF flat # NoDir THEN flat ELSE inst,
              starts \o (IF inst # NoDir THEN <<ShareOf[inst]>> ELSE <<>>)
                     \o SomeDir(disk["hint"]))

\* Mutant of Initialised: the share directory of the root is not looked at.
MutInitialisedAssets(arg0) ==
    LET exe    == ExeDirOf(arg0)
        starts == <<Cwd, Cwd, exe>>
        inst   == FindFrom(starts, "share")
        flat   == FindFrom(starts, "flat")
    IN  Found(exe, inst, flat, IF inst # NoDir THEN inst ELSE flat,
              starts \o SomeDir(disk["hint"]))

\* _init: the root, the lua directory (without its slash in a flat layout), the
\* assets and VR Juggler.  The base directory defaults to the working directory.
\* The hint is vrjlua-sourcetreeloc.lua, which names the tree of a build.
Initialised(arg0) ==
    LET exe    == ExeDirOf(arg0)
        starts == <<Cwd, Cwd, exe>>
        inst   == FindFrom(starts, "share")
        flat   == FindFrom(starts, "flat")
    IN  Found(exe, inst, flat, IF inst # NoDir THEN inst ELSE flat,
              starts \o (IF inst # NoDir THEN <<ShareOf[inst]>> ELSE <<>>)
                     \o SomeDir(disk["hint"]))

\* LuaPath::instance(argv[0]): the first call initialises, later arguments are
\* ignored.
Instance(arg0) == IF lp.valid THEN lp ELSE Initialised(arg0)

\* updateLuaRequirePath: populated once, with the lua directory in front of
\* Lua's own defaults (which hold nothing of ours).
Updated(p) == IF p.search = <<>> THEN [p EXCEPT !.search = <<p.luaDir>>] ELSE p

\* addLuaRequirePath: the new directory comes first.
WithRequirePath(p, entry) == Updated([p EXCEPT !.search = <<entry>> \o @])

\* _setLuaSearchPaths: the working directory is always searched first.
PackagePathOf(p) == <<Entry(Place(Cwd, "here"), TRUE)>> \o p.search

\* Does a place hold the module?  "mine" is a vrjlua-config the user keeps in
\* the directory, "etc" one copied to the etc directory of the root.
Holds(place, mod) ==
    CASE place[2] = "lua" -> place[1] \in disk["share"]
      [] place[2] = "etc" -> mod = "vrjlua-config" /\ place[1] \in disk["etc"]
      [] OTHER -> \/ place[1] \in disk["flat"]
                  \/ mod = "vrjlua-config" /\ place[1] \in disk["mine"]

\* vrjLua.appendToModelSearchPath, of a directory.
AppendToModelSearchPath(path, d) == Append(path, d)

\* What the bindings make of the model search path: the assets, then the root.
WithAssets(p) ==
    LET shared == IF p.share = NoDir THEN modelPath
                  ELSE AppendToModelSearchPath(modelPath, p.share)
    IN  IF p.root = NoDir THEN shared ELSE AppendToModelSearchPath(shared, p.root)

\* vrjLua.findInModelSearchPath: osgDB::findDataFile.
FindInModelSearchPath(fn) ==
    LET hits == {i \in DOMAIN modelPath : modelPath[i] \in disk[fn]}
    IN  IF hits = {} THEN NoDir ELSE modelPath[Min(hits)]

\* require: the first entry that holds the module; <<>> if there is none.
Resolve(path, mod) ==
    LET hits == {i \in DOMAIN path : path[i].slash /\ Holds(path[i].place, mod)}
    IN  IF hits = {} THEN <<>> ELSE path[Min(hits)].place

\* vrjLua.appendToLuaRequirePath: normalises its argument, adds the slash, and
\* then hands on the argument as it came.
AppendToLuaRequirePath(place, slash) ==
    LET p == WithRequirePath(lp, Entry(place, slash))
    IN  /\ lp' = p
        /\ packagePath' = PackagePathOf(p)
        /\ UNCHANGED <<disk, modelPath>>
=============================================================================
