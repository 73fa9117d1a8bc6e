------------------------------ MODULE MCPrograms ------------------------------
(***************************************************************************)
(* The programs on small file systems: a working directory six levels      *)
(* below the root of the disk, and an installation beside it.              *)
(***************************************************************************)
EXTENDS Programs

MCDirs == {"/1", "/1/2", "/1/2/3", "/1/2/3/4", "/1/2/3/4/5", "/1/2/3/4/5/6",
           "/", "/opt", "/opt/bin", "/opt/share/vrjugglua", "/src"}
MCNoDir == ""
MCParent ==
    [d \in MCDirs |->
        CASE d = "/" -> MCNoDir
          [] d \in {"/1", "/opt", "/src"} -> "/"
          [] d = "/1/2" -> "/1"
          [] d = "/1/2/3" -> "/1/2"
          [] d = "/1/2/3/4" -> "/1/2/3"
          [] d = "/1/2/3/4/5" -> "/1/2/3/4"
          [] d = "/1/2/3/4/5/6" -> "/1/2/3/4/5"
          [] d = "/opt/bin" -> "/opt"
          [] OTHER -> "/opt"]
MCCwd == "/1/2/3/4/5/6"
MCExeDir == "/opt/bin"
MCShareOf == [d \in MCDirs |-> IF d = "/opt" THEN "/opt/share/vrjugglua" ELSE d]

Lib(dir, vpr) == [dir |-> dir, vpr |-> vpr]

Disk(share, flat, etc, mine) ==
    [share |-> share, flat |-> flat, etc |-> etc, mine |-> mine,
     font |-> {"/opt/share/vrjugglua"}, jdef |-> {"/opt"}, hint |-> MCNoDir,
     libs |-> <<Lib("/src", TRUE), Lib("/opt/bin", TRUE), Lib("/", FALSE)>>]

\* Installed; installed, with the user's files, in a build tree with its source
\* elsewhere; two installations, of which the one above the working directory is
\* at the last level looked at; files from the source tree in the working
\* directory, or above it, alone or beside an installation; one too far from the
\* working directory, without VPR.
MCDisks ==
    {Disk({"/opt"}, {}, {}, {}),
     [Disk({"/opt"}, {}, {"/opt"}, {MCCwd}) EXCEPT !.hint = "/src", !.font = {"/src"}],
     Disk({"/opt", "/1"}, {}, {"/1"}, {}),
     Disk({"/opt"}, {MCCwd}, {"/opt"}, {}),
     Disk({}, {"/1/2/3"}, {}, {}),
     Disk({"/opt"}, {"/1/2/3"}, {}, {}),
     [Disk({"/"}, {}, {}, {}) EXCEPT !.libs = <<>>]}
=============================================================================
