------------------------------ MODULE Identity ------------------------------
(***************************************************************************)
(* `ctg identity import`: the files of an archive take their places in the *)
(* Stellar config directory, which other commands and the Stellar CLI read *)
(* keys from. Nothing is changed before every place has been looked at;    *)
(* then the new files are staged beside the old ones, each old file is     *)
(* renamed to a backup and the new one renamed to its place, and a failure *)
(* is undone backwards.                                                    *)
(*                                                                         *)
(* There is no lock: imports may overlap. Every step may fail, also one of *)
(* the undoing, and every step may be the last of a process that is killed. *)
(***************************************************************************)
EXTENDS Naturals, Sequences

CONSTANTS Importer, \* bound: the imports there can be
          Files,    \* the files of their archives, in the order of readdir
          Below     \* those in a directory of the archive

VARIABLES keys, \* the config directory: [dir, file, temp, bak, last]
          ip    \* the imports: where each is, and its local state

identityVars == <<keys, ip>>

Place == {Files[i] : i \in 1..Len(Files)}

(* Each archive has a file, and none twice. *)
ASSUME IdentityAssumption ==
  /\ Files \in Seq(Place) /\ Files # <<>>
  /\ Below \subseteq Place
  /\ \A i, j \in 1..Len(Files) : Files[i] = Files[j] => i = j
  /\ Importer \cap {"missing", "mine", "directory", "link", "none"} = {}

(* What is found at a place: a file of the user's or of an import, or none. *)
IsFile(entry) == entry = "mine" \/ entry \in Importer

(* keys: dir and file, what is at each place; temp, the staged copies; bak, the
   backups of each import; last is history, the import that began last.
   ip: next counts files; missing is what was seen of the directory, made that it
   was created; backed and installed are the replacements' fields; hurt, overlap
   and before are history: a step of the undoing failed, another import was at
   work, what was there at first. *)
Import(before) ==
  [at |-> "extract", next |-> 1, missing |-> FALSE, made |-> FALSE, backed |-> {},
   installed |-> {}, failed |-> FALSE, hurt |-> FALSE, overlap |-> FALSE,
   before |-> before]

Now == [dir |-> keys.dir, file |-> keys.file]

(* scene: what is in the directory, and the imports to come. *)
Scene ==
  {scene \in [dir : {"directory", "missing", "file", "link"},
              file : [Place -> {"mine", "missing", "directory", "link"}],
              imports : SUBSET Importer] :
     scene.dir # "directory" => \A f \in Below : scene.file[f] = "missing"}

IdentityInit(scene) ==
  /\ keys = [dir |-> scene.dir, file |-> scene.file, temp |-> {},
             bak |-> [u \in scene.imports |-> [f \in Place |-> "missing"]],
             last |-> "none"]
  /\ ip = [u \in scene.imports |-> [Import(Now) EXCEPT !.at = "idle"]]

-----------------------------------------------------------------------------

Over == {"idle", "ended", "killed"}
Works(u) == ip[u].at \notin Over

IsAt(u, step) == ip[u].at = step

File(u) == Files[ip[u].next]
Reachable(f) == f \in Below => keys.dir = "directory"

Local(u, x) == ip' = [ip EXCEPT ![u] = x] /\ UNCHANGED keys
Changes(u, k, x) == keys' = k /\ ip' = [ip EXCEPT ![u] = x]

(* After the step of one file, the same of the next, or what follows the last. *)
Onward(x, step, after) ==
  IF x.next < Len(Files) THEN [x EXCEPT !.at = step, !.next = @ + 1]
                         ELSE [x EXCEPT !.at = after, !.next = 1]

(* The archive is read into a private directory. *)
ImportBegins(u) ==
  LET others == {v \in DOMAIN ip : Works(v)}
  IN  /\ IsAt(u, "idle")
      /\ keys' = [keys EXCEPT !.last = u]
      /\ ip' = [v \in DOMAIN ip |->
                  IF v = u THEN [Import(Now) EXCEPT !.overlap = others # {}]
                  ELSE [ip[v] EXCEPT !.overlap = @ \/ v \in others]]

(* Every entry is a regular file or a directory inside the target, and no path
   is both. *)
Extracted(u) == IsAt(u, "extract") /\ Local(u, [ip[u] EXCEPT !.at = "dirs"])

(* The preflight *)
CheckDirs(u) == /\ IsAt(u, "dirs")
                /\ keys.dir \in {"directory", "missing"}
                /\ Local(u, [ip[u] EXCEPT !.at = "files",
                                          !.missing = keys.dir = "missing"])

CheckFiles(u) == /\ IsAt(u, "files")
                 /\ \A f \in Place : keys.file[f] \notin {"directory", "link"}
                 /\ Local(u, [ip[u] EXCEPT !.at = IF ip[u].missing THEN "mkdir" ELSE "copy"])

(* Before the first change a failure needs no undoing. *)
ImportRefused(u) == /\ ip[u].at \in {"extract", "dirs", "files"}
                    /\ Local(u, [ip[u] EXCEPT !.at = "leave", !.failed = TRUE])

MakeDir(u) == /\ IsAt(u, "mkdir")
              /\ keys.dir = "missing"
              /\ Changes(u, [keys EXCEPT !.dir = "directory"],
                         [ip[u] EXCEPT !.at = "copy", !.made = TRUE])

Copy(u) == /\ IsAt(u, "copy")
           /\ Reachable(File(u))
           /\ Changes(u, [keys EXCEPT !.temp = @ \cup {<<u, File(u)>>}],
                      Onward(ip[u], "copy", "look"))

(* What is at the place by now; backupPath is set before the file is moved. *)
Look(u) ==
  /\ IsAt(u, "look")
  /\ keys.file[File(u)] # "link"
  /\ Local(u, IF IsFile(keys.file[File(u)])
                THEN [ip[u] EXCEPT !.at = "backup", !.backed = @ \cup {File(u)}]
                ELSE [ip[u] EXCEPT !.at = "install"])

BackUp(u) ==
  /\ IsAt(u, "backup")
  /\ keys.file[File(u)] # "missing"
  /\ Changes(u, [keys EXCEPT !.bak[u][File(u)] = keys.file[File(u)],
                             !.file[File(u)] = "missing"],
             [ip[u] EXCEPT !.at = "install"])

(* Mutant: a backup is dropped as soon as its file is replaced. *)
InstallDrops(u) ==
  /\ IsAt(u, "install")
  /\ keys.file[File(u)] # "directory" /\ <<u, File(u)>> \in keys.temp
  /\ Changes(u, [keys EXCEPT !.file[File(u)] = u, !.temp = @ \ {<<u, File(u)>>},
                             !.bak[u][File(u)] = "missing"],
             Onward([ip[u] EXCEPT !.installed = @ \cup {File(u)}], "look", "clean"))

(* rename, over whatever file is there *)
Install(u) ==
  /\ IsAt(u, "install")
  /\ keys.file[File(u)] # "directory" /\ <<u, File(u)>> \in keys.temp
  /\ Changes(u, [keys EXCEPT !.file[File(u)] = u, !.temp = @ \ {<<u, File(u)>>}],
             Onward([ip[u] EXCEPT !.installed = @ \cup {File(u)}], "look", "clean"))

(* Any of these throws; a copy may have been begun. *)
ImportFails(u) ==
  /\ ip[u].at \in {"mkdir", "copy", "look", "backup", "install"}
  /\ keys' \in {keys} \cup (IF IsAt(u, "copy") /\ Reachable(File(u))
                             THEN {[keys EXCEPT !.temp = @ \cup {<<u, File(u)>>}]} ELSE {})
  /\ ip' = [ip EXCEPT ![u].at = "undo", ![u].next = Len(Files), ![u].failed = TRUE]

-----------------------------------------------------------------------------
(* The catch block, over the replacements from the last to the first. What fails
   in it is swallowed. *)

Swallowed(u, x) == Local(u, [x EXCEPT !.hurt = TRUE])

RemoveInstalled(u) ==
  LET next == [ip[u] EXCEPT !.at = "restore"]
  IN  /\ IsAt(u, "undo")
      /\ IF File(u) \notin ip[u].installed THEN Local(u, next)
         ELSE \/ /\ keys.file[File(u)] # "directory"
                 /\ Changes(u, [keys EXCEPT !.file[File(u)] = "missing"], next)
              \/ Swallowed(u, next)

Restore(u) ==
  LET next == [ip[u] EXCEPT !.at = "sweep"]
      saved == keys.bak[u][File(u)]
  IN  /\ IsAt(u, "restore")
      /\ IF File(u) \notin ip[u].backed \/ saved = "missing" THEN Local(u, next)
         ELSE \/ /\ keys.file[File(u)] # "directory"
                 /\ Changes(u, [keys EXCEPT !.file[File(u)] = saved,
                                            !.bak[u][File(u)] = "missing"], next)
              \/ Swallowed(u, next)

Sweep(u) ==
  LET next == IF ip[u].next > 1 THEN [ip[u] EXCEPT !.at = "undo", !.next = @ - 1]
                                ELSE [ip[u] EXCEPT !.at = "rmdir"]
      copy == <<u, File(u)>>
  IN  /\ IsAt(u, "sweep")
      /\ \/ Changes(u, [keys EXCEPT !.temp = @ \ {copy}], next)
         \/ copy \in keys.temp /\ Swallowed(u, next)

(* rmdir, of a directory that is empty *)
EmptyDir == /\ \A f \in Below : keys.file[f] = "missing"
            /\ \A f \in Below, v \in DOMAIN ip : /\ keys.bak[v][f] = "missing"
                                                 /\ <<v, f>> \notin keys.temp

RemoveDir(u) ==
  LET next == [ip[u] EXCEPT !.at = "leave"]
  IN  /\ IsAt(u, "rmdir")
      /\ IF ~ip[u].made THEN Local(u, next)
         ELSE \/ /\ EmptyDir
                 /\ Changes(u, [keys EXCEPT !.dir = "missing"], next)
              \/ Swallowed(u, next)

-----------------------------------------------------------------------------

(* All are in place; the backups go. If one cannot be removed the import throws
   all the same, and what is installed stays. *)
DropBackup(u) == /\ IsAt(u, "clean")
                 /\ Changes(u, [keys EXCEPT !.bak[u][File(u)] = "missing"],
                            Onward(ip[u], "clean", "leave"))

BackupStays(u) == /\ IsAt(u, "clean")
                  /\ keys.bak[u][File(u)] # "missing"
                  /\ Local(u, [ip[u] EXCEPT !.at = "leave", !.failed = TRUE])

(* withSecureTempDir removes what was extracted. *)
ImportEnds(u) == IsAt(u, "leave") /\ Local(u, [ip[u] EXCEPT !.at = "ended"])

Killed(u) == Works(u) /\ Local(u, [ip[u] EXCEPT !.at = "killed"])

IdentityNext == \E u \in DOMAIN ip :
  \/ ImportBegins(u) \/ Extracted(u) \/ CheckDirs(u) \/ CheckFiles(u)
  \/ ImportRefused(u) \/ MakeDir(u) \/ Copy(u) \/ Look(u) \/ BackUp(u) \/ Install(u)
  \/ ImportFails(u) \/ RemoveInstalled(u) \/ Restore(u) \/ Sweep(u) \/ RemoveDir(u)
  \/ DropBackup(u) \/ BackupStays(u) \/ ImportEnds(u) \/ Killed(u)

IdentitySpec == (\E scene \in Scene : IdentityInit(scene)) /\ [][IdentityNext]_identityVars

-----------------------------------------------------------------------------

InPlace(u) == \A f \in Place : keys.file[f] = u
Copies(u) == {c \in keys.temp : c[1] = u}

(* What an import leaves when it returns, unless its undoing failed: all the
   files of the archive, or what was there before and nothing besides. *)
AllOrNothing(u) ==
  IsAt(u, "leave") /\ ~ip[u].hurt =>
    /\ Copies(u) = {}
    /\ \/ InPlace(u)
       \/ ip[u].failed /\ Now = ip[u].before
            /\ \A f \in Place : keys.bak[u][f] = "missing"

(* A file of the user's is in its place or in a backup until the last new file
   is in place, however the import ends. *)
KeysKept(u) ==
  keys.last = u /\ ip[u].installed # Place =>
    \A f \in Place : IsFile(ip[u].before.file[f]) =>
      ip[u].before.file[f] \in {keys.file[f], keys.bak[u][f]}

(* Imports that overlap and succeed leave each file as one of them had it, and
   nothing besides. *)
Mixed == /\ \A f \in Place : keys.file[f] \in DOMAIN ip
         /\ keys.temp = {}
         /\ \A u \in DOMAIN ip, f \in Place : keys.bak[u][f] = "missing"

(* An import that no other one overlaps replaces all files or none, and loses no
   key on the way: not when one of its steps fails, not when the undoing fails as
   well, and not when it is killed. Imports that overlap lose none if all
   succeed. *)
ImportIsAtomic ==
  /\ \A u \in DOMAIN ip : ~ip[u].overlap => AllOrNothing(u) /\ KeysKept(u)
  /\ (\A u \in DOMAIN ip : IsAt(u, "ended") /\ ~ip[u].failed) /\ DOMAIN ip # {} => Mixed
=============================================================================
