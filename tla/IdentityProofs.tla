--------------------------- MODULE IdentityProofs ---------------------------
(* That an import replaces all files or none and loses no key, for any archive,
   any number of imports and whatever is in the directory. *)
EXTENDS Identity, TLAPS

DirKind == {"directory", "missing", "file", "link"}
Entry == {"missing", "mine", "directory", "link"} \cup Importer

(* Where an import is before its first change, and where it changes things. *)
Early == {"extract", "dirs", "files", "mkdir", "copy"}
Replacing == {"look", "backup", "install"}
Undoing == {"undo", "restore", "sweep"}
Stage == Early \cup Replacing \cup Undoing
           \cup {"idle", "rmdir", "clean", "leave", "ended", "killed"}

ImportState ==
  [at : Stage, next : 1..Len(Files), missing : BOOLEAN, made : BOOLEAN,
   backed : SUBSET Place, installed : SUBSET Place, failed : BOOLEAN, hurt : BOOLEAN,
   overlap : BOOLEAN, before : [dir : DirKind, file : [Place -> Entry]]]

KeyState(imports) ==
  [dir : DirKind, file : [Place -> Entry], temp : SUBSET (imports \X Place),
   bak : [imports -> [Place -> Entry]], last : imports \cup {"none"}]

IdentityTypeOK == /\ DOMAIN ip \subseteq Importer
                  /\ ip \in [DOMAIN ip -> ImportState]
                  /\ keys \in KeyState(DOMAIN ip)

(* The places an import has staged a copy for. *)
StagedIn(temp, u) == {f \in Place : <<u, f>> \in temp}

NoBackup(bak) == \A f \in Place : bak[f] = "missing"

(* What is in an import's hands alone, other imports or not: its record x, its
   backups and what it has staged. *)
OwnOf(x, bak, staged) ==
  /\ x.at = "idle" => /\ ~x.failed /\ x.installed = {}
                      /\ NoBackup(bak) /\ staged = {}
  /\ x.at \in Early => /\ ~x.failed /\ ~x.hurt /\ x.installed = {} /\ x.backed = {}
                       /\ NoBackup(bak)
                       /\ x.at # "copy" => staged = {}
  /\ x.at \in Replacing =>
       /\ ~x.failed /\ ~x.hurt
       /\ \A i \in 1..Len(Files) :
            /\ Files[i] \in x.installed <=> i < x.next
            /\ i < x.next => Files[i] \notin staged
            /\ i > x.next \/ (i = x.next /\ x.at = "look") => Files[i] \notin x.backed
            /\ i > x.next \/ (i = x.next /\ x.at # "install") => bak[Files[i]] = "missing"
  /\ x.at = "clean" =>
       /\ ~x.failed /\ x.installed = Place /\ staged = {}
       /\ \A i \in 1..Len(Files) : i < x.next => bak[Files[i]] = "missing"
  /\ x.at \in {"leave", "ended"} /\ ~x.failed =>
       x.installed = Place /\ staged = {} /\ NoBackup(bak)
  /\ x.at \in Undoing \cup {"rmdir"} => x.failed

(* A file that is not replaced: in its place or moved to its backup. *)
Untouched(x, file, bak, f) ==
  \/ file[f] = x.before.file[f] /\ bak[f] = "missing"
  \/ file[f] = "missing" /\ bak[f] = x.before.file[f] /\ f \in x.backed /\ IsFile(bak[f])

(* As the replacements of import u leave a file. *)
Left(u, x, file, bak, f) ==
  IF f \in x.installed
    THEN /\ file[f] = u
         /\ IF f \in x.backed THEN bak[f] = x.before.file[f] /\ IsFile(bak[f])
                              ELSE bak[f] = "missing" /\ x.before.file[f] = "missing"
    ELSE Untouched(x, file, bak, f)

AsBefore(x, file, bak, f) == file[f] = x.before.file[f] /\ bak[f] = "missing"
Kept(x, file, bak, f) == IsFile(x.before.file[f]) => x.before.file[f] \in {file[f], bak[f]}

DirAs(x, dir) == IF x.made THEN x.before.dir = "missing" ELSE dir = x.before.dir

(* What the directory is to an import that no other one overlaps. *)
PhaseOf(u, x, dir, file, bak, staged) ==
  /\ x.at # "idle"
  /\ x.at \in Early \cup Replacing \cup Undoing \cup {"rmdir"} => DirAs(x, dir)
  /\ x.at \in Early =>
       /\ \A f \in Place : file[f] = x.before.file[f]
       /\ x.at # "copy" => ~x.made
  /\ x.at \in Replacing => \A i \in 1..Len(Files) :
       /\ Left(u, x, file, bak, Files[i])
       /\ i > x.next \/ (i = x.next /\ x.at # "install") => file[Files[i]] = x.before.file[Files[i]]
       /\ i = x.next /\ x.at = "backup" => Files[i] \in x.backed /\ IsFile(file[Files[i]])
       /\ i = x.next /\ x.at = "install" =>
            IF Files[i] \in x.backed
              THEN file[Files[i]] = "missing" /\ bak[Files[i]] = x.before.file[Files[i]] /\ IsFile(bak[Files[i]])
              ELSE AsBefore(x, file, bak, Files[i]) /\ file[Files[i]] \in {"missing", "directory"}
  /\ x.at \in Undoing => \A i \in 1..Len(Files) :
       /\ i < x.next => Left(u, x, file, bak, Files[i])
       /\ i = x.next /\ x.at = "undo" => Left(u, x, file, bak, Files[i])
       /\ i = x.next /\ x.at = "restore" =>
            \/ Untouched(x, file, bak, Files[i])
            \/ x.hurt /\ Left(u, x, file, bak, Files[i])
       /\ i > x.next \/ (i = x.next /\ x.at = "sweep") =>
            /\ Kept(x, file, bak, Files[i])
            /\ x.hurt \/ AsBefore(x, file, bak, Files[i])
       /\ i > x.next => x.hurt \/ Files[i] \notin staged
  /\ x.at = "rmdir" => \A f \in Place : /\ Kept(x, file, bak, f)
                                        /\ x.hurt \/ (AsBefore(x, file, bak, f) /\ f \notin staged)
  /\ x.at = "clean" => \A f \in Place : file[f] = u
  /\ x.at = "leave" /\ ~x.hurt =>
       /\ staged = {}
       /\ \/ \A f \in Place : file[f] = u
          \/ x.failed /\ dir = x.before.dir /\ \A f \in Place : AsBefore(x, file, bak, f)
  /\ x.at \in {"leave", "ended", "killed"} /\ x.installed # Place =>
       \A f \in Place : Kept(x, file, bak, f)

Undisturbed(u) == keys.last = u /\ ~ip[u].overlap

Owns == \A u \in DOMAIN ip : OwnOf(ip[u], keys.bak[u], StagedIn(keys.temp, u))

(* One that is at work and was not overlapped began last, and alone. *)
Sole == \A u \in DOMAIN ip :
          /\ Works(u) /\ ~ip[u].overlap => keys.last = u
          /\ Undisturbed(u) => /\ \A v \in DOMAIN ip : Works(v) => v = u
                               /\ PhaseOf(u, ip[u], keys.dir, keys.file, keys.bak[u],
                                          StagedIn(keys.temp, u))

(* Until one fails, what is replaced has a new file, or will have one again. *)
Filled ==
  (\A u \in DOMAIN ip : ~ip[u].failed /\ ip[u].at # "killed") =>
    \A u \in DOMAIN ip : \A f \in ip[u].installed :
      \/ keys.file[f] \in DOMAIN ip
      \/ \E v \in DOMAIN ip : ip[v].at = "install" /\ Files[ip[v].next] = f

IdentityInv == IdentityTypeOK /\ Owns /\ Sole /\ Filled

-----------------------------------------------------------------------------

LEMMA FilesAre == /\ Len(Files) \in Nat \ {0}
                  /\ \A i \in 1..Len(Files) : Files[i] \in Place
                  /\ \A f \in Place : \E i \in 1..Len(Files) : Files[i] = f
                  /\ \A i, j \in 1..Len(Files) : Files[i] = Files[j] => i = j
<1>1. Files \in Seq(Place) /\ Files # <<>>
  BY IdentityAssumption
<1>2. Len(Files) \in Nat \ {0}
  BY <1>1
<1> QED
  BY <1>2, IdentityAssumption DEF Place

(* Until the last new file is in place an import that nobody disturbs has every
   key in its place or in a backup. *)
LEMMA KeysAreKept ==
  ASSUME IdentityInv, NEW u \in DOMAIN ip, Undisturbed(u), ip[u].installed # Place,
         NEW f \in Place
  PROVE  Kept(ip[u], keys.file, keys.bak[u], f)
<1> DEFINE x == ip[u]
           bak == keys.bak[u]
<1>1. /\ PhaseOf(u, x, keys.dir, keys.file, bak, StagedIn(keys.temp, u))
      /\ OwnOf(x, bak, StagedIn(keys.temp, u))
      /\ x.at \in Stage
  BY DEF IdentityInv, Sole, Owns, Undisturbed, IdentityTypeOK, ImportState
<1>2. PICK i \in 1..Len(Files) : Files[i] = f
  BY FilesAre
<1> SUFFICES Kept(x, keys.file, bak, f)
  OBVIOUS
<1> HIDE DEF x, bak
<1>3. Left(u, x, keys.file, bak, f) \/ Untouched(x, keys.file, bak, f) => Kept(x, keys.file, bak, f)
  BY IdentityAssumption DEF Left, Untouched, Kept, IsFile
<1>4. CASE x.at \in Early
  BY <1>1, <1>4 DEF PhaseOf, Kept
<1>5. CASE x.at \in Replacing
  BY <1>1, <1>2, <1>3, <1>5 DEF PhaseOf
<1>6. CASE x.at \in Undoing
  <2>1. i < x.next \/ i = x.next \/ i > x.next
    BY FilesAre DEF IdentityInv, IdentityTypeOK, ImportState, x
  <2> QED
    BY <1>1, <1>2, <1>3, <1>6, <2>1 DEF PhaseOf, Undoing
<1>7. CASE x.at = "clean"
  BY <1>1, <1>7 DEF OwnOf, x
<1>8. CASE x.at \in {"rmdir", "leave", "ended", "killed"}
  BY <1>1, <1>8 DEF PhaseOf, x
<1>9. x.at # "idle"
  BY <1>1 DEF PhaseOf
<1> QED
  BY <1>1, <1>4, <1>5, <1>6, <1>7, <1>8, <1>9 DEF Stage, x, bak

LEMMA InvImplies == IdentityInv => ImportIsAtomic
<1> SUFFICES ASSUME IdentityInv PROVE ImportIsAtomic
  OBVIOUS
<1>1. ASSUME NEW u \in DOMAIN ip, ~ip[u].overlap, IsAt(u, "leave"), ~ip[u].hurt
      PROVE  /\ Copies(u) = {}
             /\ \/ InPlace(u)
                \/ /\ ip[u].failed /\ Now = ip[u].before
                   /\ \A f \in Place : keys.bak[u][f] = "missing"
  <2>1. Undisturbed(u)
    BY <1>1 DEF IdentityInv, Sole, Works, IsAt, Over, Undisturbed
  <2>2. /\ StagedIn(keys.temp, u) = {}
        /\ \/ \A f \in Place : keys.file[f] = u
           \/ /\ ip[u].failed /\ keys.dir = ip[u].before.dir
              /\ \A f \in Place : AsBefore(ip[u], keys.file, keys.bak[u], f)
    BY <1>1, <2>1 DEF IdentityInv, Sole, PhaseOf, IsAt
  <2>3. /\ keys.temp \subseteq Importer \X Place
        /\ keys.file \in [Place -> Entry]
        /\ ip[u].before \in [dir : DirKind, file : [Place -> Entry]]
    BY DEF IdentityInv, IdentityTypeOK, KeyState, ImportState
  <2>4. Copies(u) = {}
    <3> SUFFICES ASSUME NEW c \in keys.temp, c[1] = u PROVE FALSE
      BY DEF Copies
    <3>1. PICK v \in DOMAIN ip, f \in Place : c = <<v, f>>
      BY <2>3
    <3> QED
      BY <2>2, <3>1 DEF StagedIn
  <2>5. (\A f \in Place : keys.file[f] = ip[u].before.file[f]) => keys.file = ip[u].before.file
    BY <2>3
  <2>6. keys.file = ip[u].before.file /\ keys.dir = ip[u].before.dir => Now = ip[u].before
    BY <2>3 DEF Now
  <2> QED
    BY <2>2, <2>4, <2>5, <2>6 DEF InPlace, AsBefore
<1>2. ASSUME NEW u \in DOMAIN ip, ~ip[u].overlap, keys.last = u, ip[u].installed # Place,
             NEW f \in Place
      PROVE  Kept(ip[u], keys.file, keys.bak[u], f)
  BY <1>2, KeysAreKept DEF Undisturbed
<1>3. ASSUME \A u \in DOMAIN ip : IsAt(u, "ended") /\ ~ip[u].failed, DOMAIN ip # {}
      PROVE  Mixed
  <2>1. \A u \in DOMAIN ip : /\ ip[u].installed = Place
                             /\ StagedIn(keys.temp, u) = {} /\ NoBackup(keys.bak[u])
    BY <1>3 DEF IdentityInv, Owns, OwnOf, IsAt
  <2>2. \A f \in Place : keys.file[f] \in DOMAIN ip
    BY <1>3, <2>1 DEF IdentityInv, Filled, IsAt
  <2>3. keys.temp = {}
    <3> SUFFICES ASSUME NEW c \in keys.temp PROVE FALSE
      OBVIOUS
    <3>1. PICK v \in DOMAIN ip, f \in Place : c = <<v, f>>
      BY DEF IdentityInv, IdentityTypeOK, KeyState
    <3> QED
      BY <2>1, <3>1 DEF StagedIn
  <2> QED
    BY <2>1, <2>2, <2>3 DEF Mixed, NoBackup
<1> QED
  BY <1>1, <1>2, <1>3 DEF ImportIsAtomic, AllOrNothing, KeysKept, Kept

(* What the invariant says of one import *)
LEMMA Here ==
  ASSUME IdentityInv, NEW u \in DOMAIN ip
  PROVE  /\ ip[u] \in ImportState /\ keys \in KeyState(DOMAIN ip)
         /\ OwnOf(ip[u], keys.bak[u], StagedIn(keys.temp, u))
         /\ Undisturbed(u) => PhaseOf(u, ip[u], keys.dir, keys.file, keys.bak[u],
                                      StagedIn(keys.temp, u))
  BY DEF IdentityInv, IdentityTypeOK, Owns, Sole

(* What a step of import u must not do to the files the others have put in place. *)
Fills(u, x, k) ==
  /\ \A f \in Place : \/ k.file[f] = keys.file[f]
                      \/ k.file[f] \in DOMAIN ip
                      \/ x.at = "install" /\ Files[x.next] = f
  /\ \A f \in x.installed : f \in ip[u].installed \/ k.file[f] \in DOMAIN ip
  /\ ip[u].at = "install" => k.file[Files[ip[u].next]] \in DOMAIN ip

(* A step of one import, which leaves it with x and the directory with k *)
LEMMA StepKeeps ==
  ASSUME IdentityInv, NEW u \in DOMAIN ip, Works(u),
         NEW x \in ImportState, NEW k \in KeyState(DOMAIN ip),
         ip' = [ip EXCEPT ![u] = x], keys' = k, k.last = keys.last,
         \A v \in DOMAIN ip \ {u} : /\ k.bak[v] = keys.bak[v]
                                    /\ StagedIn(k.temp, v) = StagedIn(keys.temp, v),
         x.overlap = ip[u].overlap, ip[u].failed => x.failed,
         OwnOf(x, k.bak[u], StagedIn(k.temp, u)),
         Undisturbed(u) => PhaseOf(u, x, k.dir, k.file, k.bak[u], StagedIn(k.temp, u)),
         x.failed \/ x.at = "killed" \/ Fills(u, x, k)
  PROVE  IdentityInv'
<1>1. /\ DOMAIN ip' = DOMAIN ip
      /\ ip'[u] = x /\ \A v \in DOMAIN ip : v # u => ip'[v] = ip[v]
      /\ ip \in [DOMAIN ip -> ImportState] /\ DOMAIN ip \subseteq Importer
  BY DEF IdentityInv, IdentityTypeOK
<1>2. IdentityTypeOK'
  BY <1>1 DEF IdentityTypeOK
<1>3. Owns'
  BY <1>1 DEF IdentityInv, Owns
<1>4. Sole'
  <2>1. \A v \in DOMAIN ip : (Works(v)' => Works(v)) /\ ip'[v].overlap = ip[v].overlap
    BY <1>1 DEF Works
  <2>2. keys'.last = keys.last
    OBVIOUS
  <2>3. \A v \in DOMAIN ip : Undisturbed(v)' <=> Undisturbed(v)
    BY <2>1, <2>2 DEF Undisturbed
  <2>4. \A v \in DOMAIN ip : Works(v)' /\ ~ip'[v].overlap => keys'.last = v
    BY <2>1, <2>2 DEF IdentityInv, Sole
  <2>5. \A v \in DOMAIN ip : Undisturbed(v)' => \A w \in DOMAIN ip : Works(w)' => w = v
    BY <2>1, <2>3 DEF IdentityInv, Sole
  <2>6. \A v \in DOMAIN ip : Undisturbed(v) => v = u
    BY DEF IdentityInv, Sole
  <2>7. Undisturbed(u)' => PhaseOf(u, ip'[u], keys'.dir, keys'.file, keys'.bak[u], StagedIn(keys'.temp, u))
    BY <1>1, <2>3
  <2> QED
    BY <1>1, <2>3, <2>4, <2>5, <2>6, <2>7 DEF Sole
<1>5. Filled'
  <2> SUFFICES ASSUME \A v \in DOMAIN ip : ~ip'[v].failed /\ ip'[v].at # "killed",
                      NEW w \in DOMAIN ip, NEW f \in ip'[w].installed
               PROVE  \/ k.file[f] \in DOMAIN ip
                      \/ \E v \in DOMAIN ip : ip'[v].at = "install" /\ Files[ip'[v].next] = f
    BY <1>1 DEF Filled
  <2>1. Fills(u, x, k)
    BY <1>1
  <2>2. f \in Place
    BY <1>1 DEF ImportState
  <2>3. \A v \in DOMAIN ip : ~ip[v].failed /\ ip[v].at # "killed"
    BY <1>1 DEF Works, Over
  <2>4. f \in ip[w].installed \/ k.file[f] \in DOMAIN ip
    BY <1>1, <2>1 DEF Fills
  <2>5. ASSUME f \in ip[w].installed, keys.file[f] \in DOMAIN ip
        PROVE  \/ k.file[f] \in DOMAIN ip
               \/ \E v \in DOMAIN ip : ip'[v].at = "install" /\ Files[ip'[v].next] = f
    BY <1>1, <2>1, <2>2, <2>5 DEF Fills
  <2>6. ASSUME NEW v \in DOMAIN ip, ip[v].at = "install", Files[ip[v].next] = f
        PROVE  \/ k.file[f] \in DOMAIN ip
               \/ \E q \in DOMAIN ip : ip'[q].at = "install" /\ Files[ip'[q].next] = f
    <3>1. CASE v = u
      BY <2>1, <2>6, <3>1 DEF Fills
    <3>2. CASE v # u
      BY <1>1, <2>6, <3>2
    <3> QED
      BY <3>1, <3>2
  <2> QED
    BY <2>3, <2>4, <2>5, <2>6 DEF IdentityInv, Filled
<1> QED
  BY <1>2, <1>3, <1>4, <1>5 DEF IdentityInv

(* ...and one that changes nothing but what the import knows. *)
LEMMA LocalKeeps ==
  ASSUME IdentityInv, NEW u \in DOMAIN ip, Works(u), NEW x \in ImportState, Local(u, x),
         x.overlap = ip[u].overlap, ip[u].failed => x.failed,
         OwnOf(x, keys.bak[u], StagedIn(keys.temp, u)),
         Undisturbed(u) => PhaseOf(u, x, keys.dir, keys.file, keys.bak[u], StagedIn(keys.temp, u)),
         x.failed \/ x.at = "killed" \/ (x.installed = ip[u].installed /\ ip[u].at # "install")
  PROVE  IdentityInv'
<1>1. keys' = keys /\ ip' = [ip EXCEPT ![u] = x]
  BY DEF Local
<1>2. x.failed \/ x.at = "killed" \/ Fills(u, x, keys)
  BY DEF Fills
<1> QED
  BY <1>1, <1>2, Here, StepKeeps

LEMMA ExtractedKeeps == ASSUME IdentityInv, NEW u \in DOMAIN ip, Extracted(u) PROVE IdentityInv'
<1> DEFINE x == ip[u]
           y == [x EXCEPT !.at = "dirs"]
           bak == keys.bak[u]
           staged == StagedIn(keys.temp, u)
<1>1. /\ x \in ImportState /\ OwnOf(x, bak, staged) /\ x.at = "extract"
      /\ Undisturbed(u) => PhaseOf(u, x, keys.dir, keys.file, bak, staged)
      /\ Local(u, y) /\ Works(u)
  BY Here DEF Extracted, IsAt, Works, Over
<1> HIDE DEF x, bak, staged
<1>2. /\ y \in ImportState /\ y.at = "dirs" /\ y.failed = x.failed /\ y.hurt = x.hurt
      /\ y.installed = x.installed /\ y.backed = x.backed /\ y.made = x.made /\ y.next = x.next
      /\ y.before = x.before /\ y.overlap = x.overlap /\ y.missing = x.missing
  BY <1>1 DEF ImportState, Stage, Early
<1> HIDE DEF y
<1>3. OwnOf(y, bak, staged)
  BY <1>1, <1>2 DEF OwnOf, Early, Replacing, Undoing
<1>4. Undisturbed(u) => PhaseOf(u, y, keys.dir, keys.file, bak, staged)
  BY <1>1, <1>2 DEF PhaseOf, Early, Replacing, Undoing, DirAs
<1> QED
  BY <1>1, <1>2, <1>3, <1>4, LocalKeeps DEF x, bak, staged

LEMMA CheckDirsKeeps == ASSUME IdentityInv, NEW u \in DOMAIN ip, CheckDirs(u) PROVE IdentityInv'
<1> DEFINE x == ip[u]
           y == [x EXCEPT !.at = "files", !.missing = keys.dir = "missing"]
           bak == keys.bak[u]
           staged == StagedIn(keys.temp, u)
<1>1. /\ x \in ImportState /\ OwnOf(x, bak, staged) /\ x.at = "dirs"
      /\ Undisturbed(u) => PhaseOf(u, x, keys.dir, keys.file, bak, staged)
      /\ Local(u, y) /\ Works(u)
  BY Here DEF CheckDirs, IsAt, Works, Over
<1> HIDE DEF x, bak, staged
<1>2. /\ y \in ImportState /\ y.at = "files" /\ y.failed = x.failed /\ y.hurt = x.hurt
      /\ y.installed = x.installed /\ y.backed = x.backed /\ y.made = x.made
      /\ y.before = x.before /\ y.overlap = x.overlap
  BY <1>1 DEF ImportState, Stage, Early
<1> HIDE DEF y
<1>3. OwnOf(y, bak, staged)
  BY <1>1, <1>2 DEF OwnOf, Early, Replacing, Undoing
<1>4. Undisturbed(u) => PhaseOf(u, y, keys.dir, keys.file, bak, staged)
  BY <1>1, <1>2 DEF PhaseOf, Early, Replacing, Undoing, DirAs
<1> QED
  BY <1>1, <1>2, <1>3, <1>4, LocalKeeps DEF x, bak, staged

LEMMA CheckFilesKeeps == ASSUME IdentityInv, NEW u \in DOMAIN ip, CheckFiles(u) PROVE IdentityInv'
<1> DEFINE x == ip[u]
           y == [x EXCEPT !.at = IF x.missing THEN "mkdir" ELSE "copy"]
           bak == keys.bak[u]
           staged == StagedIn(keys.temp, u)
<1>1. /\ x \in ImportState /\ OwnOf(x, bak, staged) /\ x.at = "files"
      /\ Undisturbed(u) => PhaseOf(u, x, keys.dir, keys.file, bak, staged)
      /\ Local(u, y) /\ Works(u)
  BY Here DEF CheckFiles, IsAt, Works, Over
<1> HIDE DEF x, bak, staged
<1>2. /\ y \in ImportState /\ y.at \in {"mkdir", "copy"} /\ y.failed = x.failed /\ y.hurt = x.hurt
      /\ y.installed = x.installed /\ y.backed = x.backed /\ y.made = x.made
      /\ y.before = x.before /\ y.overlap = x.overlap
  BY <1>1 DEF ImportState, Stage, Early
<1> HIDE DEF y
<1>3. OwnOf(y, bak, staged)
  BY <1>1, <1>2 DEF OwnOf, Early, Replacing, Undoing
<1>4. Undisturbed(u) => PhaseOf(u, y, keys.dir, keys.file, bak, staged)
  BY <1>1, <1>2 DEF PhaseOf, Early, Replacing, Undoing, DirAs
<1> QED
  BY <1>1, <1>2, <1>3, <1>4, LocalKeeps DEF x, bak, staged

LEMMA ImportRefusedKeeps ==
  ASSUME IdentityInv, NEW u \in DOMAIN ip, ImportRefused(u) PROVE IdentityInv'
<1> DEFINE x == ip[u]
           y == [x EXCEPT !.at = "leave", !.failed = TRUE]
           bak == keys.bak[u]
           staged == StagedIn(keys.temp, u)
<1>1. /\ x \in ImportState /\ OwnOf(x, bak, staged) /\ x.at \in {"extract", "dirs", "files"}
      /\ Undisturbed(u) => PhaseOf(u, x, keys.dir, keys.file, bak, staged)
      /\ Local(u, y) /\ Works(u)
  BY Here DEF ImportRefused, Works, Over
<1> HIDE DEF x, bak, staged
<1>2. /\ y \in ImportState /\ y.at = "leave" /\ y.failed = TRUE /\ y.hurt = x.hurt
      /\ y.installed = x.installed /\ y.before = x.before /\ y.overlap = x.overlap
  BY <1>1 DEF ImportState, Stage, Early
<1> HIDE DEF y
<1>3. OwnOf(y, bak, staged)
  BY <1>2 DEF OwnOf, Early, Replacing, Undoing
<1>4. Undisturbed(u) => PhaseOf(u, y, keys.dir, keys.file, bak, staged)
  BY <1>1, <1>2 DEF PhaseOf, OwnOf, NoBackup, Early, Replacing, Undoing, DirAs, AsBefore, Kept
<1> QED
  BY <1>1, <1>2, <1>3, <1>4, LocalKeeps DEF x, bak, staged

LEMMA MakeDirKeeps == ASSUME IdentityInv, NEW u \in DOMAIN ip, MakeDir(u) PROVE IdentityInv'
<1> DEFINE x == ip[u]
           y == [x EXCEPT !.at = "copy", !.made = TRUE]
           k == [keys EXCEPT !.dir = "directory"]
           bak == keys.bak[u]
           staged == StagedIn(keys.temp, u)
<1>1. /\ x \in ImportState /\ OwnOf(x, bak, staged) /\ x.at = "mkdir"
      /\ Undisturbed(u) => PhaseOf(u, x, keys.dir, keys.file, bak, staged)
      /\ Works(u) /\ keys.dir = "missing" /\ keys \in KeyState(DOMAIN ip)
      /\ ip' = [ip EXCEPT ![u] = y] /\ keys' = k
  BY Here DEF MakeDir, Changes, IsAt, Works, Over
<1> HIDE DEF x, bak, staged
<1>2. /\ y \in ImportState /\ y.at = "copy" /\ y.failed = x.failed /\ y.hurt = x.hurt
      /\ y.installed = x.installed /\ y.backed = x.backed /\ y.made = TRUE
      /\ y.before = x.before /\ y.overlap = x.overlap
  BY <1>1 DEF ImportState, Stage, Early
<1>3. /\ k \in KeyState(DOMAIN ip) /\ k.dir = "directory" /\ k.file = keys.file
      /\ k.temp = keys.temp /\ k.bak = keys.bak /\ k.last = keys.last
  BY <1>1 DEF KeyState, DirKind
<1> HIDE DEF y, k
<1>4. OwnOf(y, bak, staged)
  BY <1>1, <1>2 DEF OwnOf, Early, Replacing, Undoing
<1>5. Undisturbed(u) => PhaseOf(u, y, k.dir, k.file, bak, staged)
  BY <1>1, <1>2, <1>3 DEF PhaseOf, Early, Replacing, Undoing, DirAs
<1>6. Fills(u, y, k)
  BY <1>1, <1>2, <1>3 DEF Fills, x
<1> QED
  BY <1>1, <1>2, <1>3, <1>4, <1>5, <1>6, StepKeeps DEF x, bak, staged

(* What x becomes when it goes on from one file to the next *)
LEMMA OnwardIs ==
  ASSUME NEW x \in ImportState, NEW s \in Stage, NEW after \in Stage
  PROVE  LET y == Onward(x, s, after)
         IN  /\ y \in ImportState
             /\ y.failed = x.failed /\ y.hurt = x.hurt /\ y.installed = x.installed
             /\ y.backed = x.backed /\ y.made = x.made /\ y.before = x.before /\ y.overlap = x.overlap
             /\ IF x.next < Len(Files) THEN y.at = s /\ y.next = x.next + 1
                                       ELSE y.at = after /\ y.next = 1
<1>1. CASE x.next < Len(Files)
  <2>1. x.next + 1 \in 1..Len(Files)
    BY <1>1, FilesAre DEF ImportState
  <2> QED
    BY <1>1, <2>1 DEF Onward, ImportState
<1>2. CASE ~(x.next < Len(Files))
  <2>1. 1 \in 1..Len(Files)
    BY FilesAre
  <2> QED
    BY <1>2, <2>1 DEF Onward, ImportState
<1> QED
  BY <1>1, <1>2

LEMMA CopyKeeps == ASSUME IdentityInv, NEW u \in DOMAIN ip, Copy(u) PROVE IdentityInv'
<1> DEFINE x == ip[u]
           y == Onward(x, "copy", "look")
           k == [keys EXCEPT !.temp = @ \cup {<<u, File(u)>>}]
           bak == keys.bak[u]
           staged == StagedIn(keys.temp, u)
           with == StagedIn(k.temp, u)
<1>1. /\ x \in ImportState /\ OwnOf(x, bak, staged) /\ x.at = "copy"
      /\ Undisturbed(u) => PhaseOf(u, x, keys.dir, keys.file, bak, staged)
      /\ Works(u) /\ keys \in KeyState(DOMAIN ip)
      /\ ip' = [ip EXCEPT ![u] = y] /\ keys' = k
  BY Here DEF Copy, Changes, IsAt, Works, Over
<1>2. File(u) \in Place /\ x.next \in 1..Len(Files)
  BY <1>1, FilesAre DEF File, ImportState
<1> HIDE DEF x, bak, staged
<1>3. /\ y \in ImportState /\ y.at \in {"copy", "look"} /\ y.failed = x.failed /\ y.hurt = x.hurt
      /\ y.installed = x.installed /\ y.backed = x.backed /\ y.made = x.made
      /\ y.before = x.before /\ y.overlap = x.overlap
      /\ y.at = "look" => y.next = 1
  <2>1. "copy" \in Stage /\ "look" \in Stage
    BY DEF Stage, Early, Replacing
  <2> QED
    BY <1>1, <2>1, OnwardIs
<1>4. /\ k \in KeyState(DOMAIN ip) /\ k.dir = keys.dir /\ k.file = keys.file
      /\ k.temp = keys.temp \cup {<<u, File(u)>>} /\ k.bak = keys.bak /\ k.last = keys.last
  <2>1. keys.temp \cup {<<u, File(u)>>} \in SUBSET ((DOMAIN ip) \X Place)
    BY <1>1, <1>2 DEF KeyState
  <2> QED
    BY <1>1, <2>1 DEF KeyState
<1> HIDE DEF y, k
<1>5. \A v \in DOMAIN ip \ {u} : StagedIn(k.temp, v) = StagedIn(keys.temp, v)
  BY <1>4 DEF StagedIn
<1>6. \A i \in 1..Len(Files) : ~(i < 1) /\ Files[i] \in Place
  BY FilesAre
<1> HIDE DEF with
<1>7. OwnOf(y, bak, with)
  <2>1. CASE y.at = "copy"
    BY <1>1, <1>3, <2>1 DEF OwnOf, Early, Replacing, Undoing
  <2>2. CASE y.at = "look"
    BY <1>1, <1>3, <1>6, <2>2 DEF OwnOf, NoBackup, Early, Replacing, Undoing
  <2> QED
    BY <1>3, <2>1, <2>2
<1>8. Undisturbed(u) => PhaseOf(u, y, k.dir, k.file, bak, with)
  <2>1. CASE y.at = "copy"
    BY <1>1, <1>3, <1>4, <2>1 DEF PhaseOf, Early, Replacing, Undoing, DirAs
  <2>2. CASE y.at = "look"
    <3>1. Undisturbed(u) => /\ DirAs(y, k.dir)
                            /\ \A i \in 1..Len(Files) : /\ Left(u, y, k.file, bak, Files[i])
                                                        /\ k.file[Files[i]] = y.before.file[Files[i]]
      BY <1>1, <1>3, <1>4, <1>6 DEF PhaseOf, OwnOf, NoBackup, Early, DirAs, Left, Untouched
    <3> QED
      BY <2>2, <3>1 DEF PhaseOf, Early, Replacing, Undoing
  <2> QED
    BY <1>3, <2>1, <2>2
<1>9. Fills(u, y, k)
  BY <1>1, <1>3, <1>4 DEF Fills, x
<1> QED
  BY <1>1, <1>3, <1>4, <1>5, <1>7, <1>8, <1>9, StepKeeps DEF x, bak, with

LEMMA LookKeeps == ASSUME IdentityInv, NEW u \in DOMAIN ip, Look(u) PROVE IdentityInv'
<1> DEFINE x == ip[u]
           f == File(u)
           y == IF IsFile(keys.file[f]) THEN [x EXCEPT !.at = "backup", !.backed = @ \cup {f}]
                                        ELSE [x EXCEPT !.at = "install"]
           bak == keys.bak[u]
           staged == StagedIn(keys.temp, u)
<1>1. /\ x \in ImportState /\ OwnOf(x, bak, staged) /\ x.at = "look"
      /\ Undisturbed(u) => PhaseOf(u, x, keys.dir, keys.file, bak, staged)
      /\ Local(u, y) /\ Works(u) /\ keys \in KeyState(DOMAIN ip) /\ keys.file[f] # "link"
  BY Here DEF Look, IsAt, Works, Over
<1>2. f \in Place /\ x.next \in 1..Len(Files) /\ f = Files[x.next]
  BY <1>1, FilesAre DEF File, ImportState
<1>3. \A i \in 1..Len(Files) : Files[i] \in Place /\ (Files[i] = f <=> i = x.next)
  BY <1>2, FilesAre
<1> HIDE DEF x, bak, staged, f
<1>4. /\ y \in ImportState /\ y.failed = x.failed /\ y.hurt = x.hurt /\ y.next = x.next
      /\ y.installed = x.installed /\ y.made = x.made
      /\ y.before = x.before /\ y.overlap = x.overlap
      /\ IF IsFile(keys.file[f]) THEN y.at = "backup" /\ y.backed = x.backed \cup {f}
                                 ELSE y.at = "install" /\ y.backed = x.backed
  BY <1>1, <1>2 DEF ImportState, Stage, Replacing
<1>5. keys.file[f] \in {"missing", "directory"} \/ IsFile(keys.file[f])
  BY <1>1, <1>2 DEF KeyState, Entry, IsFile
<1> HIDE DEF y
<1>6. OwnOf(y, bak, staged)
  BY <1>1, <1>2, <1>3, <1>4 DEF OwnOf, Early, Replacing, Undoing
<1>7. ASSUME Undisturbed(u) PROVE PhaseOf(u, y, keys.dir, keys.file, bak, staged)
  <2>1. /\ DirAs(y, keys.dir)
        /\ \A i \in 1..Len(Files) :
             /\ Left(u, x, keys.file, bak, Files[i])
             /\ i >= x.next => keys.file[Files[i]] = x.before.file[Files[i]] /\ bak[Files[i]] = "missing"
                               /\ Files[i] \notin x.backed
    BY <1>1, <1>2, <1>4, <1>7 DEF PhaseOf, OwnOf, Replacing, DirAs
  <2>2. \A i \in 1..Len(Files) : Left(u, y, keys.file, bak, Files[i])
    <3>1. \A i \in 1..Len(Files) : i # x.next => (Files[i] \in y.backed <=> Files[i] \in x.backed)
      BY <1>3, <1>4
    <3>2. ASSUME NEW i \in 1..Len(Files), i # x.next PROVE Left(u, y, keys.file, bak, Files[i])
      BY <1>4, <2>1, <3>1, <3>2 DEF Left, Untouched
    <3>3. Left(u, y, keys.file, bak, f)
      <4>1. f \notin x.installed
        BY <1>1, <1>2 DEF OwnOf, Replacing
      <4> QED
        BY <1>2, <1>4, <2>1, <4>1 DEF Left, Untouched
    <3> QED
      BY <1>2, <3>2, <3>3
  <2>3. y.at \in {"backup", "install"}
    BY <1>4
  <2>4. y.at = "backup" => f \in y.backed /\ IsFile(keys.file[f])
    BY <1>4
  <2>5. y.at = "install" => /\ f \notin y.backed
                            /\ AsBefore(y, keys.file, bak, f)
                            /\ keys.file[f] \in {"missing", "directory"}
    BY <1>2, <1>4, <1>5, <2>1 DEF AsBefore
  <2>6. \A i \in 1..Len(Files) : i > y.next \/ i = y.next => keys.file[Files[i]] = y.before.file[Files[i]]
    BY <1>2, <1>4, <2>1
  <2>7. f = Files[y.next]
    BY <1>2, <1>4
  <2> QED
    BY <2>1, <2>2, <2>3, <2>4, <2>5, <2>6, <2>7 DEF PhaseOf, Early, Replacing, Undoing
<1> QED
  BY <1>1, <1>4, <1>6, <1>7, LocalKeeps DEF x, bak, staged

(* One file's backup, and one place *)
LEMMA BackupSet ==
  ASSUME NEW imports, NEW k \in KeyState(imports), NEW u \in imports, NEW f \in Place, NEW e \in Entry
  PROVE  LET new == [k.bak EXCEPT ![u][f] = e]
         IN  /\ new \in [imports -> [Place -> Entry]]
             /\ \A v \in imports \ {u} : new[v] = k.bak[v]
             /\ \A g \in Place : new[u][g] = IF g = f THEN e ELSE k.bak[u][g]
  BY DEF KeyState

LEMMA PlaceSet ==
  ASSUME NEW imports, NEW k \in KeyState(imports), NEW f \in Place, NEW e \in Entry
  PROVE  LET new == [k.file EXCEPT ![f] = e]
         IN  /\ new \in [Place -> Entry]
             /\ \A g \in Place : new[g] = IF g = f THEN e ELSE k.file[g]
  BY DEF KeyState

LEMMA BackUpKeeps == ASSUME IdentityInv, NEW u \in DOMAIN ip, BackUp(u) PROVE IdentityInv'
<1> DEFINE x == ip[u]
           f == File(u)
           y == [x EXCEPT !.at = "install"]
           old == keys.file[f]
           k == [keys EXCEPT !.bak[u][f] = old, !.file[f] = "missing"]
           bak == keys.bak[u]
           kept == k.bak[u]
           staged == StagedIn(keys.temp, u)
<1>1. /\ x \in ImportState /\ OwnOf(x, bak, staged) /\ x.at = "backup"
      /\ Undisturbed(u) => PhaseOf(u, x, keys.dir, keys.file, bak, staged)
      /\ Works(u) /\ keys \in KeyState(DOMAIN ip)
      /\ ip' = [ip EXCEPT ![u] = y] /\ keys' = k
  BY Here DEF BackUp, Changes, IsAt, Works, Over
<1>2. f \in Place /\ x.next \in 1..Len(Files) /\ f = Files[x.next]
  BY <1>1, FilesAre DEF File, ImportState
<1>3. \A i \in 1..Len(Files) : Files[i] \in Place /\ (Files[i] = f <=> i = x.next)
  BY <1>2, FilesAre
<1> HIDE DEF x, bak, staged, f
<1>4. /\ y \in ImportState /\ y.at = "install" /\ y.failed = x.failed /\ y.hurt = x.hurt
      /\ y.installed = x.installed /\ y.backed = x.backed /\ y.made = x.made /\ y.next = x.next
      /\ y.before = x.before /\ y.overlap = x.overlap
  BY <1>1 DEF ImportState, Stage, Replacing
<1>5. old \in Entry /\ "missing" \in Entry
  BY <1>1, <1>2 DEF KeyState, Entry
<1>6. /\ k \in KeyState(DOMAIN ip) /\ k.dir = keys.dir /\ k.temp = keys.temp /\ k.last = keys.last
      /\ \A v \in (DOMAIN ip) \ {u} : k.bak[v] = keys.bak[v]
      /\ \A g \in Place : k.bak[u][g] = IF g = f THEN old ELSE keys.bak[u][g]
      /\ \A g \in Place : k.file[g] = IF g = f THEN "missing" ELSE keys.file[g]
  <2>1. /\ k.bak = [keys.bak EXCEPT ![u][f] = old] /\ k.file = [keys.file EXCEPT ![f] = "missing"]
        /\ k.dir = keys.dir /\ k.temp = keys.temp /\ k.last = keys.last
        /\ k = [keys EXCEPT !.bak = k.bak, !.file = k.file]
    BY <1>1 DEF KeyState
  <2> HIDE DEF k, old
  <2>2. k.bak \in [DOMAIN ip -> [Place -> Entry]] /\ k.file \in [Place -> Entry]
    BY <1>1, <1>2, <1>5, <2>1, BackupSet, PlaceSet
  <2>3. k \in KeyState(DOMAIN ip)
    BY <1>1, <2>1, <2>2 DEF KeyState
  <2> QED
    BY <1>1, <1>2, <1>5, <2>1, <2>3, BackupSet, PlaceSet
<1> HIDE DEF y, k, old, kept
<1>7. /\ \A i \in 1..Len(Files) : i # x.next => /\ k.file[Files[i]] = keys.file[Files[i]]
                                               /\ kept[Files[i]] = bak[Files[i]]
      /\ k.file[f] = "missing" /\ kept[f] = keys.file[f]
  BY <1>2, <1>3, <1>6 DEF bak, kept, old
<1>8. OwnOf(y, kept, staged)
  BY <1>1, <1>2, <1>3, <1>4, <1>7 DEF OwnOf, Early, Replacing, Undoing
<1>9. ASSUME Undisturbed(u) PROVE PhaseOf(u, y, k.dir, k.file, kept, staged)
  <2>1. /\ DirAs(x, keys.dir)
        /\ \A i \in 1..Len(Files) :
             /\ Left(u, x, keys.file, bak, Files[i])
             /\ i >= x.next => keys.file[Files[i]] = x.before.file[Files[i]]
        /\ f \in x.backed /\ IsFile(keys.file[f])
    BY <1>1, <1>2, <1>9 DEF PhaseOf, Replacing
  <2>2. f \notin x.installed /\ keys.file[f] = x.before.file[f]
    BY <1>1, <1>2, <2>1 DEF OwnOf, Replacing
  <2>3. \A i \in 1..Len(Files) : i # x.next => Left(u, y, k.file, kept, Files[i])
    BY <1>4, <1>7, <2>1 DEF Left, Untouched
  <2>4. Left(u, y, k.file, kept, f)
    BY <1>4, <1>7, <2>1, <2>2 DEF Left, Untouched
  <2>5. \A i \in 1..Len(Files) : Left(u, y, k.file, kept, Files[i])
    BY <1>2, <2>3, <2>4
  <2>6. \A i \in 1..Len(Files) : i > x.next => k.file[Files[i]] = x.before.file[Files[i]]
    BY <1>2, <1>7, <2>1
  <2> QED
    BY <1>2, <1>4, <1>6, <1>7, <2>1, <2>2, <2>5, <2>6 DEF PhaseOf, Early, Replacing, Undoing, DirAs
<1>10. Fills(u, y, k)
  BY <1>1, <1>2, <1>4, <1>6 DEF Fills, x
<1> QED
  BY <1>1, <1>4, <1>6, <1>8, <1>9, <1>10, StepKeeps DEF x, bak, kept, staged

(* What a rename to a place, from what is staged, leaves. *)
LEMMA InstallKeeps == ASSUME IdentityInv, NEW u \in DOMAIN ip, Install(u) PROVE IdentityInv'
<1> DEFINE x == ip[u]
           f == File(u)
           z == [x EXCEPT !.installed = @ \cup {f}]
           y == Onward(z, "look", "clean")
           k == [keys EXCEPT !.file[f] = u, !.temp = @ \ {<<u, f>>}]
           bak == keys.bak[u]
           staged == StagedIn(keys.temp, u)
           rest == StagedIn(k.temp, u)
<1>1. /\ x \in ImportState /\ OwnOf(x, bak, staged) /\ x.at = "install"
      /\ Undisturbed(u) => PhaseOf(u, x, keys.dir, keys.file, bak, staged)
      /\ Works(u) /\ keys \in KeyState(DOMAIN ip)
      /\ ip' = [ip EXCEPT ![u] = y] /\ keys' = k
      /\ keys.file[f] # "directory"
      /\ u \in Importer
  BY Here DEF Install, Changes, IsAt, Works, Over, IdentityInv, IdentityTypeOK
<1>2. f \in Place /\ x.next \in 1..Len(Files) /\ f = Files[x.next]
  BY <1>1, FilesAre DEF File, ImportState
<1>3. \A i \in 1..Len(Files) : Files[i] \in Place /\ (Files[i] = f <=> i = x.next)
  BY <1>2, FilesAre
<1> HIDE DEF x, bak, staged, f
<1>4. /\ y \in ImportState /\ y.failed = x.failed /\ y.hurt = x.hurt
      /\ y.installed = x.installed \cup {f} /\ y.backed = x.backed /\ y.made = x.made
      /\ y.before = x.before /\ y.overlap = x.overlap
      /\ IF x.next < Len(Files) THEN y.at = "look" /\ y.next = x.next + 1
                                ELSE y.at = "clean" /\ y.next = 1
  <2>1. /\ z \in ImportState /\ z.failed = x.failed /\ z.hurt = x.hurt /\ z.next = x.next
        /\ z.installed = x.installed \cup {f} /\ z.backed = x.backed /\ z.made = x.made
        /\ z.before = x.before /\ z.overlap = x.overlap
    BY <1>1, <1>2 DEF ImportState
  <2>2. "look" \in Stage /\ "clean" \in Stage
    BY DEF Stage, Replacing
  <2> HIDE DEF z
  <2> QED
    BY <2>1, <2>2, OnwardIs
<1>5. /\ k \in KeyState(DOMAIN ip) /\ k.dir = keys.dir /\ k.last = keys.last /\ k.bak = keys.bak
      /\ k.temp = keys.temp \ {<<u, f>>}
      /\ \A g \in Place : k.file[g] = IF g = f THEN u ELSE keys.file[g]
  <2>1. /\ k.bak = keys.bak /\ k.file = [keys.file EXCEPT ![f] = u]
        /\ k.dir = keys.dir /\ k.temp = keys.temp \ {<<u, f>>} /\ k.last = keys.last
        /\ k = [keys EXCEPT !.file = k.file, !.temp = k.temp]
    BY <1>1 DEF KeyState
  <2> HIDE DEF k
  <2>2. k.file \in [Place -> Entry] /\ k.temp \in SUBSET ((DOMAIN ip) \X Place)
    BY <1>1, <1>2, <2>1 DEF KeyState, Entry
  <2>3. k \in KeyState(DOMAIN ip)
    BY <1>1, <2>1, <2>2 DEF KeyState
  <2>4. u \in Entry
    BY <1>1 DEF Entry
  <2> QED
    BY <1>1, <1>2, <2>1, <2>3, <2>4, PlaceSet
<1> HIDE DEF y, k, z
<1>6. /\ \A v \in DOMAIN ip \ {u} : StagedIn(k.temp, v) = StagedIn(keys.temp, v)
      /\ rest = staged \ {f}
  BY <1>5 DEF StagedIn, staged
<1> HIDE DEF rest
<1>7. /\ \A i \in 1..Len(Files) : i # x.next => k.file[Files[i]] = keys.file[Files[i]]
      /\ k.file[f] = u
      /\ \A i \in 1..Len(Files) : Files[i] \in y.installed <=> Files[i] \in x.installed \/ i = x.next
  BY <1>2, <1>3, <1>4, <1>5
<1>8. OwnOf(y, bak, rest)
  <2>1. /\ ~x.failed /\ ~x.hurt
        /\ \A i \in 1..Len(Files) :
             /\ Files[i] \in x.installed <=> i < x.next
             /\ i < x.next => Files[i] \notin staged
             /\ i > x.next => Files[i] \notin x.backed
             /\ i > x.next => bak[Files[i]] = "missing"
    BY <1>1 DEF OwnOf, Replacing
  <2>2. CASE x.next < Len(Files)
    <3>1. \A i \in 1..Len(Files) : /\ i < x.next + 1 <=> i < x.next \/ i = x.next
                                   /\ i > x.next + 1 \/ i = x.next + 1 <=> i > x.next
      BY <1>2, FilesAre
    <3>2. \A i \in 1..Len(Files) : i < x.next \/ i = x.next => Files[i] \notin rest
      BY <1>2, <1>6, <2>1
    <3> QED
      BY <1>4, <1>7, <2>1, <2>2, <3>1, <3>2 DEF OwnOf, Early, Replacing, Undoing
  <2>3. CASE ~(x.next < Len(Files))
    <3>1. \A i \in 1..Len(Files) : i < x.next \/ i = x.next
      BY <1>2, <2>3, FilesAre
    <3>2. \A i \in 1..Len(Files) : Files[i] \in y.installed /\ Files[i] \notin rest
      BY <1>2, <1>6, <1>7, <2>1, <3>1
    <3>3. y.installed \subseteq Place /\ rest \subseteq Place
      BY <1>4, <1>6 DEF ImportState, staged, StagedIn
    <3>4. \A g \in Place : g \in y.installed /\ g \notin rest
      BY <3>2, FilesAre
    <3>5. y.installed = Place /\ rest = {}
      BY <3>3, <3>4
    <3>6. \A i \in 1..Len(Files) : ~(i < 1)
      BY FilesAre
    <3> QED
      BY <1>4, <2>1, <2>3, <3>5, <3>6 DEF OwnOf, Early, Replacing, Undoing
  <2> QED
    BY <2>2, <2>3
<1>9. ASSUME Undisturbed(u) PROVE PhaseOf(u, y, k.dir, k.file, bak, rest)
  <2>1. /\ DirAs(x, keys.dir)
        /\ \A i \in 1..Len(Files) :
             /\ Left(u, x, keys.file, bak, Files[i])
             /\ i > x.next => keys.file[Files[i]] = x.before.file[Files[i]]
        /\ IF f \in x.backed
              THEN bak[f] = x.before.file[f] /\ IsFile(bak[f])
              ELSE AsBefore(x, keys.file, bak, f) /\ keys.file[f] \in {"missing", "directory"}
    BY <1>1, <1>2, <1>9 DEF PhaseOf, Replacing
  <2>2. \A i \in 1..Len(Files) : i # x.next => Left(u, y, k.file, bak, Files[i])
    BY <1>4, <1>7, <2>1 DEF Left, Untouched
  <2>3. Left(u, y, k.file, bak, f)
    BY <1>1, <1>4, <1>7, <2>1 DEF Left, AsBefore
  <2>4. \A i \in 1..Len(Files) : Left(u, y, k.file, bak, Files[i])
    BY <1>2, <2>2, <2>3
  <2>5. CASE x.next < Len(Files)
    <3>1. \A i \in 1..Len(Files) : i > x.next + 1 \/ i = x.next + 1 => i > x.next /\ i # x.next
      BY <1>2, FilesAre
    <3>2. \A i \in 1..Len(Files) : i > x.next + 1 \/ i = x.next + 1
                                     => k.file[Files[i]] = x.before.file[Files[i]]
      BY <1>7, <2>1, <3>1
    <3> QED
      BY <1>4, <1>5, <2>1, <2>4, <2>5, <3>2 DEF PhaseOf, Early, Replacing, Undoing, DirAs
  <2>6. CASE ~(x.next < Len(Files))
    <3>1. y.installed = Place /\ y.at = "clean"
      BY <1>4, <1>8, <2>6 DEF OwnOf
    <3>2. \A i \in 1..Len(Files) : k.file[Files[i]] = u
      BY <1>3, <2>4, <3>1 DEF Left
    <3>3. \A g \in Place : k.file[g] = u
      BY <3>2, FilesAre
    <3> QED
      BY <3>1, <3>3 DEF PhaseOf, Early, Replacing, Undoing
  <2> QED
    BY <2>5, <2>6
<1>10. Fills(u, y, k)
  BY <1>1, <1>2, <1>4, <1>5 DEF Fills, x
<1> QED
  BY <1>1, <1>4, <1>5, <1>6, <1>8, <1>9, <1>10, StepKeeps DEF x, bak, rest

LEMMA ImportFailsKeeps == ASSUME IdentityInv, NEW u \in DOMAIN ip, ImportFails(u) PROVE IdentityInv'
<1> DEFINE x == ip[u]
           y == [x EXCEPT !.at = "undo", !.next = Len(Files), !.failed = TRUE]
           bak == keys.bak[u]
           staged == StagedIn(keys.temp, u)
           rest == StagedIn(keys'.temp, u)
<1>1. /\ x \in ImportState /\ OwnOf(x, bak, staged)
      /\ x.at \in {"mkdir", "copy", "look", "backup", "install"}
      /\ Undisturbed(u) => PhaseOf(u, x, keys.dir, keys.file, bak, staged)
      /\ Works(u) /\ keys \in KeyState(DOMAIN ip)
      /\ keys' = keys \/ keys' = [keys EXCEPT !.temp = @ \cup {<<u, File(u)>>}]
  BY Here DEF ImportFails, Works, Over
<1>2. ip' = [ip EXCEPT ![u] = y]
  BY DEF ImportFails, IdentityInv, IdentityTypeOK
<1>3. File(u) \in Place
  BY <1>1, FilesAre DEF File, ImportState
<1> HIDE DEF x, bak, staged
<1>4. /\ y \in ImportState /\ y.at = "undo" /\ y.failed = TRUE /\ y.hurt = x.hurt
      /\ y.installed = x.installed /\ y.backed = x.backed /\ y.made = x.made /\ y.next = Len(Files)
      /\ y.before = x.before /\ y.overlap = x.overlap
  <2>1. Len(Files) \in 1..Len(Files)
    BY FilesAre
  <2> QED
    BY <1>1, <2>1 DEF ImportState, Stage, Undoing
<1>5. /\ keys' \in KeyState(DOMAIN ip) /\ keys'.dir = keys.dir /\ keys'.file = keys.file
      /\ keys'.bak = keys.bak /\ keys'.last = keys.last
      /\ keys'.temp = keys.temp \/ keys'.temp = keys.temp \cup {<<u, File(u)>>}
  <2>1. CASE keys' = keys
    BY <1>1, <2>1
  <2>2. CASE keys' = [keys EXCEPT !.temp = @ \cup {<<u, File(u)>>}]
    <3>1. keys.temp \cup {<<u, File(u)>>} \in SUBSET ((DOMAIN ip) \X Place)
      BY <1>1, <1>3 DEF KeyState
    <3> QED
      BY <1>1, <2>2, <3>1 DEF KeyState
  <2> QED
    BY <1>1, <2>1, <2>2
<1> HIDE DEF y
<1>6. \A v \in DOMAIN ip \ {u} : StagedIn(keys'.temp, v) = StagedIn(keys.temp, v)
  BY <1>5 DEF StagedIn
<1> HIDE DEF rest
<1>7. OwnOf(y, bak, rest)
  BY <1>4 DEF OwnOf, Early, Replacing, Undoing
<1>8. ASSUME Undisturbed(u) PROVE PhaseOf(u, y, keys.dir, keys.file, bak, rest)
  <2>1. DirAs(x, keys.dir) /\ ~x.hurt
    BY <1>1, <1>8 DEF PhaseOf, OwnOf, Early, Replacing
  <2>2. \A i \in 1..Len(Files) : Left(u, x, keys.file, bak, Files[i])
    <3>1. CASE x.at \in Early
      BY <1>1, <1>8, <3>1, FilesAre DEF PhaseOf, OwnOf, NoBackup, Left, Untouched
    <3>2. CASE x.at \in Replacing
      BY <1>1, <1>8, <3>2 DEF PhaseOf
    <3> QED
      BY <1>1, <3>1, <3>2 DEF Early, Replacing
  <2>3. \A i \in 1..Len(Files) : Left(u, y, keys.file, bak, Files[i])
    BY <1>4, <2>2 DEF Left, Untouched
  <2>4. \A i \in 1..Len(Files) : ~(i > Len(Files))
    BY FilesAre
  <2> QED
    BY <1>4, <2>1, <2>3, <2>4 DEF PhaseOf, Early, Replacing, Undoing, DirAs
<1> QED
  BY <1>1, <1>2, <1>4, <1>5, <1>6, <1>7, <1>8, StepKeeps DEF x, bak, rest

(* A step of the catch block: what it leaves of one file is enough to know. *)
LEMMA UndoStep ==
  ASSUME IdentityInv, NEW u \in DOMAIN ip, ip[u].at \in Undoing,
         NEW y \in ImportState, NEW k \in KeyState(DOMAIN ip),
         ip' = [ip EXCEPT ![u] = y], keys' = k, k.dir = keys.dir, k.last = keys.last,
         \A v \in DOMAIN ip \ {u} : /\ k.bak[v] = keys.bak[v]
                                    /\ StagedIn(k.temp, v) = StagedIn(keys.temp, v),
         \A g \in Place \ {File(u)} : /\ k.file[g] = keys.file[g] /\ k.bak[u][g] = keys.bak[u][g]
                                      /\ <<u, g>> \in k.temp => <<u, g>> \in keys.temp,
         y.overlap = ip[u].overlap, y.failed = ip[u].failed, y.made = ip[u].made,
         y.installed = ip[u].installed, y.backed = ip[u].backed, y.before = ip[u].before,
         ip[u].hurt => y.hurt,
         \/ /\ y.next = ip[u].next
            /\ \/ ip[u].at = "undo" /\ y.at = "restore"
               \/ ip[u].at = "restore" /\ y.at = "sweep"
            /\ <<u, File(u)>> \in k.temp => <<u, File(u)>> \in keys.temp
         \/ /\ ip[u].at = "sweep"
            /\ IF ip[u].next > 1 THEN y.at = "undo" /\ y.next = ip[u].next - 1 ELSE y.at = "rmdir"
            /\ y.hurt \/ <<u, File(u)>> \notin k.temp,
         Undisturbed(u) =>
           IF y.at = "restore"
             THEN \/ Untouched(y, k.file, k.bak[u], File(u))
                  \/ y.hurt /\ Left(u, y, k.file, k.bak[u], File(u))
             ELSE /\ Kept(y, k.file, k.bak[u], File(u))
                  /\ y.hurt \/ AsBefore(y, k.file, k.bak[u], File(u))
  PROVE  IdentityInv'
<1> DEFINE x == ip[u]
           f == File(u)
           bak == keys.bak[u]
           kept == k.bak[u]
           staged == StagedIn(keys.temp, u)
           rest == StagedIn(k.temp, u)
<1>1. /\ x \in ImportState /\ OwnOf(x, bak, staged)
      /\ Undisturbed(u) => PhaseOf(u, x, keys.dir, keys.file, bak, staged)
      /\ Works(u) /\ keys \in KeyState(DOMAIN ip)
  BY Here DEF Works, Over, Undoing
<1>2. f \in Place /\ x.next \in 1..Len(Files) /\ f = Files[x.next]
  BY <1>1, FilesAre DEF File, ImportState
<1>3. \A i \in 1..Len(Files) : Files[i] \in Place /\ (Files[i] = f <=> i = x.next)
  BY <1>2, FilesAre
<1>4. /\ y.overlap = x.overlap /\ y.failed = x.failed /\ y.made = x.made
      /\ y.installed = x.installed /\ y.backed = x.backed /\ y.before = x.before
      /\ x.hurt => y.hurt
      /\ x.at \in Undoing
  OBVIOUS
<1>5. \/ /\ y.next = x.next
         /\ \/ x.at = "undo" /\ y.at = "restore"
            \/ x.at = "restore" /\ y.at = "sweep"
      \/ /\ x.at = "sweep"
         /\ IF x.next > 1 THEN y.at = "undo" /\ y.next = x.next - 1 ELSE y.at = "rmdir"
         /\ y.hurt \/ f \notin rest
  BY DEF StagedIn
<1>6. Undisturbed(u) =>
        IF y.at = "restore"
          THEN Untouched(y, k.file, kept, f) \/ (y.hurt /\ Left(u, y, k.file, kept, f))
          ELSE Kept(y, k.file, kept, f) /\ (y.hurt \/ AsBefore(y, k.file, kept, f))
  OBVIOUS
<1>7. /\ \A i \in 1..Len(Files) : i # x.next =>
           /\ k.file[Files[i]] = keys.file[Files[i]] /\ kept[Files[i]] = bak[Files[i]]
           /\ Files[i] \in rest => Files[i] \in staged
  BY <1>3 DEF StagedIn
<1> HIDE DEF x, f, bak, kept, staged, rest
<1>8. x.failed
  BY <1>1, <1>4 DEF OwnOf
<1>9. OwnOf(y, kept, rest)
  BY <1>4, <1>5, <1>8 DEF OwnOf, Early, Replacing, Undoing
<1>10. ASSUME Undisturbed(u) PROVE PhaseOf(u, y, k.dir, k.file, kept, rest)
  <2>1. /\ DirAs(x, keys.dir)
        /\ \A i \in 1..Len(Files) :
             /\ i < x.next => Left(u, x, keys.file, bak, Files[i])
             /\ i > x.next => /\ Kept(x, keys.file, bak, Files[i])
                              /\ x.hurt \/ (AsBefore(x, keys.file, bak, Files[i]) /\ Files[i] \notin staged)
    BY <1>1, <1>4, <1>10 DEF PhaseOf
  <2>2. DirAs(y, k.dir)
    BY <1>4, <2>1 DEF DirAs
  <2>3. \A i \in 1..Len(Files) :
          /\ i < x.next => Left(u, y, k.file, kept, Files[i])
          /\ i > x.next => /\ Kept(y, k.file, kept, Files[i])
                           /\ y.hurt \/ (AsBefore(y, k.file, kept, Files[i]) /\ Files[i] \notin rest)
    <3>1. ASSUME NEW i \in 1..Len(Files), i < x.next
          PROVE  Left(u, y, k.file, kept, Files[i])
      <4>1. i # x.next
        BY <1>2, <3>1
      <4>2. Left(u, x, keys.file, bak, Files[i])
        BY <2>1, <3>1
      <4> QED
        BY <1>4, <1>7, <4>1, <4>2 DEF Left, Untouched
    <3>2. ASSUME NEW i \in 1..Len(Files), i > x.next
          PROVE  /\ Kept(y, k.file, kept, Files[i])
                 /\ y.hurt \/ (AsBefore(y, k.file, kept, Files[i]) /\ Files[i] \notin rest)
      <4>1. i # x.next
        BY <1>2, <3>2
      <4> QED
        BY <1>4, <1>7, <2>1, <3>2, <4>1 DEF Kept, AsBefore
    <3> QED
      BY <3>1, <3>2
  <2>4. CASE y.next = x.next /\ y.at = "restore"
    BY <1>2, <1>6, <1>10, <2>2, <2>3, <2>4 DEF PhaseOf, Early, Replacing, Undoing
  <2>5. CASE y.next = x.next /\ y.at = "sweep"
    BY <1>2, <1>6, <1>10, <2>2, <2>3, <2>5 DEF PhaseOf, Early, Replacing, Undoing
  <2>6. CASE x.at = "sweep" /\ x.next > 1 /\ y.at = "undo" /\ y.next = x.next - 1
    <3>1. y.hurt \/ f \notin rest
      BY <1>5, <2>6
    <3>2. \A i \in 1..Len(Files) : (i < x.next <=> i < x.next - 1 \/ i = x.next - 1)
                                   /\ (i > x.next - 1 <=> i > x.next \/ i = x.next)
      BY <1>2
    <3>3. \A i \in 1..Len(Files) : i > x.next - 1 => /\ Kept(y, k.file, kept, Files[i])
                                                     /\ y.hurt \/ AsBefore(y, k.file, kept, Files[i])
                                                     /\ y.hurt \/ Files[i] \notin rest
      BY <1>2, <1>6, <1>10, <2>3, <2>6, <3>1, <3>2
    <3>4. \A i \in 1..Len(Files) : i < x.next - 1 \/ i = x.next - 1 => Left(u, y, k.file, kept, Files[i])
      BY <2>3, <3>2
    <3> QED
      BY <2>2, <2>6, <3>3, <3>4 DEF PhaseOf, Early, Replacing, Undoing
  <2>7. CASE x.at = "sweep" /\ ~(x.next > 1) /\ y.at = "rmdir"
    <3>1. y.hurt \/ f \notin rest
      BY <1>5, <2>7
    <3>2. \A i \in 1..Len(Files) : i > x.next \/ i = x.next
      BY <1>2, <2>7
    <3>3. \A i \in 1..Len(Files) : /\ Kept(y, k.file, kept, Files[i])
                                   /\ y.hurt \/ (AsBefore(y, k.file, kept, Files[i]) /\ Files[i] \notin rest)
      BY <1>2, <1>6, <1>10, <2>3, <2>7, <3>1, <3>2
    <3>4. \A g \in Place : Kept(y, k.file, kept, g)
                           /\ (y.hurt \/ (AsBefore(y, k.file, kept, g) /\ g \notin rest))
      BY <3>3, FilesAre
    <3> QED
      BY <2>2, <2>7, <3>4 DEF PhaseOf, Early, Replacing, Undoing
  <2> QED
    BY <1>5, <2>4, <2>5, <2>6, <2>7
<1> QED
  BY <1>1, <1>4, <1>8, <1>9, <1>10, StepKeeps DEF x, kept, rest

(* What the catch block finds of the file it is at *)
LEMMA UndoHere ==
  ASSUME IdentityInv, NEW u \in DOMAIN ip, ip[u].at \in Undoing
  PROVE  /\ ip[u] \in ImportState /\ keys \in KeyState(DOMAIN ip) /\ File(u) \in Place
         /\ ip[u].failed /\ u \in Importer
         /\ Undisturbed(u) =>
              CASE ip[u].at = "undo" -> Left(u, ip[u], keys.file, keys.bak[u], File(u))
                [] ip[u].at = "restore" ->
                     \/ Untouched(ip[u], keys.file, keys.bak[u], File(u))
                     \/ ip[u].hurt /\ Left(u, ip[u], keys.file, keys.bak[u], File(u))
                [] ip[u].at = "sweep" ->
                     /\ Kept(ip[u], keys.file, keys.bak[u], File(u))
                     /\ ip[u].hurt \/ AsBefore(ip[u], keys.file, keys.bak[u], File(u))
<1> DEFINE x == ip[u]
           bak == keys.bak[u]
           staged == StagedIn(keys.temp, u)
<1>1. /\ x \in ImportState /\ OwnOf(x, bak, staged)
      /\ Undisturbed(u) => PhaseOf(u, x, keys.dir, keys.file, bak, staged)
      /\ keys \in KeyState(DOMAIN ip) /\ u \in Importer /\ x.at \in Undoing
  BY Here DEF IdentityInv, IdentityTypeOK
<1>2. x.next \in 1..Len(Files) /\ File(u) = Files[x.next] /\ File(u) \in Place
  BY <1>1, FilesAre DEF File, ImportState
<1>3. x.failed
  BY <1>1 DEF OwnOf
<1> HIDE DEF x, bak, staged
<1>4. ASSUME Undisturbed(u)
      PROVE  /\ x.at = "undo" => Left(u, x, keys.file, bak, File(u))
             /\ x.at = "restore" => \/ Untouched(x, keys.file, bak, File(u))
                                    \/ x.hurt /\ Left(u, x, keys.file, bak, File(u))
             /\ x.at = "sweep" => /\ Kept(x, keys.file, bak, File(u))
                                  /\ x.hurt \/ AsBefore(x, keys.file, bak, File(u))
  BY <1>1, <1>2, <1>4 DEF PhaseOf
<1> QED
  BY <1>1, <1>2, <1>3, <1>4 DEF x, bak, Undoing

LEMMA UntouchedIsKept ==
  ASSUME NEW u, NEW x, NEW file, NEW bak, NEW f,
         Untouched(x, file, bak, f) \/ Left(u, x, file, bak, f)
  PROVE  Kept(x, file, bak, f)
  BY IdentityAssumption DEF Left, Untouched, Kept, IsFile

LEMMA RemoveInstalledKeeps ==
  ASSUME IdentityInv, NEW u \in DOMAIN ip, RemoveInstalled(u) PROVE IdentityInv'
<1> DEFINE x == ip[u]
           f == File(u)
           y == [x EXCEPT !.at = "restore"]
           z == [y EXCEPT !.hurt = TRUE]
           k == [keys EXCEPT !.file[f] = "missing"]
           bak == keys.bak[u]
<1>1. x.at = "undo" /\ x.at \in Undoing
  BY DEF RemoveInstalled, IsAt, Undoing
<1>2. /\ x \in ImportState /\ keys \in KeyState(DOMAIN ip) /\ f \in Place
      /\ Undisturbed(u) => Left(u, x, keys.file, bak, f)
  BY <1>1, UndoHere
<1>3. \/ f \notin x.installed /\ keys' = keys /\ ip' = [ip EXCEPT ![u] = y]
      \/ f \in x.installed /\ keys' = k /\ ip' = [ip EXCEPT ![u] = y]
      \/ keys' = keys /\ ip' = [ip EXCEPT ![u] = z]
  BY DEF RemoveInstalled, Swallowed, Local, Changes
<1> HIDE DEF x, f, bak
<1>4. /\ y \in ImportState /\ y.at = "restore" /\ y.failed = x.failed /\ y.hurt = x.hurt
      /\ y.installed = x.installed /\ y.backed = x.backed /\ y.made = x.made /\ y.next = x.next
      /\ y.before = x.before /\ y.overlap = x.overlap
  BY <1>2 DEF ImportState, Stage, Undoing
<1>5. /\ z \in ImportState /\ z.at = "restore" /\ z.failed = x.failed /\ z.hurt = TRUE
      /\ z.installed = x.installed /\ z.backed = x.backed /\ z.made = x.made /\ z.next = x.next
      /\ z.before = x.before /\ z.overlap = x.overlap
  BY <1>2 DEF ImportState, Stage, Undoing
<1>6. /\ k \in KeyState(DOMAIN ip) /\ k.dir = keys.dir /\ k.temp = keys.temp /\ k.last = keys.last
      /\ k.bak = keys.bak
      /\ \A g \in Place : k.file[g] = IF g = f THEN "missing" ELSE keys.file[g]
  <2>1. "missing" \in Entry
    BY DEF Entry
  <2>2. k.file = [keys.file EXCEPT ![f] = "missing"] /\ k = [keys EXCEPT !.file = k.file]
        /\ k.dir = keys.dir /\ k.temp = keys.temp /\ k.last = keys.last /\ k.bak = keys.bak
    BY <1>2 DEF KeyState
  <2> HIDE DEF k
  <2>3. k.file \in [Place -> Entry]
    BY <1>2, <2>1, <2>2 DEF KeyState
  <2>4. k \in KeyState(DOMAIN ip)
    BY <1>2, <2>2, <2>3 DEF KeyState
  <2> QED
    BY <1>2, <2>1, <2>2, <2>4, PlaceSet
<1> HIDE DEF y, z, k
<1>7. CASE f \notin x.installed /\ keys' = keys /\ ip' = [ip EXCEPT ![u] = y]
  <2>1. Undisturbed(u) => Untouched(y, keys.file, bak, f)
    BY <1>2, <1>4, <1>7 DEF Left, Untouched
  <2> QED
    BY <1>1, <1>2, <1>4, <1>7, <2>1, UndoStep DEF x, f, bak
<1>8. CASE f \in x.installed /\ keys' = k /\ ip' = [ip EXCEPT ![u] = y]
  <2>1. Undisturbed(u) => Untouched(y, k.file, bak, f)
    BY <1>2, <1>4, <1>6, <1>8 DEF Left, Untouched
  <2> QED
    BY <1>1, <1>2, <1>4, <1>6, <1>8, <2>1, UndoStep DEF x, f, bak
<1>9. CASE keys' = keys /\ ip' = [ip EXCEPT ![u] = z]
  <2>1. Undisturbed(u) => Left(u, z, keys.file, bak, f)
    BY <1>2, <1>5 DEF Left, Untouched
  <2> QED
    BY <1>1, <1>2, <1>5, <1>9, <2>1, UndoStep DEF x, f, bak
<1> QED
  BY <1>3, <1>7, <1>8, <1>9

LEMMA RestoreKeeps ==
  ASSUME IdentityInv, NEW u \in DOMAIN ip, Restore(u) PROVE IdentityInv'
<1> DEFINE x == ip[u]
           f == File(u)
           y == [x EXCEPT !.at = "sweep"]
           z == [y EXCEPT !.hurt = TRUE]
           bak == keys.bak[u]
           saved == bak[f]
           k == [keys EXCEPT !.file[f] = saved, !.bak[u][f] = "missing"]
<1>1. x.at = "restore" /\ x.at \in Undoing
  BY DEF Restore, IsAt, Undoing
<1>2. /\ x \in ImportState /\ keys \in KeyState(DOMAIN ip) /\ f \in Place
      /\ Undisturbed(u) => \/ Untouched(x, keys.file, bak, f)
                           \/ x.hurt /\ Left(u, x, keys.file, bak, f)
  BY <1>1, UndoHere
<1>3. \/ /\ f \notin x.backed \/ saved = "missing"
         /\ keys' = keys /\ ip' = [ip EXCEPT ![u] = y]
      \/ /\ f \in x.backed /\ saved # "missing"
         /\ keys' = k /\ ip' = [ip EXCEPT ![u] = y]
      \/ keys' = keys /\ ip' = [ip EXCEPT ![u] = z]
  BY DEF Restore, Swallowed, Local, Changes
<1>4. saved \in Entry /\ "missing" \in Entry
  BY <1>2 DEF KeyState, Entry
<1> HIDE DEF x, f, bak, saved
<1>5. /\ y \in ImportState /\ y.at = "sweep" /\ y.failed = x.failed /\ y.hurt = x.hurt
      /\ y.installed = x.installed /\ y.backed = x.backed /\ y.made = x.made /\ y.next = x.next
      /\ y.before = x.before /\ y.overlap = x.overlap
  BY <1>2 DEF ImportState, Stage, Undoing
<1>6. /\ z \in ImportState /\ z.at = "sweep" /\ z.failed = x.failed /\ z.hurt = TRUE
      /\ z.installed = x.installed /\ z.backed = x.backed /\ z.made = x.made /\ z.next = x.next
      /\ z.before = x.before /\ z.overlap = x.overlap
  BY <1>2 DEF ImportState, Stage, Undoing
<1>7. /\ k \in KeyState(DOMAIN ip) /\ k.dir = keys.dir /\ k.temp = keys.temp /\ k.last = keys.last
      /\ \A v \in (DOMAIN ip) \ {u} : k.bak[v] = keys.bak[v]
      /\ \A g \in Place : k.bak[u][g] = IF g = f THEN "missing" ELSE keys.bak[u][g]
      /\ \A g \in Place : k.file[g] = IF g = f THEN saved ELSE keys.file[g]
  <2>1. /\ k.bak = [keys.bak EXCEPT ![u][f] = "missing"] /\ k.file = [keys.file EXCEPT ![f] = saved]
        /\ k.dir = keys.dir /\ k.temp = keys.temp /\ k.last = keys.last
        /\ k = [keys EXCEPT !.bak = k.bak, !.file = k.file]
    BY <1>2 DEF KeyState
  <2> HIDE DEF k
  <2>2. k.bak \in [DOMAIN ip -> [Place -> Entry]] /\ k.file \in [Place -> Entry]
    BY <1>2, <1>4, <2>1, BackupSet, PlaceSet
  <2>3. k \in KeyState(DOMAIN ip)
    BY <1>2, <2>1, <2>2 DEF KeyState
  <2> QED
    BY <1>2, <1>4, <2>1, <2>3, BackupSet, PlaceSet
<1> HIDE DEF y, z, k
<1>8. CASE /\ f \notin x.backed \/ saved = "missing"
           /\ keys' = keys /\ ip' = [ip EXCEPT ![u] = y]
  <2>1. Undisturbed(u) => Kept(y, keys.file, bak, f) /\ (y.hurt \/ AsBefore(y, keys.file, bak, f))
    BY <1>2, <1>5, <1>8, IdentityAssumption DEF Left, Untouched, Kept, AsBefore, IsFile, saved
  <2> QED
    BY <1>1, <1>2, <1>5, <1>8, <2>1, UndoStep DEF x, f, bak
<1>9. CASE /\ f \in x.backed /\ saved # "missing"
           /\ keys' = k /\ ip' = [ip EXCEPT ![u] = y]
  <2>1. Undisturbed(u) => bak[f] = x.before.file[f]
    BY <1>2, <1>9 DEF Left, Untouched, saved
  <2>2. Undisturbed(u) => Kept(y, k.file, k.bak[u], f) /\ (y.hurt \/ AsBefore(y, k.file, k.bak[u], f))
    BY <1>2, <1>5, <1>7, <2>1 DEF Kept, AsBefore, saved
  <2> QED
    BY <1>1, <1>2, <1>5, <1>7, <1>9, <2>2, UndoStep DEF x, f
<1>10. CASE keys' = keys /\ ip' = [ip EXCEPT ![u] = z]
  <2>1. Undisturbed(u) => Kept(x, keys.file, bak, f)
    BY <1>2, UntouchedIsKept
  <2>2. Undisturbed(u) => Kept(z, keys.file, bak, f)
    BY <1>6, <2>1 DEF Kept
  <2> QED
    BY <1>1, <1>2, <1>6, <1>10, <2>2, UndoStep DEF x, f, bak
<1> QED
  BY <1>3, <1>8, <1>9, <1>10

LEMMA SweepKeeps ==
  ASSUME IdentityInv, NEW u \in DOMAIN ip, Sweep(u) PROVE IdentityInv'
<1> DEFINE x == ip[u]
           f == File(u)
           y == IF x.next > 1 THEN [x EXCEPT !.at = "undo", !.next = @ - 1]
                              ELSE [x EXCEPT !.at = "rmdir"]
           z == [y EXCEPT !.hurt = TRUE]
           bak == keys.bak[u]
           k == [keys EXCEPT !.temp = @ \ {<<u, f>>}]
<1>1. x.at = "sweep" /\ x.at \in Undoing
  BY DEF Sweep, IsAt, Undoing
<1>2. /\ x \in ImportState /\ keys \in KeyState(DOMAIN ip) /\ f \in Place
      /\ Undisturbed(u) => /\ Kept(x, keys.file, bak, f)
                           /\ x.hurt \/ AsBefore(x, keys.file, bak, f)
  BY <1>1, UndoHere
<1>3. \/ keys' = k /\ ip' = [ip EXCEPT ![u] = y]
      \/ keys' = keys /\ ip' = [ip EXCEPT ![u] = z]
  BY DEF Sweep, Swallowed, Local, Changes
<1> HIDE DEF x, f, bak
<1>4. /\ y \in ImportState /\ y.failed = x.failed /\ y.hurt = x.hurt
      /\ y.installed = x.installed /\ y.backed = x.backed /\ y.made = x.made
      /\ y.before = x.before /\ y.overlap = x.overlap
      /\ IF x.next > 1 THEN y.at = "undo" /\ y.next = x.next - 1 ELSE y.at = "rmdir"
  <2>1. CASE x.next > 1
    <3>1. x.next - 1 \in 1..Len(Files)
      BY <1>2, <2>1, FilesAre DEF ImportState
    <3> QED
      BY <1>2, <2>1, <3>1 DEF ImportState, Stage, Undoing
  <2>2. CASE ~(x.next > 1)
    BY <1>2, <2>2 DEF ImportState, Stage
  <2> QED
    BY <2>1, <2>2
<1> HIDE DEF y
<1>5. /\ z \in ImportState /\ z.failed = x.failed /\ z.hurt = TRUE
      /\ z.installed = x.installed /\ z.backed = x.backed /\ z.made = x.made
      /\ z.before = x.before /\ z.overlap = x.overlap
      /\ IF x.next > 1 THEN z.at = "undo" /\ z.next = x.next - 1 ELSE z.at = "rmdir"
  BY <1>4 DEF ImportState
<1>6. /\ k \in KeyState(DOMAIN ip) /\ k.dir = keys.dir /\ k.last = keys.last
      /\ k.bak = keys.bak /\ k.file = keys.file /\ k.temp = keys.temp \ {<<u, f>>}
  BY <1>2 DEF KeyState
<1> HIDE DEF z, k
<1>7. CASE keys' = k /\ ip' = [ip EXCEPT ![u] = y]
  <2>1. Undisturbed(u) => Kept(y, k.file, bak, f) /\ (y.hurt \/ AsBefore(y, k.file, bak, f))
    BY <1>2, <1>4, <1>6 DEF Kept, AsBefore
  <2>2. \A v \in DOMAIN ip \ {u} : StagedIn(k.temp, v) = StagedIn(keys.temp, v)
    BY <1>6 DEF StagedIn
  <2>3. <<u, f>> \notin k.temp /\ \A g \in Place : <<u, g>> \in k.temp => <<u, g>> \in keys.temp
    BY <1>6
  <2>4. y.at # "restore"
    BY <1>4
  <2> QED
    BY <1>1, <1>2, <1>4, <1>6, <1>7, <2>1, <2>2, <2>3, <2>4, UndoStep DEF x, f, bak
<1>8. CASE keys' = keys /\ ip' = [ip EXCEPT ![u] = z]
  <2>1. Undisturbed(u) => Kept(z, keys.file, bak, f)
    BY <1>2, <1>5 DEF Kept
  <2>2. z.at # "restore"
    BY <1>5
  <2> QED
    BY <1>1, <1>2, <1>5, <1>8, <2>1, <2>2, UndoStep DEF x, f, bak
<1> QED
  BY <1>3, <1>7, <1>8

LEMMA RemoveDirKeeps ==
  ASSUME IdentityInv, NEW u \in DOMAIN ip, RemoveDir(u) PROVE IdentityInv'
<1> DEFINE x == ip[u]
           y == [x EXCEPT !.at = "leave"]
           z == [y EXCEPT !.hurt = TRUE]
           k == [keys EXCEPT !.dir = "missing"]
           bak == keys.bak[u]
           staged == StagedIn(keys.temp, u)
<1>1. /\ x \in ImportState /\ OwnOf(x, bak, staged) /\ x.at = "rmdir"
      /\ Undisturbed(u) => PhaseOf(u, x, keys.dir, keys.file, bak, staged)
      /\ Works(u) /\ keys \in KeyState(DOMAIN ip)
  BY Here DEF RemoveDir, IsAt, Works, Over
<1>2. \/ ~x.made /\ keys' = keys /\ ip' = [ip EXCEPT ![u] = y]
      \/ x.made /\ keys' = k /\ ip' = [ip EXCEPT ![u] = y]
      \/ keys' = keys /\ ip' = [ip EXCEPT ![u] = z]
  BY DEF RemoveDir, Swallowed, Local, Changes
<1>3. staged \subseteq Place
  BY DEF StagedIn
<1> HIDE DEF x, bak, staged
<1>4. /\ y \in ImportState /\ y.at = "leave" /\ y.failed = x.failed /\ y.hurt = x.hurt
      /\ y.installed = x.installed /\ y.before = x.before /\ y.overlap = x.overlap
  BY <1>1 DEF ImportState, Stage
<1>5. /\ z \in ImportState /\ z.at = "leave" /\ z.failed = x.failed /\ z.hurt = TRUE
      /\ z.installed = x.installed /\ z.before = x.before /\ z.overlap = x.overlap
  BY <1>1 DEF ImportState, Stage
<1>6. /\ k \in KeyState(DOMAIN ip) /\ k.dir = "missing" /\ k.file = keys.file
      /\ k.temp = keys.temp /\ k.bak = keys.bak /\ k.last = keys.last
  BY <1>1 DEF KeyState, DirKind
<1> HIDE DEF y, z, k
<1>7. x.failed
  BY <1>1 DEF OwnOf
<1>8. OwnOf(y, bak, staged) /\ OwnOf(z, bak, staged)
  BY <1>4, <1>5, <1>7 DEF OwnOf, Early, Replacing, Undoing
<1>9. Undisturbed(u) => /\ DirAs(x, keys.dir)
                        /\ \A f \in Place : /\ Kept(x, keys.file, bak, f)
                                            /\ x.hurt \/ (AsBefore(x, keys.file, bak, f) /\ f \notin staged)
  BY <1>1 DEF PhaseOf
<1>10. ASSUME Undisturbed(u), NEW dir, dir = x.before.dir
       PROVE  PhaseOf(u, y, dir, keys.file, bak, staged)
  <2>1. ~y.hurt => staged = {} /\ \A f \in Place : AsBefore(y, keys.file, bak, f)
    BY <1>3, <1>4, <1>9, <1>10 DEF AsBefore
  <2>2. \A f \in Place : Kept(y, keys.file, bak, f)
    BY <1>4, <1>9, <1>10 DEF Kept
  <2> QED
    BY <1>4, <1>7, <1>10, <2>1, <2>2 DEF PhaseOf, Early, Replacing, Undoing
<1>11. Undisturbed(u) => PhaseOf(u, z, keys.dir, keys.file, bak, staged)
  <2>1. Undisturbed(u) => \A f \in Place : Kept(z, keys.file, bak, f)
    BY <1>5, <1>9 DEF Kept
  <2> QED
    BY <1>5, <2>1 DEF PhaseOf, Early, Replacing, Undoing
<1>12. CASE ~x.made /\ keys' = keys /\ ip' = [ip EXCEPT ![u] = y]
  <2>1. Undisturbed(u) => PhaseOf(u, y, keys.dir, keys.file, bak, staged)
    BY <1>9, <1>10, <1>12 DEF DirAs
  <2> QED
    BY <1>1, <1>4, <1>7, <1>8, <1>12, <2>1, StepKeeps DEF x, bak, staged
<1>13. CASE x.made /\ keys' = k /\ ip' = [ip EXCEPT ![u] = y]
  <2>1. Undisturbed(u) => PhaseOf(u, y, k.dir, keys.file, bak, staged)
    BY <1>6, <1>9, <1>10, <1>13 DEF DirAs
  <2> QED
    BY <1>1, <1>4, <1>6, <1>7, <1>8, <1>13, <2>1, StepKeeps DEF x, bak, staged
<1>14. CASE keys' = keys /\ ip' = [ip EXCEPT ![u] = z]
  BY <1>1, <1>5, <1>7, <1>8, <1>11, <1>14, StepKeeps DEF x, bak, staged
<1> QED
  BY <1>2, <1>12, <1>13, <1>14

LEMMA DropBackupKeeps ==
  ASSUME IdentityInv, NEW u \in DOMAIN ip, DropBackup(u) PROVE IdentityInv'
<1> DEFINE x == ip[u]
           f == File(u)
           y == Onward(x, "clean", "leave")
           k == [keys EXCEPT !.bak[u][f] = "missing"]
           bak == keys.bak[u]
           kept == k.bak[u]
           staged == StagedIn(keys.temp, u)
<1>1. /\ x \in ImportState /\ OwnOf(x, bak, staged) /\ x.at = "clean"
      /\ Undisturbed(u) => PhaseOf(u, x, keys.dir, keys.file, bak, staged)
      /\ Works(u) /\ keys \in KeyState(DOMAIN ip)
      /\ ip' = [ip EXCEPT ![u] = y] /\ keys' = k
  BY Here DEF DropBackup, Changes, IsAt, Works, Over
<1>2. f \in Place /\ x.next \in 1..Len(Files) /\ f = Files[x.next]
  BY <1>1, FilesAre DEF File, ImportState
<1>3. \A i \in 1..Len(Files) : Files[i] \in Place /\ (Files[i] = f <=> i = x.next)
  BY <1>2, FilesAre
<1> HIDE DEF x, bak, staged, f
<1>4. /\ y \in ImportState /\ y.failed = x.failed /\ y.hurt = x.hurt
      /\ y.installed = x.installed /\ y.before = x.before /\ y.overlap = x.overlap
      /\ IF x.next < Len(Files) THEN y.at = "clean" /\ y.next = x.next + 1 ELSE y.at = "leave"
  <2>1. "clean" \in Stage /\ "leave" \in Stage
    BY DEF Stage
  <2> QED
    BY <1>1, <2>1, OnwardIs
<1>5. /\ k \in KeyState(DOMAIN ip) /\ k.dir = keys.dir /\ k.temp = keys.temp /\ k.last = keys.last
      /\ k.file = keys.file
      /\ \A v \in (DOMAIN ip) \ {u} : k.bak[v] = keys.bak[v]
      /\ \A g \in Place : k.bak[u][g] = IF g = f THEN "missing" ELSE keys.bak[u][g]
  <2>1. /\ k.bak = [keys.bak EXCEPT ![u][f] = "missing"] /\ k.file = keys.file
        /\ k.dir = keys.dir /\ k.temp = keys.temp /\ k.last = keys.last
        /\ k = [keys EXCEPT !.bak = k.bak]
    BY <1>1 DEF KeyState
  <2>2. "missing" \in Entry
    BY DEF Entry
  <2> HIDE DEF k
  <2>3. k.bak \in [DOMAIN ip -> [Place -> Entry]]
    BY <1>1, <1>2, <2>1, <2>2, BackupSet
  <2>4. k \in KeyState(DOMAIN ip)
    BY <1>1, <2>1, <2>3 DEF KeyState
  <2> QED
    BY <1>1, <1>2, <2>1, <2>2, <2>4, BackupSet
<1> HIDE DEF y, k, kept
<1>6. \A i \in 1..Len(Files) : kept[Files[i]] = IF i = x.next THEN "missing" ELSE bak[Files[i]]
  BY <1>3, <1>5 DEF bak, kept
<1>7. /\ ~x.failed /\ x.installed = Place /\ staged = {}
      /\ \A i \in 1..Len(Files) : i < x.next => bak[Files[i]] = "missing"
  BY <1>1 DEF OwnOf
<1>8. \A i \in 1..Len(Files) : i < x.next \/ i = x.next => kept[Files[i]] = "missing"
  BY <1>6, <1>7
<1>9. OwnOf(y, kept, staged)
  <2>1. CASE x.next < Len(Files)
    <3>1. \A i \in 1..Len(Files) : i < x.next + 1 => i < x.next \/ i = x.next
      BY <1>2
    <3> QED
      BY <1>4, <1>7, <1>8, <2>1, <3>1 DEF OwnOf, Early, Replacing, Undoing
  <2>2. CASE ~(x.next < Len(Files))
    <3>1. \A i \in 1..Len(Files) : i < x.next \/ i = x.next
      BY <1>2, <2>2, FilesAre
    <3>2. NoBackup(kept)
      BY <1>8, <3>1, FilesAre DEF NoBackup
    <3> QED
      BY <1>4, <1>7, <2>2, <3>2 DEF OwnOf, Early, Replacing, Undoing
  <2> QED
    BY <2>1, <2>2
<1>10. Undisturbed(u) => PhaseOf(u, y, k.dir, k.file, kept, staged)
  <2>1. Undisturbed(u) => \A g \in Place : keys.file[g] = u
    BY <1>1 DEF PhaseOf
  <2>2. y.at \in {"clean", "leave"}
    BY <1>4
  <2> QED
    BY <1>4, <1>5, <1>7, <2>1, <2>2 DEF PhaseOf, Early, Replacing, Undoing
<1>11. Fills(u, y, k)
  BY <1>1, <1>4, <1>5 DEF Fills, x
<1> QED
  BY <1>1, <1>4, <1>5, <1>9, <1>10, <1>11, StepKeeps DEF x, kept, staged

LEMMA BackupStaysKeeps ==
  ASSUME IdentityInv, NEW u \in DOMAIN ip, BackupStays(u) PROVE IdentityInv'
<1> DEFINE x == ip[u]
           y == [x EXCEPT !.at = "leave", !.failed = TRUE]
           bak == keys.bak[u]
           staged == StagedIn(keys.temp, u)
<1>1. /\ x \in ImportState /\ OwnOf(x, bak, staged) /\ x.at = "clean"
      /\ Undisturbed(u) => PhaseOf(u, x, keys.dir, keys.file, bak, staged)
      /\ Local(u, y) /\ Works(u)
  BY Here DEF BackupStays, IsAt, Works, Over
<1> HIDE DEF x, bak, staged
<1>2. /\ y \in ImportState /\ y.at = "leave" /\ y.failed = TRUE /\ y.hurt = x.hurt
      /\ y.installed = x.installed /\ y.before = x.before /\ y.overlap = x.overlap
  BY <1>1 DEF ImportState, Stage
<1> HIDE DEF y
<1>3. OwnOf(y, bak, staged)
  BY <1>2 DEF OwnOf, Early, Replacing, Undoing
<1>4. Undisturbed(u) => PhaseOf(u, y, keys.dir, keys.file, bak, staged)
  BY <1>1, <1>2 DEF PhaseOf, OwnOf, Early, Replacing, Undoing
<1> QED
  BY <1>1, <1>2, <1>3, <1>4, LocalKeeps DEF x, bak, staged

LEMMA ImportEndsKeeps ==
  ASSUME IdentityInv, NEW u \in DOMAIN ip, ImportEnds(u) PROVE IdentityInv'
<1> DEFINE x == ip[u]
           y == [x EXCEPT !.at = "ended"]
           bak == keys.bak[u]
           staged == StagedIn(keys.temp, u)
<1>1. /\ x \in ImportState /\ OwnOf(x, bak, staged) /\ x.at = "leave"
      /\ Undisturbed(u) => PhaseOf(u, x, keys.dir, keys.file, bak, staged)
      /\ Local(u, y) /\ Works(u)
  BY Here DEF ImportEnds, IsAt, Works, Over
<1> HIDE DEF x, bak, staged
<1>2. /\ y \in ImportState /\ y.at = "ended" /\ y.failed = x.failed /\ y.hurt = x.hurt
      /\ y.installed = x.installed /\ y.before = x.before /\ y.overlap = x.overlap
  BY <1>1 DEF ImportState, Stage
<1> HIDE DEF y
<1>3. OwnOf(y, bak, staged)
  BY <1>1, <1>2 DEF OwnOf, Early, Replacing, Undoing
<1>4. Undisturbed(u) => PhaseOf(u, y, keys.dir, keys.file, bak, staged)
  BY <1>1, <1>2 DEF PhaseOf, Early, Replacing, Undoing, Kept
<1> QED
  BY <1>1, <1>2, <1>3, <1>4, LocalKeeps DEF x, bak, staged

LEMMA KilledKeeps == ASSUME IdentityInv, NEW u \in DOMAIN ip, Killed(u) PROVE IdentityInv'
<1> DEFINE x == ip[u]
           y == [x EXCEPT !.at = "killed"]
           bak == keys.bak[u]
           staged == StagedIn(keys.temp, u)
<1>1. x \in ImportState /\ Local(u, y) /\ Works(u)
  BY Here DEF Killed
<1>2. Undisturbed(u) /\ x.installed # Place => \A f \in Place : Kept(x, keys.file, bak, f)
  BY KeysAreKept
<1> HIDE DEF x, bak, staged
<1>3. /\ y \in ImportState /\ y.at = "killed" /\ y.failed = x.failed
      /\ y.installed = x.installed /\ y.before = x.before /\ y.overlap = x.overlap
  BY <1>1 DEF ImportState, Stage
<1> HIDE DEF y
<1>4. OwnOf(y, bak, staged)
  BY <1>3 DEF OwnOf, Early, Replacing, Undoing
<1>5. Undisturbed(u) => PhaseOf(u, y, keys.dir, keys.file, bak, staged)
  BY <1>2, <1>3 DEF PhaseOf, Early, Replacing, Undoing, Kept
<1> QED
  BY <1>1, <1>3, <1>4, <1>5, LocalKeeps DEF x, bak, staged

LEMMA ImportBeginsKeeps ==
  ASSUME IdentityInv, NEW u \in DOMAIN ip, ImportBegins(u) PROVE IdentityInv'
<1> DEFINE others == {v \in DOMAIN ip : Works(v)}
           y == [Import(Now) EXCEPT !.overlap = others # {}]
           z(v) == [ip[v] EXCEPT !.overlap = @ \/ v \in others]
<1>1. /\ ip[u].at = "idle" /\ keys' = [keys EXCEPT !.last = u]
      /\ ip' = [v \in DOMAIN ip |-> IF v = u THEN y ELSE z(v)]
  BY DEF ImportBegins, IsAt
<1>2. /\ keys \in KeyState(DOMAIN ip) /\ ip \in [DOMAIN ip -> ImportState] /\ DOMAIN ip \subseteq Importer
      /\ OwnOf(ip[u], keys.bak[u], StagedIn(keys.temp, u))
  BY DEF IdentityInv, IdentityTypeOK, Owns
<1>3. /\ y \in ImportState /\ y.at = "extract" /\ y.next = 1 /\ ~y.failed /\ ~y.hurt /\ ~y.made
      /\ y.installed = {} /\ y.backed = {} /\ y.before = Now /\ (y.overlap <=> others # {})
  <2>1. Now \in [dir : DirKind, file : [Place -> Entry]]
    BY <1>2 DEF Now, KeyState
  <2>2. 1 \in 1..Len(Files)
    BY FilesAre
  <2> QED
    BY <2>1, <2>2 DEF Import, ImportState, Stage, Early
<1>4. \A v \in DOMAIN ip :
        /\ z(v) \in ImportState /\ z(v).at = ip[v].at /\ z(v).next = ip[v].next
        /\ z(v).failed = ip[v].failed /\ z(v).hurt = ip[v].hurt /\ z(v).made = ip[v].made
        /\ z(v).installed = ip[v].installed /\ z(v).backed = ip[v].backed
        /\ z(v).before = ip[v].before /\ (z(v).overlap <=> ip[v].overlap \/ v \in others)
  <2> SUFFICES ASSUME NEW v \in DOMAIN ip
               PROVE  /\ z(v) \in ImportState /\ z(v).at = ip[v].at /\ z(v).next = ip[v].next
                      /\ z(v).failed = ip[v].failed /\ z(v).hurt = ip[v].hurt /\ z(v).made = ip[v].made
                      /\ z(v).installed = ip[v].installed /\ z(v).backed = ip[v].backed
                      /\ z(v).before = ip[v].before /\ (z(v).overlap <=> ip[v].overlap \/ v \in others)
    OBVIOUS
  <2> DEFINE r == ip[v]
             new == r.overlap \/ v \in others
  <2>1. r \in ImportState
    BY <1>2
  <2>2. new \in BOOLEAN
    BY <2>1 DEF ImportState
  <2>3. z(v) = [r EXCEPT !.overlap = new]
    OBVIOUS
  <2> HIDE DEF r, new, z
  <2>4. /\ z(v) \in ImportState /\ z(v).at = r.at /\ z(v).next = r.next
        /\ z(v).failed = r.failed /\ z(v).hurt = r.hurt /\ z(v).made = r.made
        /\ z(v).installed = r.installed /\ z(v).backed = r.backed
        /\ z(v).before = r.before /\ z(v).overlap = new
    BY <2>1, <2>2, <2>3 DEF ImportState
  <2> QED
    BY <2>4 DEF r, new
<1>5. /\ keys' \in KeyState(DOMAIN ip) /\ keys'.last = u /\ keys'.dir = keys.dir
      /\ keys'.file = keys.file /\ keys'.bak = keys.bak /\ keys'.temp = keys.temp
  BY <1>1, <1>2 DEF KeyState
<1>6. /\ DOMAIN ip' = DOMAIN ip /\ ip'[u] = y
      /\ \A v \in DOMAIN ip : v # u => ip'[v] = z(v)
  BY <1>1
<1>7. \A v \in DOMAIN ip : v \in others <=> Works(v)
  OBVIOUS
<1> HIDE DEF y, z, others
<1>8. IdentityTypeOK'
  BY <1>2, <1>3, <1>4, <1>5, <1>6, <1>1 DEF IdentityTypeOK
<1>9. NoBackup(keys.bak[u]) /\ StagedIn(keys.temp, u) = {} /\ ip[u].installed = {} /\ ~ip[u].failed
  BY <1>1, <1>2 DEF OwnOf
<1>10. Owns'
  <2>1. OwnOf(y, keys.bak[u], StagedIn(keys.temp, u))
    BY <1>3, <1>9 DEF OwnOf, Early, Replacing, Undoing
  <2>2. ASSUME NEW v \in DOMAIN ip PROVE OwnOf(z(v), keys.bak[v], StagedIn(keys.temp, v))
    <3>1. OwnOf(ip[v], keys.bak[v], StagedIn(keys.temp, v))
      BY DEF IdentityInv, Owns
    <3> QED
      BY <1>4, <3>1 DEF OwnOf
  <2> QED
    BY <1>5, <1>6, <2>1, <2>2 DEF Owns
<1>11. Sole'
  <2>1. ASSUME NEW v \in DOMAIN ip, Works(v)', ~ip'[v].overlap PROVE keys'.last = v
    <3>1. v # u => Works(v)
      BY <1>4, <1>6, <2>1 DEF Works
    <3> QED
      BY <1>4, <1>5, <1>6, <1>7, <2>1, <3>1
  <2>2. ASSUME NEW v \in DOMAIN ip, Undisturbed(v)'
        PROVE  /\ v = u
               /\ \A w \in DOMAIN ip : Works(w)' => w = u
               /\ PhaseOf(u, y, keys.dir, keys.file, keys.bak[u], StagedIn(keys.temp, u))
    <3>1. v = u /\ others = {}
      BY <1>3, <1>5, <1>6, <2>2 DEF Undisturbed
    <3>2. \A w \in DOMAIN ip : w # u => ~Works(w)'
      BY <1>4, <1>6, <1>7, <3>1 DEF Works
    <3>3. y.before.dir = keys.dir /\ y.before.file = keys.file
      BY <1>3 DEF Now
    <3> QED
      BY <1>3, <3>1, <3>2, <3>3 DEF PhaseOf, Early, Replacing, Undoing, DirAs
  <2> QED
    BY <1>5, <1>6, <2>1, <2>2 DEF Sole
<1>12. Filled'
  <2> SUFFICES ASSUME \A v \in DOMAIN ip : ~ip'[v].failed /\ ip'[v].at # "killed",
                      NEW w \in DOMAIN ip, NEW f \in ip'[w].installed
               PROVE  \/ keys.file[f] \in DOMAIN ip
                      \/ \E v \in DOMAIN ip : ip'[v].at = "install" /\ Files[ip'[v].next] = f
    BY <1>5, <1>6 DEF Filled
  <2>1. \A v \in DOMAIN ip : ~ip[v].failed /\ ip[v].at # "killed"
    BY <1>1, <1>4, <1>6, <1>9
  <2>2. f \in ip[w].installed
    BY <1>3, <1>4, <1>6
  <2>3. \/ keys.file[f] \in DOMAIN ip
        \/ \E v \in DOMAIN ip : ip[v].at = "install" /\ Files[ip[v].next] = f
    BY <2>1, <2>2 DEF IdentityInv, Filled
  <2>4. \A v \in DOMAIN ip : ip[v].at = "install" => ip'[v].at = "install" /\ ip'[v].next = ip[v].next
    BY <1>1, <1>4, <1>6
  <2> QED
    BY <2>3, <2>4
<1> QED
  BY <1>8, <1>10, <1>11, <1>12 DEF IdentityInv

LEMMA InvInit == \A scene \in Scene : IdentityInit(scene) => IdentityInv
<1> SUFFICES ASSUME NEW scene \in Scene, IdentityInit(scene) PROVE IdentityInv
  OBVIOUS
<1> DEFINE imports == scene.imports
           y == [Import(Now) EXCEPT !.at = "idle"]
<1>1. /\ imports \subseteq Importer /\ scene.dir \in DirKind /\ scene.file \in [Place -> Entry]
  BY DEF Scene, DirKind, Entry
<1>2. /\ keys.dir = scene.dir /\ keys.file = scene.file /\ keys.temp = {} /\ keys.last = "none"
      /\ keys.bak = [u \in imports |-> [f \in Place |-> "missing"]]
      /\ keys \in KeyState(imports)
  <2>1. "missing" \in Entry
    BY DEF Entry
  <2> QED
    BY <1>1, <2>1 DEF IdentityInit, KeyState
<1>3. DOMAIN ip = imports /\ \A u \in imports : ip[u] = y
  BY DEF IdentityInit
<1>4. /\ y \in ImportState /\ y.at = "idle" /\ ~y.failed /\ y.installed = {} /\ ~y.overlap
  <2>1. Now \in [dir : DirKind, file : [Place -> Entry]]
    BY <1>1, <1>2 DEF Now
  <2>2. 1 \in 1..Len(Files)
    BY FilesAre
  <2> QED
    BY <2>1, <2>2 DEF Import, ImportState, Stage
<1>5. ip = [u \in imports |-> y]
  BY DEF IdentityInit
<1> HIDE DEF y, imports
<1>6. IdentityTypeOK
  BY <1>1, <1>2, <1>3, <1>4, <1>5 DEF IdentityTypeOK
<1>7. Owns
  BY <1>2, <1>3, <1>4 DEF Owns, OwnOf, NoBackup, StagedIn, Early, Replacing, Undoing
<1>8. "none" \notin imports
  BY <1>1, IdentityAssumption
<1>9. Sole
  BY <1>2, <1>3, <1>4, <1>8 DEF Sole, Works, Over, Undisturbed
<1>10. Filled
  BY <1>3, <1>4 DEF Filled
<1> QED
  BY <1>6, <1>7, <1>9, <1>10 DEF IdentityInv

LEMMA InvNext == IdentityInv /\ [IdentityNext]_identityVars => IdentityInv'
<1> SUFFICES ASSUME IdentityInv, [IdentityNext]_identityVars PROVE IdentityInv'
  OBVIOUS
<1>1. CASE UNCHANGED identityVars
  BY <1>1 DEF identityVars, IdentityInv, IdentityTypeOK, Owns, Sole, Filled, Works, Undisturbed
<1>2. ASSUME NEW u \in DOMAIN ip,
             \/ ImportBegins(u) \/ Extracted(u) \/ CheckDirs(u) \/ CheckFiles(u)
             \/ ImportRefused(u) \/ MakeDir(u) \/ Copy(u) \/ Look(u) \/ BackUp(u) \/ Install(u)
             \/ ImportFails(u)
      PROVE  IdentityInv'
  BY <1>2, ImportBeginsKeeps, ExtractedKeeps, CheckDirsKeeps, CheckFilesKeeps, ImportRefusedKeeps,
     MakeDirKeeps, CopyKeeps, LookKeeps, BackUpKeeps, InstallKeeps, ImportFailsKeeps
<1>3. ASSUME NEW u \in DOMAIN ip,
             \/ RemoveInstalled(u) \/ Restore(u) \/ Sweep(u) \/ RemoveDir(u)
             \/ DropBackup(u) \/ BackupStays(u) \/ ImportEnds(u) \/ Killed(u)
      PROVE  IdentityInv'
  BY <1>3, RemoveInstalledKeeps, RestoreKeeps, SweepKeeps, RemoveDirKeeps, DropBackupKeeps,
     BackupStaysKeeps, ImportEndsKeeps, KilledKeeps
<1> QED
  BY <1>1, <1>2, <1>3 DEF IdentityNext

(* An import that no other one overlaps replaces all files of the archive or none,
   and at every step each key that was there is in its place or in a backup,
   also if steps of the undoing fail or the process is killed; imports that
   overlap and succeed leave whole files and nothing besides. For any archive,
   any number of imports and whatever they find in the directory. *)
THEOREM ImportStaysAtomic == IdentitySpec => []ImportIsAtomic
<1>1. (\E scene \in Scene : IdentityInit(scene)) => IdentityInv
  BY InvInit
<1> QED
  BY <1>1, InvNext, InvImplies, PTL DEF IdentitySpec

(* The directory and the imports stay in their ranges. *)
THEOREM IdentityTypeCorrect == IdentitySpec => []IdentityTypeOK
<1>1. (\E scene \in Scene : IdentityInit(scene)) => IdentityInv
  BY InvInit
<1>2. IdentityInv => IdentityTypeOK
  BY DEF IdentityInv
<1> QED
  BY <1>1, <1>2, InvNext, PTL DEF IdentitySpec
=============================================================================
