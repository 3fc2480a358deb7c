------------------------------- MODULE Upgrade -------------------------------
(***************************************************************************)
(* The firmware upgrade (common/upg_main.c, common/cmd_upg.c): upgBEImage  *)
(* and upgFEImage, as the sequence of flash writes and erases they make    *)
(* for `upg usb be`, `be all`, `bl` and `fe`.  A write that succeeds is    *)
(* the promise of UpgFlash: the target holds the data.  Between the erase  *)
(* and the last page a target is erased or torn, and power may fail or the *)
(* write report an error.  What the program keeps in static variables      *)
(* lasts from one upgrade of a session to the next, until power is lost.   *)
(*                                                                         *)
(* Partitions are known by name: that a new partition table (PIT) moves    *)
(* them is not modelled, only which table an upgrade works with.           *)
(***************************************************************************)
EXTENDS Integers, Sequences, FiniteSets, SequencesExt

CONSTANTS
  Boot, Primary, Backup,  \* the parts a BE image has a binary for
  Bins,         \* their order in the image's binary table (BIT)
  Volumes,      \* the ones that are volumes of a UBI partition, in order
  Keys,         \* backupInfoTable: partitions to keep when the PIT changes
  PitOf,        \* PitOf[i] is the PIT in image i; a new device has PIT 1
  StatusFirst,  \* the PIT lists upg_status before the UBI partition
  MaxUpg, MaxCut, MaxFail   \* bounds: upgrades, power losses, failed writes

Images  == DOMAIN PitOf
Parts   == Boot \cup Primary \cup Backup
FeParts == {"fe_bin_1", "fe_bin_2"}
Pits    == {"pit1", "pit2"}       \* the PIT in part_info_1 and part_info_2
Adpts   == {"adpt1", "adpt2"}     \* the adaptive PIT behind each
Stats   == {"st1", "st2"}         \* the two copies in upg_status

Others  == FeParts \cup Pits \cup Adpts \cup Stats \cup {"fe_test_data"}
Targets == Parts \cup Range(Keys) \cup Others

ASSUME ImageAssumption ==
  /\ Bins \in Seq(Parts) /\ Range(Bins) = Parts /\ Volumes \in Seq(Parts)
  /\ Keys \in Seq(Range(Keys)) /\ \A i, j \in 1 .. Len(Keys) : Keys[i] = Keys[j] => i = j
  /\ Parts \cap (Range(Keys) \cup Others) = {} /\ Range(Keys) \cap Others \subseteq FeParts
  /\ PitOf \in Seq(Nat \ {0})
  /\ StatusFirst \in BOOLEAN /\ {MaxUpg, MaxCut, MaxFail} \subseteq Nat

\* What a target holds: nothing, a torn write, the data of image v, or, for a
\* status copy, its progress; sel is history: the parts a SUC vouches for.
Is(s, v, sel) == [s |-> s, v |-> v, sel |-> sel]
Erased  == Is("erased", 0, {})
Torn    == Is("torn", 0, {})
Data(v) == Is("data", v, {})

VARIABLES
  flash,   \* what each target holds
  ses,     \* the program's static variables: _u4_same, _fgUpgBootOnly, the
           \* RAM copies of the keys, whether r_part_tbl names partitions, and
           \* the image in u4pImgStartAddr (0 none, -1 an FE image)
  up,      \* the upgrade that runs, or the last one
  hist     \* history: upgrades, power losses, failed writes, and those of
           \* them that hit a copy of the PIT

vars == <<flash, ses, up, hist>>

NoKeys == [k \in Range(Keys) |-> Is("none", 0, {})]      \* u4Length is 0

FoundM(copies) ==       \* mutant: the second copy is not looked for
  IF flash[copies[1]].s = "data" THEN flash[copies[1]].v ELSE 0

Found(copies) ==        \* i4FindPartTbl takes the first copy it can read
  IF flash[copies[1]].s = "data" THEN flash[copies[1]].v
  ELSE IF flash[copies[2]].s = "data" THEN flash[copies[2]].v ELSE 0
FoundPit  == Found(<<"pit1", "pit2">>)
FoundAdpt == Found(<<"adpt1", "adpt2">>)

FreshSession(tbl) ==
  [same |-> FALSE, bootOnly |-> FALSE, keys |-> NoKeys, tbl |-> tbl, img |-> 0]

NoUpgrade == [cmd |-> "none", img |-> 0, usb |-> 0, phase |-> "off", todo |-> <<>>,
              open |-> FALSE, creat |-> FALSE, table |-> 0]

\* A device as it was made: image 0 in place, its PIT, perhaps no backup FE.
Init ==
  /\ \E bak \in {Erased, Data(0)} :
       flash = [t \in Targets |->
         CASE t \in Pits \cup Adpts -> Data(1)
           [] t \in Stats -> Is("SUC", 0, Parts)
           [] t = "fe_bin_2" -> bak
           [] OTHER -> Data(0)]
  /\ ses = FreshSession(TRUE)
  /\ up = NoUpgrade
  /\ hist = [upg |-> 0, cut |-> 0, fail |-> 0, pit |-> 0]

Idle == up.phase \in {"ok", "fail", "off"}

(***************************************************************************)
(* The command: cmd_upg.c, and upgBEImage to i4CompareFlashPIT.  A BE      *)
(* command reads the image from USB only when none is in memory.           *)
(***************************************************************************)
Begins(c, i, img, phase, creat) ==
  /\ Idle /\ hist.upg < MaxUpg
  /\ up' = [cmd |-> c, img |-> img, usb |-> i, phase |-> phase, open |-> FALSE,
            creat |-> creat, table |-> 0,
            todo |-> IF phase = "backup" /\ creat /\ ses.tbl THEN Keys ELSE <<>>]
  /\ hist' = [hist EXCEPT !.upg = @ + 1]
  /\ UNCHANGED flash

StartBE(c, i) ==
  /\ ses.img # -1
  /\ LET img   == IF ses.img = 0 THEN i ELSE ses.img
         creat == FoundPit # PitOf[img]
     IN /\ Begins(c, i, img, "backup", creat)
        /\ ses' = [ses EXCEPT !.img = img, !.same = @ \/ ~creat,
                              !.bootOnly = @ \/ c = "bl"]

StartWithFE(c, i) ==   \* an FE image in memory fails the checks and is freed
  /\ ses.img = -1
  /\ Begins(c, i, i, "fail", FALSE)
  /\ ses' = [ses EXCEPT !.img = 0, !.bootOnly = @ \/ c = "bl"]

\* findPITFromNand searches the flash for the signatures of an adaptive PIT: a
\* torn copy may still show them.
FoundFromNand == {FoundAdpt # 0} \cup {\E a \in Adpts : flash[a] # Erased}

StartFE(i) ==
  \E found \in FoundFromNand :
    IF found
    THEN Begins("fe", i, i, "fe_plan", FALSE) /\ ses' = [ses EXCEPT !.img = -1]
    ELSE Begins("fe", i, i, "fail", FALSE) /\ ses' = [ses EXCEPT !.img = 0]

Start(c, i) == IF c = "fe" THEN StartFE(i) ELSE StartBE(c, i) \/ StartWithFE(c, i)

Reload(i) ==           \* `upg part reload`
  /\ Idle /\ ses.img # i
  /\ ses' = [ses EXCEPT !.img = i]
  /\ UNCHANGED <<flash, up, hist>>

(***************************************************************************)
(* The phases of an upgrade, and the targets each works through.           *)
(***************************************************************************)
BackupPart == up.cmd \in {"be", "be all"}
BootPart   == up.cmd \in {"be all", "bl"}

Selected(p) ==
  /\ ~(p \in Backup /\ ~BackupPart)
  /\ p \in Boot => BootPart
  /\ p \notin Boot => ~ses.bootOnly

Follows == [backup |-> "adapt", adapt |-> "prepare", prepare |-> "mark",
            mark |-> "pits", pits |-> "bins", bins |-> "restore",
            restore |-> "done", done |-> "ok",
            fe_plan |-> "fe_mark", fe_mark |-> "fe", fe |-> "fe_done",
            fe_done |-> "ok"]

StatusCopies == <<"st1", "st2">>
FeBakExists  == flash["fe_bin_2"].s \in {"data", "torn"}      \* fgFEBakExist

\* Mutant: the backup FE image is written before the main one.
FeWorkM == IF FeBakExists THEN <<"fe_bin_1", "fe_test_data">>
           ELSE <<"fe_bin_2", "fe_bin_1", "fe_test_data">>

FeWork == IF FeBakExists THEN <<"fe_bin_1", "fe_test_data">>
          ELSE <<"fe_bin_1", "fe_bin_2", "fe_test_data">>

Work(ph) ==
  CASE ph = "adapt" /\ up.creat /\ ~ses.same -> <<"adpt1", "adpt2">>
    [] ph = "prepare" /\ up.creat ->
         IF StatusFirst THEN StatusCopies \o Volumes ELSE Volumes \o StatusCopies
    [] ph \in {"mark", "done", "fe_mark", "fe_done"} -> StatusCopies
    [] ph = "pits" -> IF BackupPart THEN <<"pit1", "pit2">> ELSE <<"pit1">>
    [] ph = "bins" -> Bins
    [] ph = "restore" /\ up.creat -> Keys
    [] ph = "fe" -> FeWork
    [] OTHER -> <<>>

Proceed ==
  /\ ~Idle /\ up.todo = <<>>
  /\ LET ph == Follows[up.phase]
         \* i4GetAdptPit: the RAM table, or with _u4_same the one on flash
         table == IF ses.same THEN FoundAdpt ELSE PitOf[up.img]
     IN IF ph = "prepare" /\ table = 0
        THEN up' = [up EXCEPT !.phase = "fail"] /\ UNCHANGED ses
        ELSE
        /\ up' = [up EXCEPT !.phase = ph, !.todo = Work(ph),
                            !.table = IF ph = "prepare" THEN table ELSE @]
        /\ ses' = IF ph = "fe_done" THEN [ses EXCEPT !.img = 0] ELSE ses
  /\ UNCHANGED <<flash, hist>>

(***************************************************************************)
(* One target: erased first, then whole, or a failure.                     *)
(***************************************************************************)
Target == Head(up.todo)

\* The binaries an upgrade has to write, and the keys a backup has read.
Wanted(t) == /\ up.phase = "bins" => Selected(t)
             /\ up.phase = "restore" => ses.keys[t].s # "none"

Skip ==
  /\ ~Idle /\ up.todo # <<>> /\ ~Wanted(Target)
  /\ up' = [up EXCEPT !.todo = Tail(@)]
  /\ UNCHANGED <<flash, ses, hist>>

SelectedSet == {p \in Parts : Selected(p)}

MarkM ==            \* mutant: the status says success from the start
  IF up.cmd = "fe" THEN Is("SUC", up.img, {"fe_bin_1"}) ELSE Is("SUC", up.img, SelectedSet)

Mark ==             \* i_set_upg_status_by_upg and its _FE twin
  CASE up.phase = "mark" -> Is("BE", up.img, {})
    [] up.phase = "fe_mark" -> Is("FE", up.img, {})
    [] up.phase = "done" -> Is("SUC", up.img, SelectedSet)
    [] OTHER -> Is("SUC", up.img, {"fe_bin_1"})

Value(t) ==
  CASE up.phase \in {"mark", "fe_mark", "done", "fe_done"} -> Mark
    [] up.phase \in {"adapt", "pits"} -> Data(PitOf[up.img])
    [] up.phase = "restore" -> ses.keys[t]
    [] up.phase \in {"backup", "prepare"} -> Erased
    [] up.phase = "fe" /\ t = "fe_test_data" -> Erased
    [] OTHER -> Data(up.img)

\* A write leaves its target torn until it is done; in the backup FE partition
\* it also counts that nothing may be programmed yet.
Begun == IF Value(Target) = Erased THEN {Erased}
         ELSE IF Target = "fe_bin_2" THEN {Erased, Torn} ELSE {Torn}

\* Mutant: the RAM copy is taken when the partition is already erased.
OpenM ==
  /\ ~Idle /\ up.todo # <<>> /\ ~up.open /\ Wanted(Target)
  /\ \E x \in Begun : flash' = [flash EXCEPT ![Target] = x]
  /\ ses' = IF up.phase = "backup" THEN [ses EXCEPT !.keys[Target] = Erased] ELSE ses
  /\ up' = [up EXCEPT !.open = TRUE]
  /\ UNCHANGED hist

\* The erase begins; a key partition has been read to RAM just before.
Open ==
  /\ ~Idle /\ up.todo # <<>> /\ ~up.open /\ Wanted(Target)
  /\ \E x \in Begun : flash' = [flash EXCEPT ![Target] = x]
  /\ ses' = IF up.phase = "backup" THEN [ses EXCEPT !.keys[Target] = flash[Target]]
            ELSE ses
  /\ up' = [up EXCEPT !.open = TRUE]
  /\ UNCHANGED hist

\* Mutant: the target is not taken off the list.
CloseM ==
  /\ up.open
  /\ flash' = [flash EXCEPT ![Target] = Value(Target)]
  /\ up' = [up EXCEPT !.open = FALSE]
  /\ UNCHANGED <<ses, hist>>

\* Mutant: the target stays open.
CloseM2 ==
  /\ up.open
  /\ flash' = [flash EXCEPT ![Target] = Value(Target)]
  /\ up' = [up EXCEPT !.todo = Tail(@)]
  /\ UNCHANGED <<ses, hist>>

Close ==
  /\ up.open
  /\ flash' = [flash EXCEPT ![Target] = Value(Target)]
  /\ up' = [up EXCEPT !.open = FALSE, !.todo = Tail(@)]
  /\ UNCHANGED <<ses, hist>>

Hit(h) == IF up.open /\ Target \in Pits THEN h + 1 ELSE h

\* The write or the erase reports an error: that ends the upgrade, but what
\* i4SetNewFlashPIT returned for the adaptive PIT is overwritten.
Fail ==
  /\ up.open /\ hist.fail < MaxFail
  /\ up' = [up EXCEPT !.open = FALSE, !.todo = <<>>,
                      !.phase = IF @ = "adapt" THEN @ ELSE "fail"]
  /\ hist' = [hist EXCEPT !.fail = @ + 1, !.pit = Hit(@)]
  /\ ses' = IF up.phase = "fe" THEN [ses EXCEPT !.img = 0] ELSE ses
  /\ UNCHANGED flash

\* Power is lost, or the device is switched off after an upgrade.
PowerLoss ==
  /\ up.phase # "off"
  /\ IF Idle THEN hist' = hist
     ELSE hist.cut < MaxCut /\ hist' = [hist EXCEPT !.cut = @ + 1, !.pit = Hit(@)]
  /\ up' = NoUpgrade
  /\ ses' = FreshSession(FoundPit # 0)
  /\ UNCHANGED flash

Step == Proceed \/ Skip \/ Open \/ Close \/ Fail
Next == \/ \E c \in {"be", "be all", "bl", "fe"}, i \in Images : Start(c, i)
        \/ \E i \in Images : Reload(i)
        \/ Step \/ PowerLoss

Spec == Init /\ [][Next]_vars /\ WF_vars(Step)

(***************************************************************************)
(* Properties.                                                             *)
(***************************************************************************)
\* Type invariant of the targets and of the running upgrade.
TypeOK ==
  /\ \A t \in Targets : flash[t].s \in {"erased", "torn"}
       \cup (IF t \in Stats THEN {"BE", "FE", "SUC"} ELSE {"data"})
  /\ up.phase \in DOMAIN Follows \cup {"ok", "fail", "off"}
  /\ Range(up.todo) \subseteq Targets /\ (up.open => up.todo # <<>>)
  /\ up.img \in Images \cup {0} /\ ses.img \in Images \cup {-1, 0}
  /\ ses.same \in BOOLEAN /\ ses.bootOnly \in BOOLEAN
  /\ hist.cut \in 0 .. MaxCut /\ hist.fail \in 0 .. MaxFail

\* A status copy that says SUC is true, at every moment and after every power
\* loss: each part that upgrade had to write holds its image, and the FE
\* partition at least no torn one.
SucWhole ==
  \A t \in Stats : flash[t].s = "SUC" =>
    \A p \in flash[t].sel :
      IF p \in Parts THEN flash[p] = Data(flash[t].v) ELSE flash[p] # Torn

\* A partition table can be read at every moment, unless a second write of a
\* copy begins after one was interrupted.
PitReadable == Hit(hist.pit) <= 1 => FoundPit # 0

\* Without power losses and failed writes a key partition is on flash or in
\* RAM throughout a change of the PIT, and on flash when the upgrade is over.
KeysSafe ==
  hist.cut = 0 /\ hist.fail = 0 =>
    \A k \in Range(Keys) \ FeParts :
      flash[k].s = "data" \/ (ses.keys[k].s = "data" /\ ~Idle)

\* An FE upgrade touches the backup FE image only when that partition is blank
\* and the main one already holds the new image whole.
FeBackupLast ==
  [][up.cmd = "fe" /\ flash'["fe_bin_2"] # flash["fe_bin_2"] =>
       flash["fe_bin_1"] = Data(up.img) /\ (up.open \/ flash["fe_bin_2"] = Erased)]_vars

\* Every upgrade comes to its end or loses power.
UpgradeReturns == (~Idle) ~> Idle

(***************************************************************************)
(* What the program's texts say of it.                                     *)
(***************************************************************************)
\* "back up key info to dram, then write to nand": if power was never lost, a
\* BE upgrade that reports success leaves the key partitions on flash.
KeysWrittenBack ==
  up.phase = "ok" /\ up.cmd \in {"be", "be all"} /\ hist.cut = 0 =>
    \A k \in Range(Keys) \ FeParts : flash[k].s = "data"
=============================================================================
