---------------------------- MODULE MachineProofs ----------------------------
(***************************************************************************)
(* For every size of the memory, every division into slots, every kernel   *)
(* the linker makes and every way the VMM and the image generator          *)
(* interleave: a realm that runs was measured as it was loaded, a VM that  *)
(* could not be built is not reported as a success, the words of the       *)
(* kernel are addresses in the space it runs in, the image has the kernel  *)
(* where it is linked to be, and a guest that does not find it there has   *)
(* one of the causes LostExplained names.                                  *)
(***************************************************************************)
EXTENDS Machine, SequenceTheorems, WellFoundedInduction, TLAPS

(* The requests of Machine::new the proof has to place.                    *)
LEMMA ProgramOrder ==
  /\ Len(Program) = 24
  /\ \A k \in 1 .. Len(Program) :
       /\ Program[k] = "slot0"       <=> k = 9
       /\ Program[k] = "load_kernel" <=> k = 12
       /\ Program[k] = "populate0"   <=> k = 15
       /\ Program[k] = "populate2"   <=> k = 16
  /\ Program[15] \notin Survived /\ Program[16] \notin Survived
<1>1. Len(Program) = 24
  BY DEF Program
<1>2. ASSUME NEW k \in 1 .. 24
      PROVE  /\ Program[k] = "slot0"       <=> k = 9
             /\ Program[k] = "load_kernel" <=> k = 12
             /\ Program[k] = "populate0"   <=> k = 15
             /\ Program[k] = "populate2"   <=> k = 16
  BY <1>2 DEF Program
<1> QED
  BY <1>1, <1>2 DEF Survived

-----------------------------------------------------------------------------
(* The VMM.                                                                *)

(* What Machine::new has passed, KVM has granted, unless it is not asked   *)
(* or its refusal is survived.                                             *)
GrantedSoFar ==
  \A k \in 1 .. at - 1 : Program[k] \in Needed \ Survived => Program[k] \in granted

(* Only what got through all of Machine::new runs, and only the refused    *)
(* command line is a success without having run.                           *)
EndAgrees ==
  /\ vmm = "running" => at = Len(Program) + 1
  /\ ran => at = Len(Program) + 1 /\ vmm \in {"running", "ended"}
  /\ status # "none" => vmm = "ended"
  /\ status = "success" => cause = "refused" \/ at = Len(Program) + 1

(* A private slot keeps what was measured of it: the kernel is loaded      *)
(* before the first slot is populated, and nothing writes afterwards.      *)
MeasuredSoFar ==
  is_realm =>
    /\ at > 15 => \A b \in SlotBlocks[0] : measured[b] = ram[b]
    /\ at > 16 => \A b \in SlotBlocks[2] : measured[b] = ram[b]
    /\ \A b \in SlotBlocks[1] : measured[b] = Nothing

VmmInv == /\ at \in 1 .. Len(Program) + 1
          /\ GrantedSoFar /\ EndAgrees /\ MeasuredSoFar

(* Before main nothing was granted, loaded or measured.                    *)
LEMMA InitVmmInv == Init => VmmInv
<1> SUFFICES ASSUME Init PROVE VmmInv
  OBVIOUS
<1>1. \A b \in SlotBlocks[1] : measured[b] = Nothing
  BY LifecycleAssumption DEF Init
<1>2. at = 1 /\ Len(Program) = 24
  BY ProgramOrder DEF Init
<1> QED
  BY <1>1, <1>2 DEF Init, VmmInv, GrantedSoFar, EndAgrees, MeasuredSoFar

(* KVM grants the request Machine::new has got to, for whatever that does  *)
(* to the memory and to KVM's own state.                                   *)
LEMMA GrantPreserves ==
  ASSUME VmmInv, NEW r, Granted(r),
         r \notin {"load_kernel", "populate0", "populate2"},
         UNCHANGED <<ram, measured>>
  PROVE  VmmInv'
<1>1. /\ vmm = "building" /\ at \in 1 .. Len(Program) /\ Program[at] = r
      /\ at' = at + 1 /\ granted' = granted \cup {r}
      /\ UNCHANGED <<vmm, is_realm, ran, status, cause>>
  BY DEF Granted, Asks, input, end, VmmInv
<1>2. at # 15 /\ at # 16 /\ Len(Program) = 24
  BY <1>1, ProgramOrder
<1>3. GrantedSoFar'
  <2>1. Needed' = Needed
    BY <1>1 DEF Needed
  <2> QED
    BY <1>1, <1>2, <2>1 DEF VmmInv, GrantedSoFar
<1>4. EndAgrees'
  BY <1>1, <1>2 DEF VmmInv, EndAgrees
<1>5. MeasuredSoFar'
  BY <1>1, <1>2 DEF VmmInv, MeasuredSoFar
<1> QED
  BY <1>1, <1>2, <1>3, <1>4, <1>5 DEF VmmInv

(* The kernel is loaded: nothing has been populated yet.                   *)
LEMMA LoadKernelPreserves == VmmInv /\ LoadKernel => VmmInv'
<1> SUFFICES ASSUME VmmInv, LoadKernel PROVE VmmInv'
  OBVIOUS
<1>1. /\ vmm = "building" /\ at \in 1 .. Len(Program) /\ Program[at] = "load_kernel"
      /\ at' = at + 1 /\ granted' = granted \cup {"load_kernel"}
      /\ UNCHANGED <<vmm, is_realm, ran, status, cause, measured>>
  BY DEF LoadKernel, Granted, Asks, input, end, kvm, VmmInv
<1>2. at = 12 /\ Len(Program) = 24
  BY <1>1, ProgramOrder
<1>3. GrantedSoFar'
  <2>1. Needed' = Needed
    BY <1>1 DEF Needed
  <2> QED
    BY <1>1, <1>2, <2>1 DEF VmmInv, GrantedSoFar
<1>4. EndAgrees' /\ MeasuredSoFar'
  BY <1>1, <1>2 DEF VmmInv, EndAgrees, MeasuredSoFar
<1> QED
  BY <1>1, <1>2, <1>3, <1>4 DEF VmmInv

(* A slot is populated with what is in memory, and the shared slot is none *)
(* of its business.                                                        *)
LEMMA PopulatePreserves ==
  ASSUME VmmInv,
         RealmPopulate(0, "populate0") \/ RealmPopulate(2, "populate2")
  PROVE  VmmInv'
<1>1. PICK s \in {0, 2} : /\ RealmPopulate(s, IF s = 0 THEN "populate0" ELSE "populate2")
  OBVIOUS
<1> DEFINE r == IF s = 0 THEN "populate0" ELSE "populate2"
<1>2. /\ vmm = "building" /\ at \in 1 .. Len(Program) /\ Program[at] = r
      /\ at' = at + 1 /\ granted' = granted \cup {r}
      /\ measured' = [b \in Blocks |-> IF b \in SlotBlocks[s] THEN ram[b]
                                                             ELSE measured[b]]
      /\ UNCHANGED <<vmm, is_realm, ran, status, cause, ram>>
  BY <1>1 DEF RealmPopulate, Granted, Asks, input, end, VmmInv
<1>3. at = (IF s = 0 THEN 15 ELSE 16) /\ Len(Program) = 24
  BY <1>2, ProgramOrder
<1> HIDE DEF r
<1>4. GrantedSoFar'
  <2>1. Needed' = Needed
    BY <1>2 DEF Needed
  <2> QED
    BY <1>2, <1>3, <2>1 DEF VmmInv, GrantedSoFar
<1>5. EndAgrees'
  BY <1>2, <1>3 DEF VmmInv, EndAgrees
<1>6. MeasuredSoFar'
  <2>1. /\ \A t \in {0, 1, 2} : SlotBlocks[t] \subseteq Blocks
        /\ SlotBlocks[s] \cap SlotBlocks[1] = {}
    BY LifecycleAssumption
  <2>2. \A b \in SlotBlocks[s] : measured'[b] = ram'[b]
    BY <1>2, <2>1
  <2>3. \A b \in SlotBlocks[1] : measured'[b] = measured[b]
    BY <1>2, <2>1
  <2>4. \A b \in SlotBlocks[0] : measured'[b] \in {measured[b], ram[b]}
    BY <1>2, <2>1
  <2> QED
    BY <1>2, <1>3, <2>2, <2>3, <2>4 DEF VmmInv, MeasuredSoFar
<1> QED
  BY <1>2, <1>3, <1>4, <1>5, <1>6 DEF VmmInv

(* A request that is passed over without being granted was not needed, or  *)
(* its refusal is survived; in neither case is it a populate of a realm.   *)
LEMMA PassPreserves ==
  ASSUME VmmInv, vmm = "building", at <= Len(Program),
         Program[at] \notin Needed \/ Program[at] \in Survived,
         at' = at + 1,
         UNCHANGED <<vmm, is_realm, ram, measured, ran, status, cause, granted>>
  PROVE  VmmInv'
<1>1. at \in 1 .. Len(Program) /\ Len(Program) = 24
  BY ProgramOrder DEF VmmInv
<1>2. Program[at] \in Requests
  BY <1>1 DEF Requests
<1>3. is_realm => at # 15 /\ at # 16
  BY <1>1, <1>2, ProgramOrder DEF Needed
<1>4. GrantedSoFar'
  <2>1. Needed' = Needed
    BY DEF Needed
  <2> QED
    BY <1>1, <2>1 DEF VmmInv, GrantedSoFar
<1>5. EndAgrees' /\ MeasuredSoFar'
  BY <1>1, <1>3 DEF VmmInv, EndAgrees, MeasuredSoFar
<1> QED
  BY <1>1, <1>4, <1>5 DEF VmmInv

(* The VMM ends: as a success only after Machine::new, or refusing.        *)
LEMMA EndPreserves ==
  ASSUME VmmInv, vmm # "ended", NEW how, NEW why, EndWith(how, why),
         how # "none",
         how = "success" => why = "refused" \/ vmm = "running",
         ran' = ran \/ vmm = "running",
         UNCHANGED <<at, is_realm, ram, measured, granted>>
  PROVE  VmmInv'
<1>1. Needed' = Needed
  BY DEF Needed
<1>2. GrantedSoFar' /\ MeasuredSoFar'
  BY <1>1 DEF VmmInv, GrantedSoFar, MeasuredSoFar
<1>3. EndAgrees'
  BY DEF VmmInv, EndAgrees, EndWith
<1> QED
  BY <1>2, <1>3 DEF VmmInv

(* Every step of main and Machine::new.                                    *)
LEMMA BuildPreserves == VmmInv /\ Build => VmmInv'
<1> SUFFICES ASSUME VmmInv, Build PROVE VmmInv'
  OBVIOUS
<1>1. CASE RefuseDebug
  BY <1>1, EndPreserves DEF RefuseDebug, input, kvm
<1>2. CASE NoKernelFile
  BY <1>2, EndPreserves DEF NoKernelFile, Panic, input, kvm
<1>3. CASE ReadKernel
  <2>1. /\ vmm = "reading" /\ vmm' = "building"
        /\ UNCHANGED <<at, is_realm, ram, measured, ran, status, cause, granted>>
    BY <1>3 DEF ReadKernel, kvm, end
  <2>2. Needed' = Needed
    BY <2>1 DEF Needed
  <2> QED
    BY <2>1, <2>2 DEF VmmInv, GrantedSoFar, EndAgrees, MeasuredSoFar
<1>4. CASE Skip
  BY <1>4, PassPreserves DEF Skip, input, kvm, end
<1>5. ASSUME NEW r \in Requests, Refuse(r)
      PROVE  VmmInv'
  <2>1. CASE r \in Survived
    BY <1>5, <2>1, PassPreserves DEF Refuse, Asks, input, kvm, end
  <2>2. CASE r \notin Survived
    BY <1>5, <2>2, EndPreserves DEF Refuse, Asks, Panic, input, kvm
  <2> QED
    BY <2>1, <2>2
<1>6. CASE \/ CreateVm \/ SetSmcccFilters \/ RealmPersonalize
           \/ CreateIrqchip \/ CreateItsDevice \/ VmMapGuestMemory
           \/ CreateGuestMemfds \/ RealmInitIpaRange \/ FinishGicInit
           \/ GetPreferredTarget \/ CreateEventFds
  <2>1. PICK r \in {"create_vm", "smccc_filter", "personalize", "irqchip",
                    "its", "map_memory", "memfds", "init_ipa0", "init_ipa2",
                    "finish_gic", "preferred_target", "event_fds"} :
          Granted(r) /\ UNCHANGED <<ram, kvm>>
    BY <1>6 DEF CreateVm, SetSmcccFilters, RealmPersonalize, CreateIrqchip,
                CreateItsDevice, VmMapGuestMemory, CreateGuestMemfds,
                RealmInitIpaRange, FinishGicInit, GetPreferredTarget,
                CreateEventFds, GrantOther
  <2> QED
    BY <2>1, GrantPreserves DEF kvm
<1>7. CASE \/ CreateRealmDescriptor
           \/ SetSlot(0, "slot0") \/ SetSlot(1, "slot1") \/ SetSlot(2, "slot2")
           \/ CreateVcpu \/ InitializeVcpu \/ SetRegisters
           \/ RealmFinalizeCpu \/ RealmActivate
  <2>1. PICK r \in {"create_rd", "slot0", "slot1", "slot2", "create_vcpu",
                    "vcpu_init", "registers", "finalize", "activate"} :
          Granted(r) /\ UNCHANGED <<ram, measured>>
    BY <1>7 DEF CreateRealmDescriptor, SetSlot, CreateVcpu, InitializeVcpu,
                SetRegisters, RealmFinalizeCpu, RealmActivate, kvm
  <2> QED
    BY <2>1, GrantPreserves
<1>8. CASE LoadKernel
  BY <1>8, LoadKernelPreserves
<1>9. CASE KernelTooLarge
  BY <1>9, EndPreserves DEF KernelTooLarge, Asks, Panic, input, kvm
<1>10. CASE RealmPopulate(0, "populate0") \/ RealmPopulate(2, "populate2")
  BY <1>10, PopulatePreserves
<1>11. CASE EnterRunloop
  <2>1. /\ vmm = "building" /\ vmm' = "running" /\ at = Len(Program) + 1
        /\ UNCHANGED <<at, is_realm, ram, measured, ran, status, cause, granted>>
    BY <1>11 DEF EnterRunloop, input, kvm, end
  <2>2. Needed' = Needed
    BY <2>1 DEF Needed
  <2> QED
    BY <2>1, <2>2 DEF VmmInv, GrantedSoFar, EndAgrees, MeasuredSoFar
<1> QED
  BY <1>1, <1>2, <1>3, <1>4, <1>5, <1>6, <1>7, <1>8, <1>9, <1>10, <1>11
     DEF Build

(* And of runloop, and of the guest it runs.                               *)
LEMMA RunPreserves ==
  ASSUME VmmInv, GuestExecutes \/ GuestEnds \/ RunFails \/ RunPanics
  PROVE  VmmInv'
<1>1. CASE GuestExecutes
  <2>1. /\ vmm = "running" /\ ran' = TRUE
        /\ UNCHANGED <<vmm, at, is_realm, ram, measured, status, cause, granted>>
    BY <1>1 DEF GuestExecutes, KvmRuns, input, kvm, end
  <2>2. Needed' = Needed
    BY <2>1 DEF Needed
  <2> QED
    BY <2>1, <2>2 DEF VmmInv, GrantedSoFar, EndAgrees, MeasuredSoFar
<1>2. CASE GuestEnds
  BY <1>2, EndPreserves DEF GuestEnds, KvmRuns, input, kvm
<1>3. CASE RunFails
  BY <1>3, EndPreserves DEF RunFails, input, kvm
<1>4. CASE RunPanics
  BY <1>4, EndPreserves DEF RunPanics, Panic, input, kvm
<1> QED
  BY <1>1, <1>2, <1>3, <1>4

(* The generator and the guest's kernel touch nothing of the VMM's.        *)
LEMMA NextVmmInv == VmmInv /\ [MachineNext]_vars => VmmInv'
<1> SUFFICES ASSUME VmmInv, [MachineNext]_vars PROVE VmmInv'
  OBVIOUS
<1>1. CASE UNCHANGED lifecycle
  BY <1>1 DEF lifecycle, input, kvm, end, VmmInv, GrantedSoFar, EndAgrees,
              MeasuredSoFar, Needed
<1>2. CASE MachineNext
  BY <1>1, <1>2, BuildPreserves, RunPreserves
     DEF MachineNext, Generate, VmmStep, KernelStarts, GetLost, GuestStops
<1> QED
  BY <1>1, <1>2 DEF vars

(* A realm that has executed anything was measured as the VMM had loaded   *)
(* it: every block of the private slots with what the VMM holds for it,    *)
(* and no block of the shared slot.                                        *)
THEOREM Measured == MachineSpec => []MeasuredIsLoaded
<1>1. MachineInit => VmmInv
  BY InitVmmInv DEF MachineInit
<1>2. VmmInv => MeasuredIsLoaded
  BY ProgramOrder DEF VmmInv, EndAgrees, MeasuredSoFar, MeasuredIsLoaded
<1> QED
  BY <1>1, <1>2, NextVmmInv, PTL DEF MachineSpec

(* Status 0 means that KVM granted all that Machine::new cannot do         *)
(* without, or that the command line was refused.                          *)
THEOREM FailuresShow == MachineSpec => []BuildFailureShows
<1>1. MachineInit => VmmInv
  BY InitVmmInv DEF MachineInit
<1>2. VmmInv => BuildFailureShows
  <2>1. SUFFICES ASSUME VmmInv, status = "success", cause # "refused",
                        NEW r \in Needed \ Survived
                 PROVE  r \in granted
    BY DEF BuildFailureShows
  <2>2. at = Len(Program) + 1
    BY <2>1 DEF VmmInv, EndAgrees
  <2>3. PICK k \in 1 .. Len(Program) : r = Program[k]
    BY <2>1 DEF Needed, Requests
  <2> QED
    BY <2>1, <2>2, <2>3, ProgramOrder DEF VmmInv, GrantedSoFar
<1> QED
  BY <1>1, <1>2, NextVmmInv, PTL DEF MachineSpec

-----------------------------------------------------------------------------
(* The start of the kernel.                                                *)

(* What the word of the k-th entry is once relocate_kernel has passed it,  *)
(* and what shift_to_va makes of it.                                       *)
Physical(k) ==
  IF rela_table[k].kind \in Handled
  THEN Base + rela_table[k].st_value + rela_table[k].r_addend
  ELSE rela_table[k].r_offset
Virtual(k) == Physical(k) - Base + KernelBase

RelaKeys == 1 .. Len(rela_table)

Unlisted ==
  \A o \in Offsets :
    (\A k \in RelaKeys : rela_table[k].r_offset # o) => word[o] = Linked(o)

(* The loops, before their n-th turn: of relocate_kernel over the section, *)
(* of relocate_kernel over the store, and of shift_to_va.                  *)
RelocatedBelow(n) ==
  \A k \in RelaKeys :
    word[rela_table[k].r_offset] =
      IF k < n THEN Physical(k) ELSE rela_table[k].r_offset

StoredBelow(n) ==
  \A k \in 1 .. MaxRelocations :
    global_relocations[k] =
      IF k < n THEN [address |-> Base + rela_table[k].r_offset,
                     value   |-> Virtual(k)]
               ELSE NoRelocation

ShiftedBelow(n) ==
  \A k \in RelaKeys :
    word[rela_table[k].r_offset] = IF k < n THEN Virtual(k) ELSE Physical(k)

(* shift_to_va knows only the store: that it stops after the last entry,   *)
(* and has written each word once, takes the store to hold exactly the     *)
(* entries of the section, and the section to fit.                         *)
StartInv ==
  /\ StartTypeOK
  /\ i <= Len(rela_table) + 1
  /\ Unlisted
  /\ phase = "relocate" => RelocatedBelow(i)
  /\ phase = "record" => /\ RelocatedBelow(Len(rela_table) + 1)
                         /\ StoredBelow(i)
                         /\ i <= MaxRelocations + 1
  /\ phase = "init" => RelocatedBelow(Len(rela_table) + 1)
  /\ phase = "shift" => ShiftedBelow(i)
  /\ phase \in {"init", "shift"} => /\ StoredBelow(Len(rela_table) + 1)
                                    /\ Len(rela_table) <= MaxRelocations
  /\ phase = "main" => ShiftedBelow(Len(rela_table) + 1)

(* The entries: typed, and no two for one word.                            *)
LEMMA RelaTypes ==
  ASSUME StartTypeOK
  PROVE  /\ Len(rela_table) \in Nat
         /\ \A k \in RelaKeys :
              /\ rela_table[k] \in Rela
              /\ rela_table[k].r_offset \in Offsets
              /\ rela_table[k].r_offset \in Nat
              /\ Physical(k) \in Int /\ Virtual(k) \in Int
         /\ \A j, k \in RelaKeys :
              j # k => rela_table[j].r_offset # rela_table[k].r_offset
<1>1. rela_table \in Seq(Rela)
  BY DEF StartTypeOK, RelaTables
<1>2. ASSUME NEW k \in RelaKeys
      PROVE  /\ rela_table[k] \in Rela
             /\ rela_table[k].r_offset \in Offsets
             /\ rela_table[k].r_offset \in Nat
             /\ Physical(k) \in Int /\ Virtual(k) \in Int
  <2>1. rela_table[k] \in Rela
    BY <1>1 DEF RelaKeys
  <2>2. /\ rela_table[k].r_offset \in Offsets /\ rela_table[k].r_offset \in Nat
        /\ rela_table[k].st_value \in Nat /\ rela_table[k].r_addend \in Int
    BY <2>1, StartAssumption DEF Rela
  <2> QED
    BY <2>1, <2>2, StartAssumption DEF Physical, Virtual
<1> QED
  BY <1>1, <1>2 DEF StartTypeOK, RelaTables, RelaKeys

(* _start begins with the words as they were built, and an empty store.    *)
LEMMA InitStartInv == MachineInit => StartInv
<1> SUFFICES ASSUME MachineInit PROVE StartInv
  OBVIOUS
<1>1. rela_table \in RelaTables
  BY MachineAssumption DEF MachineInit, GeneratorInit
<1>2. /\ word = [o \in Offsets |-> o] /\ phase = "relocate" /\ i = 1
      /\ global_relocations \in [1 .. MaxRelocations -> [address : Int, value : Int]]
  BY StartAssumption DEF MachineInit, StartInit, Linked, NoRelocation
<1>3. StartTypeOK
  BY <1>1, <1>2, StartAssumption DEF StartTypeOK
<1> QED
  BY <1>2, <1>3, RelaTypes
     DEF StartInv, Unlisted, RelocatedBelow, Linked, RelaKeys

(* Relocating an entry changes its own word and no other entry's.          *)
LEMMA RelocatePreserves == StartInv /\ Relocate => StartInv'
<1> SUFFICES ASSUME StartInv, Relocate PROVE StartInv'
  OBVIOUS
<1>1. /\ StartTypeOK /\ i \in RelaKeys /\ i \in Nat
      /\ phase = "relocate" /\ i' = i + 1
      /\ UNCHANGED <<phase, rela_table, global_relocations>>
      /\ Len(rela_table) \in Nat
  BY RelaTypes DEF Relocate, StartInv, StartTypeOK, RelaKeys
<1>2. /\ word' = [word EXCEPT ![rela_table[i].r_offset] = Physical(i)]
      /\ word \in [Offsets -> Int]
  <2>1. word[rela_table[i].r_offset] = rela_table[i].r_offset
    BY <1>1 DEF StartInv, RelocatedBelow
  <2>2. word \in [Offsets -> Int]
    BY <1>1 DEF StartTypeOK
  <2>3. CASE Entry.kind \in Handled
    BY <2>2, <2>3 DEF Relocate, Physical, Entry
  <2>4. CASE Entry.kind \notin Handled
    BY <1>1, <2>1, <2>2, <2>4, RelaTypes DEF Relocate, Physical, Entry
  <2> QED
    BY <2>2, <2>3, <2>4
<1>3. StartTypeOK'
  BY <1>1, <1>2, RelaTypes DEF StartTypeOK
<1>4. Unlisted'
  BY <1>1, <1>2, RelaTypes DEF StartInv, Unlisted, RelaKeys
<1>5. RelocatedBelow(i)'
  <2> SUFFICES ASSUME NEW k \in RelaKeys
               PROVE  word'[rela_table[k].r_offset] =
                        IF k < i + 1 THEN Physical(k) ELSE rela_table[k].r_offset
    BY <1>1 DEF RelocatedBelow, RelaKeys, Physical
  <2>1. word[rela_table[k].r_offset] =
          IF k < i THEN Physical(k) ELSE rela_table[k].r_offset
    BY <1>1 DEF StartInv, RelocatedBelow
  <2>2. k \in Nat
    BY DEF RelaKeys
  <2>3. CASE k = i
    BY <1>1, <1>2, <2>3, RelaTypes
  <2>4. CASE k # i
    <3>1. word'[rela_table[k].r_offset] = word[rela_table[k].r_offset]
      BY <1>1, <1>2, <2>4, RelaTypes
    <3>2. k < i + 1 <=> k < i
      BY <1>1, <2>2, <2>4
    <3> QED
      BY <2>1, <3>1, <3>2
  <2> QED
    BY <2>3, <2>4
<1> QED
  BY <1>1, <1>3, <1>4, <1>5 DEF StartInv, RelaKeys

(* The word of an entry is Physical when the section has been gone through. *)
LEMMA AllRelocated ==
  ASSUME StartTypeOK, RelocatedBelow(Len(rela_table) + 1)
  PROVE  \A k \in RelaKeys : word[rela_table[k].r_offset] = Physical(k)
<1>1. \A k \in RelaKeys : k < Len(rela_table) + 1
  BY RelaTypes DEF RelaKeys
<1> QED
  BY <1>1 DEF RelocatedBelow

(* The store is emptied after the words are relocated.                     *)
LEMMA ClearStorePreserves == StartInv /\ ClearStore => StartInv'
<1> SUFFICES ASSUME StartInv, ClearStore PROVE StartInv'
  OBVIOUS
<1>1. /\ StartTypeOK /\ phase = "relocate" /\ phase' = "record"
      /\ i = Len(rela_table) + 1 /\ i' = 1
      /\ global_relocations' = [k \in 1 .. MaxRelocations |-> NoRelocation]
      /\ UNCHANGED <<rela_table, word>>
      /\ Len(rela_table) \in Nat
  BY RelaTypes DEF ClearStore, StartInv, StartTypeOK
<1>2. StartTypeOK'
  BY <1>1 DEF StartTypeOK, NoRelocation
<1>3. RelocatedBelow(Len(rela_table) + 1)'
  BY <1>1 DEF StartInv, RelocatedBelow, RelaKeys, Physical
<1>4. StoredBelow(i)'
  <2>1. \A k \in 1 .. MaxRelocations : ~ (k < 1)
    BY StartAssumption
  <2> QED
    BY <1>1, <2>1 DEF StoredBelow
<1> QED
  BY <1>1, <1>2, <1>3, <1>4, StartAssumption
     DEF StartInv, Unlisted, RelaKeys

(* Storing an entry fills its own place, with what shift_to_va will write. *)
LEMMA RecordPreserves == StartInv /\ Record => StartInv'
<1> SUFFICES ASSUME StartInv, Record PROVE StartInv'
  OBVIOUS
<1>1. /\ StartTypeOK /\ phase = "record" /\ phase' = "record"
      /\ i \in RelaKeys /\ i \in 1 .. MaxRelocations /\ i' = i + 1 /\ i \in Nat
      /\ UNCHANGED <<rela_table, word>>
      /\ Len(rela_table) \in Nat
  BY RelaTypes, StartAssumption, SMTT(30) DEF Record, StartInv, StartTypeOK, RelaKeys
<1>2. /\ RelocatedBelow(Len(rela_table) + 1)
      /\ StoredBelow(i)
      /\ global_relocations \in [1 .. MaxRelocations -> [address : Int, value : Int]]
  BY <1>1 DEF StartInv, StartTypeOK
<1>3. global_relocations' =
        [global_relocations EXCEPT ![i] =
           [address |-> Base + rela_table[i].r_offset, value |-> Virtual(i)]]
  BY <1>1, <1>2, AllRelocated DEF Record, Entry, Virtual
<1>4. StartTypeOK'
  <2>1. [address |-> Base + rela_table[i].r_offset, value |-> Virtual(i)]
          \in [address : Int, value : Int]
    BY <1>1, RelaTypes, StartAssumption
  <2> QED
    BY <1>1, <1>2, <1>3, <2>1 DEF StartTypeOK
<1>5. RelocatedBelow(Len(rela_table) + 1)'
  BY <1>1, <1>2 DEF RelocatedBelow, RelaKeys, Physical
<1>6. StoredBelow(i)'
  <2> SUFFICES ASSUME NEW k \in 1 .. MaxRelocations
               PROVE  global_relocations'[k] =
                        IF k < i + 1 THEN [address |-> Base + rela_table[k].r_offset,
                                           value   |-> Virtual(k)]
                                     ELSE NoRelocation
    BY <1>1 DEF StoredBelow, Virtual, Physical
  <2>1. CASE k = i
    BY <1>1, <1>2, <1>3, <2>1
  <2>2. CASE k # i
    <3>1. k < i + 1 <=> k < i
      BY <1>1, <2>2
    <3>2. global_relocations'[k] = global_relocations[k]
      BY <1>2, <1>3, <2>2
    <3> QED
      BY <1>2, <3>1, <3>2 DEF StoredBelow
  <2> QED
    BY <2>1, <2>2
<1>7. /\ i' <= Len(rela_table') + 1 /\ i' <= MaxRelocations + 1
  BY <1>1, StartAssumption DEF RelaKeys
<1>8. Unlisted'
  BY <1>1 DEF StartInv, Unlisted, RelaKeys
<1> QED
  BY <1>1, <1>4, <1>5, <1>6, <1>7, <1>8 DEF StartInv

(* Steps that only go on to the next part of _start.                       *)
LEMMA PhasePreserves ==
  StartInv /\ (RecordPastTheEnd \/ Relocated \/ KernelInit) => StartInv'
<1> SUFFICES ASSUME StartInv, RecordPastTheEnd \/ Relocated \/ KernelInit
             PROVE  StartInv'
  OBVIOUS
<1>1. /\ StartTypeOK /\ Len(rela_table) \in Nat /\ i \in Nat \ {0}
      /\ i <= Len(rela_table) + 1
      /\ UNCHANGED <<rela_table, word, global_relocations>>
  BY RelaTypes DEF StartInv, StartTypeOK, RecordPastTheEnd, Relocated, KernelInit
<1>2. /\ StartTypeOK' /\ Unlisted' /\ (i <= Len(rela_table) + 1)'
  BY <1>1 DEF StartInv, StartTypeOK, Unlisted, RelaKeys, RecordPastTheEnd,
              Relocated, KernelInit
<1>3. CASE RecordPastTheEnd
  BY <1>2, <1>3 DEF StartInv, RecordPastTheEnd
<1>4. CASE Relocated
  <2>1. /\ phase = "record" /\ phase' = "init" /\ i = Len(rela_table) + 1
        /\ RelocatedBelow(Len(rela_table) + 1) /\ StoredBelow(Len(rela_table) + 1)
        /\ Len(rela_table) <= MaxRelocations
    BY <1>1, <1>4, StartAssumption DEF Relocated, StartInv
  <2>2. /\ RelocatedBelow(Len(rela_table) + 1)' /\ StoredBelow(Len(rela_table) + 1)'
    BY <1>1, <2>1 DEF RelocatedBelow, StoredBelow, RelaKeys, Physical, Virtual
  <2> QED
    BY <1>1, <1>2, <2>1, <2>2 DEF StartInv
<1>5. CASE KernelInit
  <2>1. /\ phase = "init" /\ phase' = "shift" /\ i' = 1
        /\ RelocatedBelow(Len(rela_table) + 1) /\ StoredBelow(Len(rela_table) + 1)
        /\ Len(rela_table) <= MaxRelocations
    BY <1>5 DEF KernelInit, StartInv
  <2>2. StoredBelow(Len(rela_table) + 1)'
    BY <1>1, <2>1 DEF StoredBelow, Physical, Virtual
  <2>3. ShiftedBelow(i)'
    <3>1. \A k \in RelaKeys : ~ (k < 1) /\ word[rela_table[k].r_offset] = Physical(k)
      BY <1>1, <2>1, AllRelocated DEF RelaKeys
    <3> QED
      BY <1>1, <2>1, <3>1 DEF ShiftedBelow, RelaKeys, Physical
  <2> QED
    BY <1>1, <1>2, <2>1, <2>2, <2>3 DEF StartInv
<1> QED
  BY <1>3, <1>4, <1>5

(* The store says which word to write, up to the last entry.               *)
LEMMA StoredIsEntry ==
  ASSUME StartInv, phase = "shift"
  PROVE  /\ Stored <=> i \in RelaKeys
         /\ i \in RelaKeys =>
              /\ global_relocations[i].address - Base = rela_table[i].r_offset
              /\ global_relocations[i].value = Virtual(i)
<1>1. /\ StartTypeOK /\ Len(rela_table) \in Nat /\ i \in Nat \ {0}
      /\ i <= Len(rela_table) + 1 /\ Len(rela_table) <= MaxRelocations
      /\ StoredBelow(Len(rela_table) + 1)
      /\ MaxRelocations \in Nat /\ Base \in Nat \ {0}
  BY RelaTypes, StartAssumption DEF StartInv, StartTypeOK
<1>2. CASE i \in RelaKeys
  <2>1. /\ i \in 1 .. MaxRelocations /\ i < Len(rela_table) + 1
    BY <1>1, <1>2 DEF RelaKeys
  <2>2. /\ global_relocations[i].address = Base + rela_table[i].r_offset
        /\ global_relocations[i].value = Virtual(i)
    <3>1. global_relocations[i] = [address |-> Base + rela_table[i].r_offset,
                                   value   |-> Virtual(i)]
      BY <1>1, <2>1 DEF StoredBelow
    <3> QED
      BY <3>1
  <2> QED
    BY <1>1, <1>2, <2>1, <2>2, RelaTypes DEF Stored
<1>3. CASE i \notin RelaKeys
  <2>1. i = Len(rela_table) + 1
    BY <1>1, <1>3 DEF RelaKeys
  <2>2. i \in 1 .. MaxRelocations => global_relocations[i].address = 0
    <3>1. i \in 1 .. MaxRelocations => global_relocations[i] = NoRelocation
      <4>1. ~ (i < Len(rela_table) + 1)
        BY <1>1, <2>1
      <4> QED
        BY <1>1, <4>1 DEF StoredBelow
    <3> QED
      BY <3>1 DEF NoRelocation
  <2> QED
    BY <1>1, <1>3, <2>2 DEF Stored
<1> QED
  BY <1>2, <1>3

(* shift_to_va writes one word after another, each once.                   *)
LEMMA ShiftPreserves == StartInv /\ ShiftToVA => StartInv'
<1> SUFFICES ASSUME StartInv, ShiftToVA PROVE StartInv'
  OBVIOUS
<1>1. /\ StartTypeOK /\ phase = "shift" /\ phase' = "shift"
      /\ i \in RelaKeys /\ i \in Nat /\ i' = i + 1
      /\ UNCHANGED <<rela_table, global_relocations>>
      /\ Len(rela_table) \in Nat
      /\ word' = [word EXCEPT ![rela_table[i].r_offset] = Virtual(i)]
      /\ word \in [Offsets -> Int]
  BY StoredIsEntry, RelaTypes DEF ShiftToVA, StartInv, StartTypeOK, RelaKeys
<1>2. StartTypeOK'
  BY <1>1, RelaTypes DEF StartTypeOK
<1>3. Unlisted'
  BY <1>1, RelaTypes DEF StartInv, Unlisted, RelaKeys
<1>4. StoredBelow(Len(rela_table) + 1)'
  BY <1>1 DEF StartInv, StoredBelow, Virtual, Physical
<1>5. ShiftedBelow(i)'
  <2> SUFFICES ASSUME NEW k \in RelaKeys
               PROVE  word'[rela_table[k].r_offset] =
                        IF k < i + 1 THEN Virtual(k) ELSE Physical(k)
    BY <1>1 DEF ShiftedBelow, RelaKeys, Virtual, Physical
  <2>1. word[rela_table[k].r_offset] = IF k < i THEN Virtual(k) ELSE Physical(k)
    BY <1>1 DEF StartInv, ShiftedBelow
  <2>2. k \in Nat
    BY DEF RelaKeys
  <2>3. CASE k = i
    BY <1>1, <2>3, RelaTypes
  <2>4. CASE k # i
    <3>1. word'[rela_table[k].r_offset] = word[rela_table[k].r_offset]
      BY <1>1, <2>4, RelaTypes
    <3>2. k < i + 1 <=> k < i
      BY <1>1, <2>2, <2>4
    <3> QED
      BY <2>1, <3>1, <3>2
  <2> QED
    BY <2>3, <2>4
<1> QED
  BY <1>1, <1>2, <1>3, <1>4, <1>5 DEF StartInv, RelaKeys

(* It stops when all are written.                                          *)
LEMMA KernelMainPreserves == StartInv /\ KernelMain => StartInv'
<1> SUFFICES ASSUME StartInv, KernelMain PROVE StartInv'
  OBVIOUS
<1>1. /\ StartTypeOK /\ phase = "shift" /\ phase' = "main"
      /\ i = Len(rela_table) + 1 /\ Len(rela_table) \in Nat
      /\ ShiftedBelow(Len(rela_table) + 1)
      /\ UNCHANGED <<rela_table, i, word, global_relocations>>
  BY StoredIsEntry, RelaTypes DEF KernelMain, StartInv, StartTypeOK, RelaKeys
<1>2. StartTypeOK' /\ Unlisted' /\ ShiftedBelow(Len(rela_table) + 1)'
  BY <1>1 DEF StartInv, StartTypeOK, Unlisted, ShiftedBelow, RelaKeys,
              Virtual, Physical
<1> QED
  BY <1>1, <1>2 DEF StartInv

(* Whatever the VMM and the generator do, the guest's words stay.          *)
LEMMA NextStartInv == StartInv /\ [MachineNext]_vars => StartInv'
<1> SUFFICES ASSUME StartInv, [MachineNext]_vars PROVE StartInv'
  OBVIOUS
<1>1. CASE UNCHANGED start
  <2>1. UNCHANGED <<phase, rela_table, i, word, global_relocations>>
    BY <1>1 DEF start
  <2> QED
    BY <2>1 DEF StartInv, StartTypeOK, Unlisted, RelocatedBelow, StoredBelow,
                ShiftedBelow, RelaKeys, Physical, Virtual
<1>2. CASE StartNext
  BY <1>2, RelocatePreserves, ClearStorePreserves, RecordPreserves,
     PhasePreserves, ShiftPreserves, KernelMainPreserves DEF StartNext
<1> QED
  BY <1>1, <1>2
     DEF MachineNext, Generate, VmmStep, KernelStarts, GetLost, GuestStops, vars

(* Each relocated word of the kernel is the address of its symbol, a       *)
(* physical one while kernel_init runs and a virtual one in kernel_main,   *)
(* and no other word of the image has changed.                             *)
THEOREM WordsAreRight == MachineSpec => []WordsFollowKernel
<1>1. StartInv => WordsFollowKernel
  <2> SUFFICES ASSUME StartInv, phase \in {"init", "main"}
               PROVE  WordsFollowKernel
    BY DEF WordsFollowKernel
  <2> DEFINE base == IF phase = "init" THEN Base ELSE KernelBase
  <2>1. ASSUME NEW k \in 1 .. Len(rela_table), rela_table[k].kind \in Handled
        PROVE  word[rela_table[k].r_offset] =
                 base + rela_table[k].st_value + rela_table[k].r_addend
    <3>1. /\ k \in RelaKeys /\ k < Len(rela_table) + 1
          /\ rela_table[k].st_value \in Nat /\ rela_table[k].r_addend \in Int
      BY RelaTypes DEF RelaKeys, StartInv, Rela
    <3>2. CASE phase = "init"
      BY <2>1, <3>1, <3>2, AllRelocated DEF StartInv, Physical
    <3>3. CASE phase = "main"
      <4>1. word[rela_table[k].r_offset] = Virtual(k)
        BY <3>1, <3>3 DEF StartInv, ShiftedBelow
      <4> QED
        BY <2>1, <3>1, <3>3, <4>1, StartAssumption, SMTT(30) DEF Virtual, Physical
    <3> QED
      BY <3>2, <3>3
  <2> QED
    BY <2>1 DEF WordsFollowKernel, StartInv, Unlisted, RelaKeys
<1> QED
  BY <1>1, InitStartInv, NextStartInv, PTL DEF MachineSpec
-----------------------------------------------------------------------------
(* The image generator.                                                    *)

(* A set of numbers without a least one is empty: how what a loop has      *)
(* computed is shown for every number of turns.                            *)
LEMMA NoLeast ==
  ASSUME NEW S \in SUBSET Nat,
         \A n \in S : \E m \in S : m < n
  PROVE  S = {}
<1> DEFINE R == OpToRel(<, Nat)
<1>1. IsWellFoundedOn(R, Nat)
  BY NatLessThanWellFounded
<1>2. ASSUME NEW k \in Nat, NEW j \in Nat, j < k
      PROVE  <<j, k>> \in R
  BY <1>2 DEF OpToRel
<1> HIDE DEF R
<1>3. ASSUME S # {} PROVE FALSE
  <2>1. PICK k \in S : \A j \in S : ~ (<<j, k>> \in R)
    BY <1>1, <1>3, WFMin
  <2>2. PICK m \in S : m < k
    OBVIOUS
  <2> QED
    BY <1>2, <2>1, <2>2
<1> QED
  BY <1>3

(* Its headers are there.                                                  *)
Phdrs == Phdr \in Seq(Segment) /\ Phdr # << >>

(* The loop does what it says: the recursive definition of Highest defines *)
(* a function.                                                             *)
LEMMA HighestSteps ==
  ASSUME Phdrs
  PROVE  Highest = [k \in 0 .. Count |->
                      IF k = 0 THEN 0
                      ELSE IF Phdr[k].p_vaddr > Highest[k - 1]
                           THEN Phdr[k].p_vaddr + Phdr[k].p_memsz
                           ELSE Highest[k - 1]]
<1> DEFINE Next1(k, h) == IF Phdr[k].p_vaddr > h[k - 1]
                         THEN Phdr[k].p_vaddr + Phdr[k].p_memsz
                         ELSE h[k - 1]
           Is(h, n) == h = [k \in 0 .. n |-> IF k = 0 THEN 0 ELSE Next1(k, h)]
           Missing == {n \in 0 .. Count : \A h : ~ Is(h, n)}
<1>1. Count \in Nat
  BY DEF Phdrs, Phdr, Count
<1>2. ASSUME NEW n \in Missing PROVE \E m \in Missing : m < n
  <2>1. n \in 0 .. Count /\ n # 0
    <3>1. Is([k \in 0 .. 0 |-> 0], 0)
      OBVIOUS
    <3> QED
      BY <3>1, <1>1
  <2>2. ASSUME n - 1 \notin Missing PROVE FALSE
    <3>1. PICK h : Is(h, n - 1)
      BY <2>1, <2>2, <1>1
    <3> DEFINE g == [k \in 0 .. n |-> IF k < n THEN h[k] ELSE Next1(n, h)]
    <3>2. \A k \in 0 .. n - 1 : g[k] = h[k]
      BY <2>1, <1>1
    <3>3. ASSUME NEW k \in 0 .. n
          PROVE  g[k] = IF k = 0 THEN 0 ELSE Next1(k, g)
      <4>1. CASE k = 0
        BY <4>1, <3>1, <3>2, <2>1, <1>1
      <4>2. CASE k # 0 /\ k < n
        <5>1. k \in 0 .. n - 1 /\ k - 1 \in 0 .. n - 1
          BY <4>2, <1>1, <2>1
        <5>2. h[k] = Next1(k, h)
          BY <5>1, <3>1, <4>2
        <5>3. g[k] = h[k] /\ g[k - 1] = h[k - 1]
          BY <5>1, <3>2
        <5> QED
          BY <4>2, <5>2, <5>3
      <4>3. CASE k = n
        <5>1. n - 1 \in 0 .. n - 1
          BY <1>1, <2>1
        <5>2. g[n] = Next1(n, h)
          BY <2>1, <1>1
        <5>3. g[n - 1] = h[n - 1]
          BY <5>1, <3>2
        <5> QED
          BY <4>3, <5>2, <5>3, <2>1
      <4> QED
        BY <4>1, <4>2, <4>3, <2>1, <1>1
    <3>4. Is(g, n)
      <4>1. g = [k \in 0 .. n |-> g[k]]
        OBVIOUS
      <4> HIDE DEF g
      <4> QED
        BY <4>1, <3>3
    <3> QED
      BY <3>4
  <2>3. n - 1 < n
    BY <2>1, <1>1
  <2> HIDE DEF Missing
  <2> QED
    BY <2>2, <2>3
<1>3. Missing = {}
  <2>1. Missing \in SUBSET Nat
    BY <1>1
  <2> QED
    BY <2>1, <1>2, NoLeast
<1>4. \E h : Is(h, Count)
  <2> HIDE DEF Is
  <2>1. Count \in 0 .. Count
    BY <1>1
  <2> QED
    BY <2>1, <1>3
<1> QED
  BY <1>4 DEF Highest

EndOf(k) == Phdr[k].p_vaddr + Phdr[k].p_memsz

(* Of a kernel that linker.ld.static describes, in the terms of its        *)
(* headers.                                                                *)
LEMMA LinkedKernel ==
  ASSUME elf \in Elfs
  PROVE  /\ Phdrs /\ Count \in Nat \ {0} /\ Len(elf.content) \in Nat
         /\ \A k \in 1 .. Count :
              /\ Phdr[k].p_offset \in Nat /\ Phdr[k].p_vaddr \in Nat
              /\ Phdr[k].p_filesz \in Nat /\ Phdr[k].p_memsz \in Nat
              /\ Phdr[k].p_offset = Phdr[k].p_vaddr - Lowest
              /\ Phdr[k].p_filesz <= Phdr[k].p_memsz
              /\ Phdr[k].p_offset + Phdr[k].p_filesz <= Len(elf.content)
         /\ \A j, k \in 1 .. Count : j < k => EndOf(j) <= Phdr[k].p_vaddr
         /\ \A j \in 1 .. Count - 1 :
              Phdr[j].p_vaddr = 0 \/ EndOf(j) < Phdr[Count].p_vaddr
         /\ Phdr[1].p_offset = 0 /\ Lowest = Phdr[1].p_vaddr
         /\ Phdr[Count].p_vaddr > 0 /\ Lowest = 0
         /\ \A v \in elf.user_binary : \E k \in 1 .. Count :
              v \in Phdr[k].p_vaddr .. Phdr[k].p_vaddr + Phdr[k].p_filesz - 1
         /\ elf.e_shoff \notin elf.user_binary
         /\ elf.e_shoff \in 0 .. Len(elf.content) - 1
         /\ elf.e_shoff < Phdr[Count].p_offset + Phdr[Count].p_memsz
         /\ elf.content \in Seq(Contents)
         /\ Lowest \in Nat /\ EndOf(Count) \in Nat
<1>1. Phdrs /\ Count \in Nat \ {0} /\ Len(elf.content) \in Nat
      /\ elf.content \in Seq(Contents)
      /\ elf.e_shoff \in 0 .. Len(elf.content) - 1
  BY GeneratorAssumption, EmptySeq, LenProperties DEF Phdrs, Phdr, Count
<1>2. \A k \in 1 .. Count : Phdr[k] \in Segment
  BY <1>1, ElementOfSeq DEF Phdrs, Count, Phdr
<1>3. \A k \in 1 .. Count :
        /\ Phdr[k].p_offset \in Nat /\ Phdr[k].p_vaddr \in Nat
        /\ Phdr[k].p_filesz \in Nat /\ Phdr[k].p_memsz \in Nat
  BY <1>2 DEF Segment
<1>4. InPlace(elf)
  BY GeneratorAssumption
<1>5. /\ \A k \in 1 .. Count :
           /\ Phdr[k].p_offset = Phdr[k].p_vaddr - Phdr[1].p_vaddr
           /\ Phdr[k].p_filesz <= Phdr[k].p_memsz
           /\ Phdr[k].p_offset + Phdr[k].p_filesz <= Len(elf.content)
      /\ \A j, k \in 1 .. Count : j < k => EndOf(j) <= Phdr[k].p_vaddr
      /\ \A j \in 1 .. Count - 1 :
           Phdr[j].p_vaddr = 0 \/ EndOf(j) < Phdr[Count].p_vaddr
      /\ Phdr[1].p_offset = 0 /\ Phdr[1].p_vaddr = 0
      /\ Phdr[Count].p_vaddr > 0
      /\ \A v \in elf.user_binary : \E k \in 1 .. Count :
           v \in Phdr[k].p_vaddr .. Phdr[k].p_vaddr + Phdr[k].p_filesz - 1
      /\ elf.e_shoff \notin elf.user_binary
      /\ elf.e_shoff < Phdr[Count].p_offset + Phdr[Count].p_memsz
  BY <1>4 DEF InPlace, Phdr, Count, EndOf
<1>6. Lowest = Phdr[1].p_vaddr
  <2> DEFINE V == {Phdr[k].p_vaddr : k \in 1 .. Count}
  <2>0. 1 \in 1 .. Count
    BY <1>1
  <2>1. Phdr[1].p_vaddr \in V
    BY <2>0
  <2>2. \A k \in 1 .. Count : Phdr[1].p_vaddr <= Phdr[k].p_vaddr
    <3> TAKE k \in 1 .. Count
    <3>1. Phdr[k].p_offset = Phdr[k].p_vaddr - Phdr[1].p_vaddr
      BY <1>5
    <3> QED
      BY <3>1, <1>3, <2>0
  <2>3. ASSUME NEW v \in V, \A k \in 1 .. Count : v <= Phdr[k].p_vaddr
        PROVE  v = Phdr[1].p_vaddr
    <3>1. PICK k \in 1 .. Count : v = Phdr[k].p_vaddr
      OBVIOUS
    <3>2. v <= Phdr[1].p_vaddr /\ Phdr[1].p_vaddr <= v /\ v \in Nat
             /\ Phdr[1].p_vaddr \in Nat
      BY <3>1, <2>3, <2>2, <2>0, <1>3
    <3> QED
      BY <3>2
  <2> QED
    BY <2>1, <2>2, <2>3 DEF Lowest
<1>7. Lowest \in Nat /\ EndOf(Count) \in Nat
  BY <1>1, <1>3, <1>6 DEF EndOf
<1> QED
  BY <1>1, <1>3, <1>5, <1>6, <1>7

(* The loop over the segments ends with the end of the last one.           *)
LEMMA HighestIsLast ==
  ASSUME elf \in Elfs
  PROVE  HighestVaddr = EndOf(Count)
<1>1. /\ Count \in Nat \ {0}
      /\ \A k \in 1 .. Count : Phdr[k].p_vaddr \in Nat /\ EndOf(k) \in Nat
  BY LinkedKernel DEF EndOf
<1>2. /\ Highest[0] = 0
      /\ \A k \in 1 .. Count :
           Highest[k] = IF Phdr[k].p_vaddr > Highest[k - 1] THEN EndOf(k)
                                                           ELSE Highest[k - 1]
  <2> DEFINE F(k) == IF k = 0 THEN 0
                     ELSE IF Phdr[k].p_vaddr > Highest[k - 1] THEN EndOf(k)
                                                             ELSE Highest[k - 1]
  <2>1. Highest = [k \in 0 .. Count |-> F(k)]
    BY LinkedKernel, HighestSteps DEF EndOf
  <2>2. \A k \in 0 .. Count : Highest[k] = F(k)
    <3> HIDE DEF F
    <3> QED
      BY <2>1
  <2> QED
    BY <2>2, <1>1
<1> DEFINE Seen(n) == Highest[n] = 0 \/ \E j \in 1 .. n :
                                          Phdr[j].p_vaddr > 0 /\ Highest[n] = EndOf(j)
           Wrong   == {n \in 0 .. Count : ~ Seen(n)}
<1>3. ASSUME NEW n \in Wrong PROVE \E m \in Wrong : m < n
  <2>1. n \in 1 .. Count
    BY <1>1, <1>2
  <2>2. ASSUME Seen(n - 1) PROVE FALSE
    <3>1. Highest[n - 1] >= 0
      BY <2>1, <2>2, <1>1
    <3>2. CASE Phdr[n].p_vaddr > Highest[n - 1]
      <4>1. Highest[n] = EndOf(n) /\ Phdr[n].p_vaddr > 0 /\ n \in 1 .. n
        BY <3>1, <3>2, <2>1, <2>2, <1>1, <1>2
      <4> QED
        BY <4>1
    <3>3. CASE ~ (Phdr[n].p_vaddr > Highest[n - 1])
      <4>1. Highest[n] = Highest[n - 1]
        BY <3>3, <2>1, <1>2
      <4>2. \A j \in 1 .. n - 1 : j \in 1 .. n
        BY <2>1
      <4> QED
        BY <4>1, <4>2, <2>2
    <3> QED
      BY <3>2, <3>3
  <2>3. n - 1 \in 0 .. Count /\ n - 1 < n
    BY <2>1, <1>1
  <2> QED
    BY <2>2, <2>3
<1>4. \A n \in 0 .. Count : Seen(n)
  <2>1. Wrong \in SUBSET Nat
    BY <1>1
  <2>2. Wrong = {}
    <3> HIDE DEF Wrong
    <3> QED
      BY <2>1, <1>3, NoLeast
  <2> QED
    BY <2>2
<1>5. Phdr[Count].p_vaddr > Highest[Count - 1]
  <2>1. Seen(Count - 1)
    BY <1>1, <1>4
  <2>2. ASSUME NEW j \in 1 .. Count - 1, Phdr[j].p_vaddr > 0
        PROVE  EndOf(j) < Phdr[Count].p_vaddr
    <3>1. Phdr[j].p_vaddr # 0
      BY <2>2
    <3> QED
      BY <3>1, LinkedKernel
  <2>3. Phdr[Count].p_vaddr \in Nat /\ Phdr[Count].p_vaddr > 0
    BY <1>1, LinkedKernel
  <2>4. CASE Highest[Count - 1] = 0
    BY <2>3, <2>4
  <2>5. CASE \E j \in 1 .. Count - 1 :
               Phdr[j].p_vaddr > 0 /\ Highest[Count - 1] = EndOf(j)
    <3>1. PICK j \in 1 .. Count - 1 :
                 Phdr[j].p_vaddr > 0 /\ Highest[Count - 1] = EndOf(j)
      BY <2>5
    <3>2. EndOf(j) < Phdr[Count].p_vaddr /\ EndOf(j) \in Nat
      BY <3>1, <2>2, <1>1
    <3> QED
      BY <3>1, <3>2, <2>3
  <2> QED
    BY <2>1, <2>4, <2>5
<1> QED
  BY <1>1, <1>2, <1>5 DEF HighestVaddr

(* The granule of the file where the copy of the segment k ends.           *)
StopOf(k) == Phdr[k].p_offset + ToWrite(k)

(* One copy ends where the next begins, and the last behind the headers.   *)
LEMMA CopiesMeet ==
  ASSUME elf \in Elfs, NEW k \in 1 .. Count
  PROVE  /\ StopOf(k) \in Nat
         /\ Phdr[k].p_offset + Phdr[k].p_filesz <= StopOf(k)
         /\ StopOf(k) <= Len(elf.content) /\ StopOf(k) <= MapSize
         /\ k < Count => StopOf(k) = Phdr[k + 1].p_offset
         /\ k = Count => elf.e_shoff < StopOf(k)
<1> DEFINE C == Count
           last == Phdr[C]
           len == Len(elf.content)
<1>1. /\ C \in Nat \ {0} /\ len \in Nat /\ Lowest \in Nat /\ k \in Nat
      /\ elf.e_shoff \in 0 .. len - 1
      /\ elf.e_shoff < last.p_offset + last.p_memsz
  BY LinkedKernel
<1>2. \A j \in 1 .. C :
        /\ Phdr[j].p_offset \in Nat /\ Phdr[j].p_vaddr \in Nat
        /\ Phdr[j].p_filesz \in Nat /\ Phdr[j].p_memsz \in Nat
        /\ Phdr[j].p_offset = Phdr[j].p_vaddr - Lowest
        /\ Phdr[j].p_filesz <= Phdr[j].p_memsz
        /\ Phdr[j].p_offset + Phdr[j].p_filesz <= len
  BY LinkedKernel
<1>3. MapSize = last.p_offset + last.p_memsz
  <2>1. MapSize = (last.p_vaddr + last.p_memsz) - Lowest
    BY HighestIsLast DEF MapSize, EndOf
  <2>2. C \in 1 .. C
    BY <1>1
  <2> QED
    BY <2>1, <2>2, <1>1, <1>2, SMTT(30)
<1>4. \A j, l \in 1 .. C : j < l => Phdr[j].p_vaddr + Phdr[j].p_memsz <= Phdr[l].p_vaddr
  BY LinkedKernel DEF EndOf
<1>5. CASE k < Count
  <2>1. k + 1 \in 1 .. C /\ C \in 1 .. C /\ k < k + 1
    BY <1>5, <1>1
  <2>2. ToWrite(k) = Phdr[k + 1].p_vaddr - Phdr[k].p_vaddr
    BY <1>5, <1>1 DEF ToWrite
  <2>3. StopOf(k) = Phdr[k + 1].p_offset
    BY <2>1, <2>2, <1>1, <1>2, SMTT(30) DEF StopOf
  <2>4. Phdr[k].p_vaddr + Phdr[k].p_memsz <= Phdr[k + 1].p_vaddr
    BY <2>1, <1>4
  <2>5. Phdr[k + 1].p_vaddr <= last.p_vaddr
    <3>1. CASE k + 1 = C
      BY <3>1, <2>1, <1>2
    <3>2. CASE k + 1 < C
      <4>1. Phdr[k + 1].p_vaddr + Phdr[k + 1].p_memsz <= last.p_vaddr
        BY <3>2, <2>1, <1>4
      <4>2. /\ Phdr[k + 1].p_vaddr \in Nat /\ Phdr[k + 1].p_memsz \in Nat
            /\ last.p_vaddr \in Nat
        BY <2>1, <1>2
      <4> HIDE DEF last
      <4> QED
        BY <4>1, <4>2
    <3> QED
      BY <3>1, <3>2, <2>1, <1>1
  <2>a. /\ Phdr[k].p_offset \in Nat /\ Phdr[k].p_vaddr \in Nat
        /\ Phdr[k].p_filesz \in Nat /\ Phdr[k].p_memsz \in Nat
        /\ Phdr[k].p_offset = Phdr[k].p_vaddr - Lowest
        /\ Phdr[k].p_filesz <= Phdr[k].p_memsz
    BY <1>2
  <2>b. /\ Phdr[k + 1].p_offset \in Nat /\ Phdr[k + 1].p_vaddr \in Nat
        /\ Phdr[k + 1].p_filesz \in Nat
        /\ Phdr[k + 1].p_offset = Phdr[k + 1].p_vaddr - Lowest
        /\ Phdr[k + 1].p_offset + Phdr[k + 1].p_filesz <= len
    BY <2>1, <1>2
  <2> HIDE DEF C, last, len
  <2>6. /\ Phdr[k].p_offset + Phdr[k].p_filesz <= Phdr[k + 1].p_offset
    BY <2>4, <2>a, <2>b, <1>1
  <2>7. Phdr[k + 1].p_offset <= len /\ Phdr[k + 1].p_offset \in Nat
    BY <2>b, <1>1
  <2>8. Phdr[k + 1].p_offset <= MapSize
    BY <2>1, <2>5, <1>1, <1>2, <1>3 DEF last
  <2> QED
    BY <2>3, <2>6, <2>7, <2>8, <1>5, <1>1 DEF len, C
<1>6. CASE k = Count
  <2>1. /\ last.p_offset \in Nat /\ last.p_memsz \in Nat /\ last.p_filesz \in Nat
        /\ last.p_filesz <= last.p_memsz
        /\ last.p_offset + last.p_filesz <= len
    BY <1>6, <1>1, <1>2
  <2>2. ToWrite(k) = IF len - last.p_offset < last.p_memsz THEN len - last.p_offset
                                                          ELSE last.p_memsz
    <3>1. ~ (k < Count)
      BY <1>6, <1>1
    <3>2. CASE len - last.p_offset < last.p_memsz
      BY <1>6, <3>1, <3>2, <2>1, <1>1 DEF ToWrite
    <3>3. CASE ~ (len - last.p_offset < last.p_memsz)
      <4>1. len - last.p_offset >= last.p_memsz
        BY <3>3, <2>1, <1>1
      <4> QED
        BY <1>6, <3>1, <3>3, <4>1 DEF ToWrite
    <3> QED
      BY <3>2, <3>3
  <2>3. StopOf(k) = last.p_offset + ToWrite(k)
    BY <1>6 DEF StopOf
  <2>4. Phdr[k] = last
    BY <1>6
  <2>5. MapSize = last.p_offset + last.p_memsz
    BY <1>3
  <2>6. elf.e_shoff \in 0 .. len - 1 /\ len \in Nat
        /\ elf.e_shoff < last.p_offset + last.p_memsz
    BY <1>1
  <2> HIDE DEF last, len
  <2>7. /\ StopOf(k) \in Nat
        /\ last.p_offset + last.p_filesz <= StopOf(k)
        /\ StopOf(k) <= len /\ StopOf(k) <= last.p_offset + last.p_memsz
        /\ elf.e_shoff < StopOf(k)
    BY <2>1, <2>2, <2>3, <2>6
  <2>8. ~ (k < Count)
    BY <1>1, <1>6 DEF C
  <2> QED
    BY <2>4, <2>5, <2>7, <2>8 DEF len
<1> QED
  BY <1>1, <1>5, <1>6

(* How far the image is that of the file.                                  *)
Reached == IF copied < Count THEN Phdr[copied + 1].p_offset ELSE StopOf(Count)

(* What a granule of the image is by now: that of the file, with the       *)
(* program over it in user_binary and without the very first byte at last. *)
Patched(g) ==
  [base |-> elf.content[g],
   over |-> IF g - 1 \in elf.user_binary THEN program ELSE "none",
   first_byte |-> IF finished /\ g = 1 THEN "zero" ELSE "kept"]

ImageInv ==
  /\ GeneratorTypeOK
  /\ copied # -1 => /\ Len(file) >= MapSize
                    /\ \A g \in 1 .. Reached : file[g] = Patched(g)
  /\ program # "none" => copied = Count
  /\ finished => program # "none"

(* A granule that was only copied is a granule, as is one that was changed *)
(* afterwards; and it is what Patched says as long as nothing was.         *)
LEMMA PlainTyped == \A c \in Contents : Plain(c) \in Granules
  BY DEF Plain, Granules, Copies

LEMMA ChangedTyped ==
  ASSUME NEW g \in Granules, NEW over \in Copies
  PROVE  /\ [g EXCEPT !.over = over] \in Granules
         /\ [g EXCEPT !.over = over] =
              [base |-> g.base, over |-> over, first_byte |-> g.first_byte]
         /\ [g EXCEPT !.first_byte = "zero"] \in Granules
         /\ [g EXCEPT !.first_byte = "zero"] =
              [base |-> g.base, over |-> g.over, first_byte |-> "zero"]
  BY DEF Granules

LEMMA PlainPatched ==
  ASSUME program = "none", finished = FALSE, NEW g
  PROVE  Patched(g) = Plain(elf.content[g])
  BY DEF Patched, Plain

(* The old file is whatever it is: nothing is promised of it.              *)
LEMMA InitImageInv == GeneratorInit => ImageInv
<1> SUFFICES ASSUME GeneratorInit PROVE ImageInv
  OBVIOUS
<1>1. Count \in Nat
  BY LinkedKernel DEF GeneratorInit
<1>2. elf \in Elfs /\ copied = -1 /\ program = "none" /\ finished = FALSE
  BY DEF GeneratorInit
<1>3. file \in Seq(Granules)
  <2>1. OldImages \subseteq Seq(Granules)
    BY GeneratorAssumption
  <2>2. file \in OldImages
    BY DEF GeneratorInit
  <2> QED
    BY <2>1, <2>2
<1>4. GeneratorTypeOK
  <2>1. copied \in -1 .. Count /\ program \in Copies
    BY <1>1, <1>2 DEF Copies
  <2>2. finished \in BOOLEAN
    BY <1>2
  <2> QED
    BY <1>2, <1>3, <2>1, <2>2 DEF GeneratorTypeOK
<1> QED
  BY <1>2, <1>4 DEF ImageInv

(* The old image, or what of it is behind the new one, stays: a file that  *)
(* was once that long never becomes shorter.                               *)
LEMMA ZerosWritten ==
  ASSUME ImageInv, WriteZeros
  PROVE  /\ file' \in Seq(Granules)
         /\ Len(file') >= MapSize /\ Len(file') >= Len(file)
<1>1. /\ elf \in Elfs /\ file \in Seq(Granules) /\ Len(file) \in Nat
      /\ Plain(Zero) \in Granules
  BY LenProperties, GeneratorAssumption, PlainTyped DEF ImageInv, GeneratorTypeOK
<1>2. MapSize \in Nat
  <2>1. Count \in 1 .. Count
    BY <1>1, LinkedKernel
  <2>2. StopOf(Count) \in Nat /\ StopOf(Count) <= MapSize
    BY <1>1, <2>1, CopiesMeet
  <2>3. MapSize \in Int
    BY <1>1, HighestIsLast, LinkedKernel DEF MapSize
  <2> QED
    BY <2>2, <2>3
<1> DEFINE zeros == [b \in 1 .. MapSize |-> Plain(Zero)]
           rest  == SubSeq(file, MapSize + 1, Len(file))
<1>3. zeros \in Seq(Granules) /\ Len(zeros) = MapSize
  <2>1. zeros \in [1 .. MapSize -> Granules]
    BY <1>1
  <2> QED
    BY <2>1, <1>2
<1>4. /\ rest \in Seq(Granules)
      /\ Len(rest) = IF MapSize < Len(file) THEN Len(file) - MapSize ELSE 0
  BY <1>1, <1>2
<1> HIDE DEF zeros, rest
<1>5. zeros \o rest \in Seq(Granules) /\ Len(zeros \o rest) = Len(zeros) + Len(rest)
  BY <1>3, <1>4, ConcatProperties
<1>6. file' = zeros \o rest
  BY DEF WriteZeros, zeros, rest
<1> QED
  BY <1>1, <1>2, <1>3, <1>4, <1>5, <1>6

(* Each turn of the copying loop begins where the last one stopped, and    *)
(* copies to where a granule is in the file.                               *)
LEMMA Copied ==
  ASSUME ImageInv, CopyToImage
  PROVE  ImageInv' /\ Len(file') = Len(file)
<1>1. /\ elf \in Elfs /\ file \in Seq(Granules) /\ Len(file) \in Nat
      /\ copied \in 0 .. Count - 1 /\ copied' = copied + 1
      /\ UNCHANGED <<elf, program, finished>>
      /\ Len(file) >= MapSize
      /\ \A g \in 1 .. Reached : file[g] = Patched(g)
  BY LenProperties DEF ImageInv, GeneratorTypeOK, CopyToImage
<1>0. program = "none" /\ finished = FALSE
  <2>1. copied # Count
    BY <1>1, LinkedKernel
  <2> QED
    BY <2>1 DEF ImageInv, GeneratorTypeOK
<1> DEFINE k == copied + 1
<1>2. k \in 1 .. Count /\ Count \in Nat /\ copied \in Nat
  BY <1>1, LinkedKernel
<1>3. /\ StopOf(k) \in Nat /\ StopOf(k) <= Len(elf.content) /\ StopOf(k) <= MapSize
      /\ k < Count => StopOf(k) = Phdr[k + 1].p_offset
  <2> HIDE DEF k
  <2> QED
    BY <1>1, <1>2, CopiesMeet
<1>4. /\ Phdr[k].p_offset \in Nat /\ Phdr[k].p_offset = Phdr[k].p_vaddr - Lowest
      /\ Phdr[k].p_vaddr \in Nat /\ Lowest \in Nat /\ Len(elf.content) \in Nat
      /\ elf.content \in Seq(Contents)
  <2> HIDE DEF k
  <2> QED
    BY <1>1, <1>2, LinkedKernel
<1> DEFINE offset == Phdr[k].p_offset
<1>5. ToWrite(k) = StopOf(k) - offset
  <2>1. ToWrite(k) \in Int
    <3>1. CASE k < Count
      <4>1. k + 1 \in 1 .. Count
        BY <3>1, <1>2
      <4>2. Phdr[k + 1].p_vaddr \in Nat
        BY <4>1, <1>1, LinkedKernel
      <4>3. Phdr[k].p_vaddr \in Nat
        BY <1>4
      <4> HIDE DEF k
      <4>4. ToWrite(k) = Phdr[k + 1].p_vaddr - Phdr[k].p_vaddr
        BY <3>1, <1>2 DEF ToWrite
      <4> QED
        BY <4>2, <4>3, <4>4
    <3>2. CASE ~ (k < Count)
      <4>1. k = Count /\ Phdr[k].p_memsz \in Nat
        BY <3>2, <1>1, <1>2, LinkedKernel
      <4> DEFINE left == Len(elf.content) - Phdr[k].p_offset
      <4>2. left \in Int
        BY <1>4
      <4>3. ToWrite(k) = IF left < Phdr[k].p_memsz THEN left ELSE Phdr[k].p_memsz
        <5> HIDE DEF k
        <5>1. CASE left < Phdr[k].p_memsz
          BY <3>2, <4>1, <4>2, <5>1 DEF ToWrite
        <5>2. CASE left >= Phdr[k].p_memsz
          BY <3>2, <4>1, <4>2, <5>2 DEF ToWrite
        <5> QED
          BY <4>1, <4>2, <5>1, <5>2
      <4> HIDE DEF left, k
      <4> QED
        BY <4>1, <4>2, <4>3
    <3> QED
      BY <3>1, <3>2
  <2>2. StopOf(k) = offset + ToWrite(k)
    BY DEF StopOf
  <2>3. offset \in Nat
    BY <1>4
  <2> HIDE DEF offset, k
  <2> QED
    BY <2>1, <2>2, <2>3
<1>6. file' = [b \in 1 .. Len(file) |->
                 IF b \in offset + 1 .. StopOf(k) THEN Plain(elf.content[b]) ELSE file[b]]
  <2>1. /\ Phdr[k].p_vaddr - Lowest + 1 = offset + 1
        /\ (Phdr[k].p_vaddr - Lowest + 1) + ToWrite(k) - 1 = StopOf(k)
        /\ \A b \in 1 .. Len(file) :
             offset + b - (Phdr[k].p_vaddr - Lowest + 1) + 1 = b
    <3>1. offset = Phdr[k].p_vaddr - Lowest /\ offset \in Nat
      BY <1>4
    <3>2. StopOf(k) \in Nat /\ ToWrite(k) = StopOf(k) - offset
      BY <1>3, <1>5
    <3> HIDE DEF offset, k
    <3>3. (offset + 1) + (StopOf(k) - offset) - 1 = StopOf(k)
      BY <3>1, <3>2
    <3>4. \A b \in 1 .. Len(file) : offset + b - (offset + 1) + 1 = b
      BY <3>1, <1>1
    <3> QED
      BY <3>1, <3>2, <3>3, <3>4
  <2> QED
    BY <2>1 DEF CopyToImage
<1> HIDE DEF offset
<1>7. file' \in Seq(Granules) /\ Len(file') = Len(file)
  <2>1. \A b \in 1 .. Len(file) : file[b] \in Granules
    BY <1>1, ElementOfSeq
  <2>2. ASSUME NEW b \in 1 .. Len(file), b \in offset + 1 .. StopOf(k)
        PROVE  Plain(elf.content[b]) \in Granules
    <3>1. b \in 1 .. Len(elf.content)
      BY <2>2, <1>3, <1>4
    <3> QED
      BY <3>1, <1>4, ElementOfSeq, PlainTyped
  <2>3. file' \in [1 .. Len(file) -> Granules]
    BY <2>1, <2>2, <1>6
  <2> QED
    BY <2>3, <1>1
<1>8. Reached = offset /\ Reached' = StopOf(k)
  <2>1. Reached = offset
    BY <1>1, <1>2 DEF Reached, offset
  <2>2. StopOf(Count)' = StopOf(Count) /\ Count' = Count /\ Phdr' = Phdr
    BY <1>1 DEF StopOf, ToWrite, Phdr, Count
  <2>3. CASE k < Count
    <3>1. Reached' = Phdr[k + 1].p_offset
      BY <1>1, <2>2, <2>3 DEF Reached
    <3> QED
      BY <3>1, <2>1, <2>3, <1>3
  <2>4. CASE ~ (k < Count)
    <3>1. k = Count
      BY <2>4, <1>2
    <3>2. Reached' = StopOf(Count)
      BY <1>1, <2>2, <2>4 DEF Reached
    <3> QED
      BY <3>1, <3>2, <2>1
  <2> QED
    BY <2>3, <2>4
<1>9. \A g \in 1 .. Reached' : file'[g] = Patched(g)
  <2> SUFFICES ASSUME NEW g \in 1 .. StopOf(k) PROVE file'[g] = Patched(g)
    BY <1>8
  <2>1. g \in 1 .. Len(file)
    BY <1>1, <1>3, <1>4, HighestIsLast, LinkedKernel DEF MapSize
  <2>2. CASE g \in offset + 1 .. StopOf(k)
    BY <2>1, <2>2, <1>0, <1>6, PlainPatched
  <2>3. CASE ~ (g \in offset + 1 .. StopOf(k))
    <3>1. g \in 1 .. Reached
      BY <2>3, <1>3, <1>4, <1>8 DEF offset
    <3> QED
      BY <2>1, <2>3, <3>1, <1>1, <1>6
  <2> QED
    BY <2>2, <2>3
<1>10. MapSize' = MapSize /\ Count' = Count /\ \A g : Patched(g)' = Patched(g)
  BY <1>1 DEF MapSize, HighestVaddr, Highest, Lowest, Phdr, Count, Patched
<1>11. GeneratorTypeOK'
  BY <1>1, <1>2, <1>7, <1>10 DEF GeneratorTypeOK, ImageInv
<1>12. \A g \in 1 .. Reached' : file'[g] = Patched(g)'
  BY <1>9, <1>10
<1> QED
  BY <1>0, <1>1, <1>7, <1>10, <1>11, <1>12 DEF ImageInv

(* The program goes over user_binary, and nothing else changes.            *)
LEMMA ProgramCopied ==
  ASSUME ImageInv, CopyProgram
  PROVE  ImageInv' /\ Len(file') = Len(file)
<1>1. /\ elf \in Elfs /\ file \in Seq(Granules) /\ Len(file) \in Nat
      /\ copied = Count /\ Count \in Nat /\ copied # -1
      /\ UNCHANGED <<elf, copied, finished>>
      /\ program = "none" /\ finished = FALSE
      /\ Len(file) >= MapSize
      /\ \A g \in 1 .. Reached : file[g] = Patched(g)
  BY LenProperties, LinkedKernel DEF ImageInv, GeneratorTypeOK, CopyProgram
<1>2. program' \in Copies /\ program' # "none"
  BY <1>1, GeneratorAssumption DEF CopyProgram, Copies
<1>3. file' = [b \in 1 .. Len(file) |->
                 IF b - 1 \in elf.user_binary
                 THEN [file[b] EXCEPT !.over = program'] ELSE file[b]]
  BY DEF CopyProgram
<1>4. \A b \in 1 .. Len(file) : file[b] \in Granules
  BY <1>1, ElementOfSeq
<1>5. file' \in Seq(Granules) /\ Len(file') = Len(file)
  <2>1. file' \in [1 .. Len(file) -> Granules]
    BY <1>2, <1>3, <1>4, ChangedTyped
  <2> QED
    BY <2>1, <1>1
<1>6. UNCHANGED <<Phdr, Count, MapSize, Reached>>
  BY <1>1 DEF MapSize, HighestVaddr, Highest, Lowest, Phdr, Count, Reached,
              StopOf, ToWrite
<1>7. ASSUME NEW g \in 1 .. Reached
      PROVE  file'[g] = Patched(g)'
  <2>1. Reached \in Nat /\ Reached <= MapSize /\ MapSize \in Int
    <3>1. Count \in 1 .. Count
      BY <1>1, LinkedKernel
    <3>2. Reached = StopOf(Count)
      BY <1>1 DEF Reached
    <3> QED
      BY <3>1, <3>2, <1>1, CopiesMeet, HighestIsLast, LinkedKernel DEF MapSize
  <2>2. g \in 1 .. Len(file)
    BY <2>1, <1>1
  <2>3. file[g] = Plain(elf.content[g]) /\ file[g] \in Granules
    BY <2>2, <1>1, <1>4, PlainPatched
  <2>4. CASE g - 1 \in elf.user_binary
    <3>1. file'[g] = [file[g] EXCEPT !.over = program']
      BY <2>2, <2>4, <1>3
    <3>2. file'[g] = [base |-> file[g].base, over |-> program',
                      first_byte |-> file[g].first_byte]
      BY <3>1, <2>3, <1>2, ChangedTyped
    <3> QED
      BY <3>2, <2>3, <2>4, <1>1 DEF Patched, Plain
  <2>5. CASE g - 1 \notin elf.user_binary
    <3>1. file'[g] = file[g]
      BY <2>2, <2>5, <1>3
    <3> QED
      BY <3>1, <2>3, <2>5, <1>1 DEF Patched, Plain
  <2> QED
    BY <2>4, <2>5
<1>8. GeneratorTypeOK'
  BY <1>1, <1>2, <1>5, <1>6 DEF GeneratorTypeOK, ImageInv
<1> QED
  BY <1>1, <1>2, <1>5, <1>6, <1>7, <1>8 DEF ImageInv

(* The first byte is the last to be written.                               *)
LEMMA FirstByteCleared ==
  ASSUME ImageInv, ClearFirstByte
  PROVE  ImageInv' /\ Len(file') = Len(file)
<1>1. /\ elf \in Elfs /\ file \in Seq(Granules) /\ Len(file) \in Nat
      /\ copied = Count /\ Count \in Nat /\ copied # -1
      /\ UNCHANGED <<elf, copied, program>>
      /\ program \in Copies /\ program # "none"
      /\ finished = FALSE /\ finished' = TRUE
      /\ Len(file) >= MapSize
      /\ \A g \in 1 .. Reached : file[g] = Patched(g)
  BY LenProperties, LinkedKernel DEF ImageInv, GeneratorTypeOK, ClearFirstByte
<1>2. Reached \in Nat \ {0} /\ Reached <= MapSize /\ MapSize \in Int
  <2>1. Count \in 1 .. Count
    BY <1>1, LinkedKernel
  <2>2. Reached = StopOf(Count)
    BY <1>1 DEF Reached
  <2> QED
    BY <2>1, <2>2, <1>1, CopiesMeet, HighestIsLast, LinkedKernel DEF MapSize
<1>3. file \in [1 .. Len(file) -> Granules] /\ 1 \in 1 .. Len(file)
  BY <1>1, <1>2, LenProperties
<1>4. file' = [file EXCEPT ![1] = [file[1] EXCEPT !.first_byte = "zero"]]
  BY DEF ClearFirstByte
<1>5. [file[1] EXCEPT !.first_byte = "zero"] \in Granules
  BY <1>3, <1>1, ChangedTyped
<1>6. file' \in Seq(Granules) /\ Len(file') = Len(file)
  <2>1. file' \in [1 .. Len(file) -> Granules]
    BY <1>3, <1>4, <1>5
  <2> QED
    BY <2>1, <1>1
<1>7. UNCHANGED <<Phdr, Count, MapSize, Reached>>
  BY <1>1 DEF MapSize, HighestVaddr, Highest, Lowest, Phdr, Count, Reached,
              StopOf, ToWrite
<1>8. ASSUME NEW g \in 1 .. Reached
      PROVE  file'[g] = Patched(g)'
  <2>1. g \in 1 .. Len(file) /\ file[g] = Patched(g)
    BY <1>1, <1>2
  <2>2. CASE g = 1
    <3>1. file'[g] = [file[g] EXCEPT !.first_byte = "zero"]
      BY <2>1, <2>2, <1>3, <1>4
    <3>2. file'[g] = [base |-> file[g].base, over |-> file[g].over,
                      first_byte |-> "zero"]
      BY <3>1, <2>1, <1>3, <1>1, ChangedTyped
    <3> QED
      BY <3>2, <2>1, <2>2, <1>1 DEF Patched
  <2>3. CASE g # 1
    <3>1. file'[g] = file[g]
      BY <2>1, <2>3, <1>3, <1>4
    <3> QED
      BY <3>1, <2>1, <2>3, <1>1 DEF Patched
  <2> QED
    BY <2>2, <2>3
<1>9. GeneratorTypeOK'
  BY <1>1, <1>6, <1>7 DEF GeneratorTypeOK, ImageInv
<1> QED
  BY <1>1, <1>6, <1>7, <1>8, <1>9 DEF ImageInv

(* One step of the generator, or of anybody else, on the image.            *)
LEMMA NextImageInv ==
  ASSUME ImageInv, [GeneratorNext]_<<generator, file>>
  PROVE  ImageInv' /\ Len(file') >= Len(file)
<1>0. elf \in Elfs /\ file \in Seq(Granules) /\ Len(file) \in Nat
  BY LenProperties DEF ImageInv, GeneratorTypeOK
<1>1. ASSUME UNCHANGED elf
      PROVE  UNCHANGED <<Phdr, Count, MapSize>> /\ StopOf(Count)' = StopOf(Count)
  BY <1>1 DEF MapSize, HighestVaddr, Highest, Lowest, Phdr, Count, StopOf, ToWrite
<1>2. CASE WriteZeros
  <2>1. UNCHANGED <<elf, program, finished>> /\ copied' = 0 /\ copied = -1
    BY <1>2 DEF WriteZeros
  <2>2. Count \in Nat \ {0} /\ Phdr[1].p_offset = 0
    BY <1>0, LinkedKernel
  <2>3. Reached' = 0
    BY <2>1, <2>2, <1>1 DEF Reached
  <2>4. program = "none" /\ finished = FALSE
    BY <2>1, <2>2 DEF ImageInv, GeneratorTypeOK
  <2>5. GeneratorTypeOK'
    BY <2>1, <2>2, <1>0, <1>1, <1>2, ZerosWritten DEF ImageInv, GeneratorTypeOK
  <2> QED
    BY <2>1, <2>2, <2>3, <2>4, <2>5, <1>0, <1>1, <1>2, ZerosWritten DEF ImageInv
<1>3. CASE CopyToImage
  BY <1>0, <1>3, Copied
<1>4. CASE CopyProgram
  BY <1>0, <1>4, ProgramCopied
<1>5. CASE ClearFirstByte
  BY <1>0, <1>5, FirstByteCleared
<1>6. CASE UNCHANGED <<generator, file>>
  <2>1. UNCHANGED <<elf, copied, program, finished, file>>
    BY <1>6 DEF generator
  <2>2. Reached' = Reached /\ \A g : Patched(g)' = Patched(g)
    BY <2>1, <1>1 DEF Reached, Patched
  <2> QED
    BY <2>1, <2>2, <1>0, <1>1 DEF ImageInv, GeneratorTypeOK
<1> QED
  BY <1>2, <1>3, <1>4, <1>5, <1>6 DEF GeneratorNext

(* When all is copied, no segment ends behind what was copied.             *)
LEMMA AllReached ==
  ASSUME ImageInv, copied = Count
  PROVE  /\ Reached \in Nat /\ Reached <= MapSize
         /\ elf.e_shoff < Reached /\ elf.e_shoff \in Nat
         /\ \A k \in 1 .. Count :
              /\ Phdr[k].p_offset \in Nat /\ Phdr[k].p_filesz \in Nat
              /\ Phdr[k].p_offset + Phdr[k].p_filesz <= Reached
<1>1. /\ elf \in Elfs /\ Count \in Nat \ {0}
  BY LinkedKernel DEF ImageInv, GeneratorTypeOK
<1>2. Reached = StopOf(Count) /\ Reached \in Nat /\ Reached <= MapSize
      /\ elf.e_shoff < Reached
      /\ elf.e_shoff \in Nat
  <2>1. Count \in 1 .. Count
    BY <1>1
  <2>2. Reached = StopOf(Count)
    BY <1>1 DEF Reached
  <2> QED
    BY <2>1, <2>2, <1>1, CopiesMeet, LinkedKernel
<1>3. ASSUME NEW k \in 1 .. Count
      PROVE  Phdr[k].p_offset + Phdr[k].p_filesz <= Reached
  <2>1. CASE k = Count
    BY <2>1, <1>1, <1>2, CopiesMeet
  <2>2. CASE k < Count
    <3>1. /\ Phdr[k].p_offset \in Nat /\ Phdr[k].p_filesz \in Nat
          /\ Phdr[k].p_filesz <= Phdr[k].p_memsz /\ Phdr[k].p_memsz \in Nat
          /\ Phdr[k].p_offset = Phdr[k].p_vaddr - Lowest
          /\ Phdr[k].p_vaddr \in Nat /\ Lowest \in Nat
      BY <1>1, LinkedKernel
    <3>2. Phdr[k].p_vaddr + Phdr[k].p_memsz <= Phdr[Count].p_vaddr
      BY <2>2, <1>1, LinkedKernel, SMTT(30) DEF EndOf
    <3>3. /\ Phdr[Count].p_offset = Phdr[Count].p_vaddr - Lowest
          /\ Phdr[Count].p_vaddr \in Nat /\ Phdr[Count].p_filesz \in Nat
          /\ Phdr[Count].p_offset + Phdr[Count].p_filesz <= Reached
      <4>1. Count \in 1 .. Count
        BY <1>1
      <4> QED
        BY <4>1, <1>1, <1>2, CopiesMeet, LinkedKernel
    <3> QED
      BY <3>1, <3>2, <3>3, <1>2
  <2> QED
    BY <2>1, <2>2, <1>1
<1>4. \A k \in 1 .. Count : Phdr[k].p_offset \in Nat /\ Phdr[k].p_filesz \in Nat
  BY <1>1, LinkedKernel
<1> QED
  BY <1>2, <1>3, <1>4

(* With all segments copied, the image is the file as far as it is used,   *)
(* but for what was put into user_binary and the first byte.               *)
LEMMA LaidOut == ImageInv => ImageLaidOut
<1> SUFFICES ASSUME ImageInv, copied = Count PROVE ImageLaidOut
  BY DEF ImageLaidOut
<1>1. /\ elf \in Elfs /\ \A g \in 1 .. Reached : file[g] = Patched(g)
      /\ copied # -1 /\ Lowest = 0
  BY LinkedKernel DEF ImageInv, GeneratorTypeOK
<1>2. ASSUME NEW k \in 1 .. Count, NEW g \in 0 .. Phdr[k].p_filesz - 1
      PROVE  /\ Phdr[k].p_offset = Phdr[k].p_vaddr
             /\ Phdr[k].p_vaddr + g \in Nat
             /\ Phdr[k].p_vaddr + g + 1 \in 1 .. Reached
  <2>1. /\ Phdr[k].p_offset \in Nat /\ Phdr[k].p_filesz \in Nat
        /\ Phdr[k].p_vaddr \in Nat /\ Phdr[k].p_offset = Phdr[k].p_vaddr - 0
    BY <1>1, LinkedKernel
  <2>2. Phdr[k].p_offset + Phdr[k].p_filesz <= Reached /\ Reached \in Nat
    BY AllReached
  <2> QED
    BY <2>1, <2>2
<1>3. ASSUME NEW k \in 1 .. Count, NEW g \in 0 .. Phdr[k].p_filesz - 1
      PROVE  LET v == Phdr[k].p_vaddr + g
                 b == v - Lowest + 1
             IN  /\ file[b].base = elf.content[Phdr[k].p_offset + g + 1]
                 /\ file[b].over # "none" => v \in elf.user_binary
                 /\ file[b].first_byte = "zero" => b = 1
  <2> DEFINE v == Phdr[k].p_vaddr + g
  <2>1. /\ v \in Nat /\ v + 1 \in 1 .. Reached /\ v - Lowest + 1 = v + 1
        /\ Phdr[k].p_offset + g + 1 = v + 1
    BY <1>1, <1>2
  <2> HIDE DEF v
  <2>2. file[v + 1] = Patched(v + 1) /\ (v + 1) - 1 = v
    BY <2>1, <1>1
  <2>3. /\ file[v + 1].base = elf.content[v + 1]
        /\ file[v + 1].over # "none" => v \in elf.user_binary
        /\ file[v + 1].first_byte = "zero" => v + 1 = 1
    BY <2>2 DEF Patched
  <2> QED
    BY <2>1, <2>3 DEF v
<1>4. /\ file[elf.e_shoff + 1].base = elf.content[elf.e_shoff + 1]
      /\ file[elf.e_shoff + 1].over = "none"
  <2>1. /\ elf.e_shoff \in Nat /\ elf.e_shoff + 1 \in 1 .. Reached
        /\ elf.e_shoff \notin elf.user_binary
    BY <1>1, AllReached, LinkedKernel
  <2>2. file[elf.e_shoff + 1] = Patched(elf.e_shoff + 1)
        /\ (elf.e_shoff + 1) - 1 = elf.e_shoff
    BY <2>1, <1>1
  <2> QED
    BY <2>1, <2>2 DEF Patched
<1>5. ASSUME NEW v \in elf.user_binary
      PROVE  file[v - Lowest + 1].over = program
  <2>1. PICK k \in 1 .. Count :
               v \in Phdr[k].p_vaddr .. Phdr[k].p_vaddr + Phdr[k].p_filesz - 1
    BY <1>1, LinkedKernel
  <2> DEFINE g == v - Phdr[k].p_vaddr
  <2>2. g \in 0 .. Phdr[k].p_filesz - 1 /\ Phdr[k].p_vaddr + g = v
    <3>1. Phdr[k].p_vaddr \in Nat /\ Phdr[k].p_filesz \in Nat
      BY <1>1, LinkedKernel
    <3> QED
      BY <2>1, <3>1
  <2> HIDE DEF g
  <2>3. v \in Nat /\ v + 1 \in 1 .. Reached
    BY <2>2, <1>2
  <2>4. file[v + 1] = Patched(v + 1) /\ (v + 1) - 1 = v /\ v - Lowest + 1 = v + 1
    BY <2>3, <1>1
  <2> QED
    BY <2>4 DEF Patched
<1> QED
  BY <1>3, <1>4, <1>5 DEF ImageLaidOut

-----------------------------------------------------------------------------
(* The machine.                                                            *)

(* The VMM has read no more than the file has, and from load_kernel on the *)
(* memory begins with what was read.                                       *)
LoadedSoFar ==
  /\ TypeOK
  /\ Len(buffer) <= Len(file)
  /\ at > 9 => 0 \in slots
  /\ at > 12 => \A b \in Blocks : b < Len(buffer) => ram[b] = buffer[b + 1]
  /\ vmm = "reading" => at = 1

(* The VMM has what the guest needs to be found.                           *)
Loadable ==
  /\ guest_addr = Base /\ KernelBlocks \subseteq SlotBlocks[0]
  /\ elf.e_entry = EntryOffset
  /\ \A b \in KernelBlocks :
       b < Len(buffer) /\ buffer[b + 1].base = elf.content[b + 1]

(* LostExplained is not inductive: the generator may finish after the      *)
(* guest was lost.  What was read, and where it went, does not change.     *)
LostInv == lost => ran /\ ~ Loadable

MachineInv ==
  /\ ImageInv /\ VmmInv /\ LoadedSoFar /\ StartInv /\ LostInv
  /\ guest_addr \in Addresses /\ lost \in BOOLEAN

(* kernel_start.bin is a sequence of granules at any time.                 *)
LEMMA FileTyped ==
  ASSUME ImageInv
  PROVE  file \in Seq(Granules) /\ Len(file) \in Nat
  BY LenProperties DEF ImageInv, GeneratorTypeOK

(* A step of the VMM that is not about loading.                            *)
LEMMA PassKeepsLoaded ==
  ASSUME VmmInv, LoadedSoFar, TypeOK', UNCHANGED <<file, buffer, ram>>,
         slots \subseteq slots', vmm' # "reading",
         \/ at' = at
         \/ at <= Len(Program) /\ at' = at + 1 /\ Program[at] \notin {"slot0", "load_kernel"}
  PROVE  LoadedSoFar'
<1>1. at \in 1 .. 25 /\ (at' > 9 => at > 9) /\ (at' > 12 => at > 12)
  BY ProgramOrder DEF VmmInv
<1> QED
  BY <1>1 DEF LoadedSoFar

(* Each request of Machine::new, among them the one that loads.            *)
LEMMA BuildKeepsLoaded ==
  ASSUME ImageInv, VmmInv, LoadedSoFar, Build, UNCHANGED file
  PROVE  LoadedSoFar'
<1>0. /\ TypeOK /\ at \in 1 .. 25 /\ Len(Program) = 24
      /\ Len(buffer) \in Nat /\ buffer \in Seq(Granules)
  BY ProgramOrder, LenProperties, SMTT(30) DEF LoadedSoFar, VmmInv, TypeOK
<1>1. CASE RefuseDebug \/ NoKernelFile
  BY <1>0, <1>1, PassKeepsLoaded
     DEF RefuseDebug, NoKernelFile, Panic, EndWith, input, kvm, end, TypeOK
<1>2. CASE ReadKernel
  <2>1. PICK n \in 0 .. Len(file) : buffer' = SubSeq(file, 1, n)
    BY <1>2 DEF ReadKernel
  <2>2. /\ vmm = "reading" /\ vmm' = "building"
        /\ UNCHANGED <<at, is_realm, ram, rd, slots, measured, vcpu, rec, ran, status,
                      cause, granted>>
    BY <1>2 DEF ReadKernel, kvm, end
  <2>3. buffer' \in Seq(Granules) /\ Len(buffer') = n
    BY <2>1, <1>0, FileTyped
  <2>4. TypeOK'
    BY <1>0, <2>2, <2>3 DEF TypeOK
  <2>5. at = 1
    BY <2>2 DEF LoadedSoFar
  <2> QED
    BY <2>1, <2>2, <2>3, <2>4, <2>5 DEF LoadedSoFar
<1>3. CASE Skip
  <2>1. TypeOK'
    BY <1>0, <1>3 DEF Skip, input, kvm, end, TypeOK
  <2>2. Program[at] \notin {"slot0", "load_kernel"}
    BY <1>0, <1>3, SMTT(30) DEF Skip, Needed, RealmOnly, Requests
  <2> QED
    BY <1>0, <1>3, <2>1, <2>2, PassKeepsLoaded DEF Skip, input, kvm, end
<1>4. ASSUME NEW r \in Requests, Refuse(r)
      PROVE  LoadedSoFar'
  <2>1. CASE r \in Survived
    <3>1. TypeOK'
      BY <1>0, <1>4, <2>1 DEF Refuse, Asks, input, kvm, end, TypeOK
    <3>2. r \notin {"slot0", "load_kernel"}
      BY <2>1 DEF Survived
    <3> QED
      BY <1>0, <1>4, <2>1, <3>1, <3>2, PassKeepsLoaded DEF Refuse, Asks, input, kvm, end
  <2>2. CASE r \notin Survived
    BY <1>0, <1>4, <2>2, PassKeepsLoaded
       DEF Refuse, Asks, Panic, EndWith, input, kvm, end, TypeOK
  <2> QED
    BY <2>1, <2>2
<1>5. ASSUME NEW r, r \notin {"slot0", "load_kernel"}, Granted(r),
             UNCHANGED ram, slots \subseteq slots', slots' \subseteq 0 .. 2,
             rd' \in {"none", "new", "active"},
             measured' \in [Blocks -> Granules \cup {Nothing}],
             vcpu' \in {"none", "created", "ready"}, rec' \in BOOLEAN
      PROVE  LoadedSoFar'
  <2>1. r \in Requests
    BY <1>0, <1>5, SMTT(30) DEF Granted, Asks, Requests
  <2>2. TypeOK'
    BY <1>0, <1>5, <2>1 DEF Granted, Asks, input, end, TypeOK
  <2> QED
    BY <1>0, <1>5, <2>2, PassKeepsLoaded DEF Granted, Asks, input, end
<1>6. CASE \/ CreateVm \/ SetSmcccFilters \/ RealmPersonalize
           \/ CreateIrqchip \/ CreateItsDevice \/ VmMapGuestMemory
           \/ CreateGuestMemfds \/ RealmInitIpaRange \/ FinishGicInit
           \/ GetPreferredTarget \/ CreateEventFds \/ SetRegisters
  <2>1. PICK r \in {"create_vm", "smccc_filter", "personalize", "irqchip",
                    "its", "map_memory", "memfds", "init_ipa0", "init_ipa2",
                    "finish_gic", "preferred_target", "event_fds", "registers"} :
          Granted(r) /\ UNCHANGED <<ram, kvm>>
    BY <1>6 DEF CreateVm, SetSmcccFilters, RealmPersonalize, CreateIrqchip,
                CreateItsDevice, VmMapGuestMemory, CreateGuestMemfds,
                RealmInitIpaRange, FinishGicInit, GetPreferredTarget,
                CreateEventFds, GrantOther, SetRegisters
  <2> QED
    BY <1>0, <2>1, <1>5 DEF kvm, TypeOK
<1>7. CASE CreateRealmDescriptor \/ RealmActivate
  BY <1>0, <1>5, <1>7 DEF CreateRealmDescriptor, RealmActivate, TypeOK
<1>8. CASE SetSlot(1, "slot1") \/ SetSlot(2, "slot2")
  <2>1. PICK s \in {1, 2} : /\ Granted(IF s = 1 THEN "slot1" ELSE "slot2")
                            /\ slots' = slots \cup {s}
                            /\ UNCHANGED <<ram, rd, measured, vcpu, rec>>
    BY <1>8 DEF SetSlot
  <2>2. slots' \subseteq 0 .. 2 /\ slots \subseteq slots'
    BY <1>0, <2>1 DEF TypeOK
  <2> QED
    BY <1>0, <1>5, <2>1, <2>2 DEF TypeOK
<1>9. CASE CreateVcpu \/ InitializeVcpu \/ RealmFinalizeCpu
  BY <1>0, <1>5, <1>9 DEF CreateVcpu, InitializeVcpu, RealmFinalizeCpu, TypeOK
<1>10. CASE RealmPopulate(0, "populate0") \/ RealmPopulate(2, "populate2")
  BY <1>0, <1>5, <1>10 DEF RealmPopulate, TypeOK
<1>11. CASE SetSlot(0, "slot0")
  <2>1. TypeOK' /\ slots' = slots \cup {0} /\ at' = at + 1 /\ at = 9
        /\ UNCHANGED <<buffer, ram>> /\ vmm' = "building"
    <3>1. "slot0" \in Requests /\ at = 9
      BY <1>0, <1>11, ProgramOrder, SMTT(30) DEF SetSlot, Granted, Asks, Requests
    <3> QED
      BY <1>0, <1>11, <3>1 DEF SetSlot, Granted, Asks, input, end, TypeOK
  <2> QED
    BY <2>1 DEF LoadedSoFar
<1>12. CASE LoadKernel
  <2>a. Granted("load_kernel") /\ UNCHANGED kvm
    BY <1>12 DEF LoadKernel
  <2>b. /\ vmm = "building" /\ Program[at] = "load_kernel" /\ at \in 1 .. Len(Program)
        /\ at' = at + 1 /\ granted' = granted \cup {"load_kernel"}
        /\ UNCHANGED <<vmm, input, ran, end>>
    BY <1>0, <2>a DEF Granted, Asks
  <2>1. /\ at = 12 /\ "load_kernel" \in Requests
        /\ UNCHANGED <<is_realm, buffer, rd, slots, measured, vcpu, rec,
                      status, cause>>
    BY <2>a, <2>b, ProgramOrder DEF Requests, input, kvm, end
  <2>2. ram' = [b \in Blocks |-> IF b < Len(file) /\ b < Len(buffer)
                                 THEN buffer[b + 1] ELSE ram[b]]
    BY <1>12 DEF LoadKernel
  <2>3. \A b \in Blocks : b \in Nat
    BY LifecycleAssumption DEF Blocks
  <2>4. \A b \in Blocks : b < Len(buffer) => buffer[b + 1] \in Granules
    BY <1>0, <2>3, ElementOfSeq
  <2>5. ram' \in [Blocks -> Granules]
    BY <1>0, <2>2, <2>4 DEF TypeOK
  <2>6. TypeOK'
    BY <1>0, <2>1, <2>b, <2>5 DEF TypeOK
  <2>7. \A b \in Blocks : b < Len(buffer) => ram'[b] = buffer[b + 1]
    BY <1>0, <2>2, <2>3, FileTyped DEF LoadedSoFar
  <2> QED
    BY <2>1, <2>b, <2>6, <2>7 DEF LoadedSoFar
<1>13. CASE KernelTooLarge
  BY <1>0, <1>13, PassKeepsLoaded
     DEF KernelTooLarge, Asks, Panic, EndWith, input, kvm, end, TypeOK
<1>14. CASE EnterRunloop
  BY <1>0, <1>14, PassKeepsLoaded DEF EnterRunloop, input, kvm, end, TypeOK
<1> QED
  BY <1>1, <1>2, <1>3, <1>4, <1>6, <1>7, <1>8, <1>9, <1>10, <1>11, <1>12,
     <1>13, <1>14 DEF Build

(* runloop and the guest in it load nothing.                               *)
LEMMA RunKeepsLoaded ==
  ASSUME VmmInv, LoadedSoFar, GuestExecutes \/ GuestEnds \/ RunFails \/ RunPanics,
         UNCHANGED file
  PROVE  LoadedSoFar'
<1>1. TypeOK' /\ UNCHANGED <<at, buffer, ram, slots>>
  BY ZenonT(30) DEF LoadedSoFar, TypeOK, GuestExecutes, GuestEnds, RunFails, RunPanics, Panic,
         EndWith, input, kvm, end
<1>2. vmm' # "reading"
  BY DEF KvmRuns, GuestExecutes, GuestEnds, RunFails, RunPanics, Panic, EndWith
<1> QED
  BY <1>1, <1>2, PassKeepsLoaded

(* A guest that finds nothing missing in memory is not lost: what the VMM  *)
(* read is in slot 0, and measured if it is a realm.                       *)
LEMMA LoadableIsFound ==
  ASSUME ImageInv, VmmInv, LoadedSoFar, KvmRuns, Loadable
  PROVE  KernelWhole
<1>1. at = 25 /\ 0 \in slots /\ guest_addr = Base /\ KernelBlocks \subseteq SlotBlocks[0]
      /\ elf.e_entry = EntryOffset
  BY ProgramOrder DEF KvmRuns, VmmInv, EndAgrees, LoadedSoFar, Loadable
<1>2. ASSUME NEW b \in KernelBlocks PROVE Found(b)
  <2>1. b \in SlotBlocks[0] /\ b \in Blocks
    BY <1>1, LifecycleAssumption
  <2>2. ram[b].base = elf.content[b + 1]
    BY <1>1, <2>1 DEF Loadable, LoadedSoFar
  <2>3. is_realm => measured[b] = ram[b]
    BY <1>1, <2>1 DEF VmmInv, MeasuredSoFar
  <2>4. ~ (b \notin UNION {SlotBlocks[s] : s \in slots})
    BY <1>1, <2>1
  <2>5. Sees(b) = IF is_realm THEN measured[b] ELSE ram[b]
    BY <2>4 DEF Sees
  <2> QED
    BY <2>1, <2>2, <2>3, <2>5 DEF Found
<1> QED
  BY <1>1, <1>2 DEF KernelWhole, Enters

(* Once the guest ran, the VMM reads and loads nothing more.               *)
LEMMA LostPreserves ==
  ASSUME MachineInv, [MachineNext]_vars
  PROVE  LostInv'
<1>1. ASSUME UNCHANGED <<elf, guest_addr, buffer>> PROVE Loadable' <=> Loadable
  BY <1>1 DEF Loadable, KernelBlocks, Phdr, Count
<1>2. UNCHANGED <<elf, guest_addr>>
  BY DEF MachineNext, Generate, VmmStep, KernelStarts, GetLost, GuestStops, vars,
         GeneratorNext, WriteZeros, CopyToImage, CopyProgram, ClearFirstByte,
         generator
<1>3. CASE lost' = lost /\ UNCHANGED <<buffer, ran>>
  BY <1>1, <1>2, <1>3 DEF MachineInv, LostInv
<1>4. CASE lost' = lost /\ vmm = "reading"
  BY <1>4 DEF MachineInv, LostInv, VmmInv, EndAgrees
<1>5. CASE GetLost
  <2>1. KvmRuns /\ ~ KernelWhole /\ ran' = TRUE /\ buffer' = buffer
    BY <1>5 DEF GetLost, GuestExecutes, input
  <2> QED
    BY <1>1, <1>2, <2>1, LoadableIsFound DEF MachineInv, LostInv
<1>6. CASE lost' = lost /\ ran' = TRUE /\ buffer' = buffer
  BY <1>1, <1>2, <1>6 DEF MachineInv, LostInv
<1>7. CASE UNCHANGED vars \/ Generate
  BY <1>3, <1>7 DEF Generate, vars, lifecycle, input
<1>8. CASE VmmStep
  <2>1. lost' = lost
    BY <1>8 DEF VmmStep
  <2>2. ASSUME vmm # "reading" PROVE UNCHANGED <<buffer, ran>>
    BY <1>8, <2>2
       DEF VmmStep, RunFails, RunPanics, input, end, Build, RefuseDebug,
           NoKernelFile, ReadKernel, Skip, Refuse, GrantOther, Granted, CreateVm,
           SetSmcccFilters, RealmPersonalize, CreateRealmDescriptor,
           CreateIrqchip, CreateItsDevice, VmMapGuestMemory, CreateGuestMemfds,
           RealmInitIpaRange, FinishGicInit, GetPreferredTarget, CreateEventFds,
           SetSlot, LoadKernel, KernelTooLarge, RealmPopulate, CreateVcpu,
           InitializeVcpu, SetRegisters, RealmFinalizeCpu, RealmActivate,
           EnterRunloop
  <2> QED
    BY <2>1, <2>2, <1>3, <1>4
<1>9. CASE KernelStarts \/ GuestStops
  BY <1>6, <1>9 DEF KernelStarts, GuestStops, GuestExecutes, GuestEnds, input
<1> QED
  BY <1>5, <1>7, <1>8, <1>9 DEF MachineNext

(* All the parts start together.                                           *)
LEMMA InitMachineInv == MachineInit => MachineInv
<1> SUFFICES ASSUME MachineInit PROVE MachineInv
  OBVIOUS
<1>1. ImageInv /\ VmmInv /\ StartInv
  BY InitImageInv, InitVmmInv, InitStartInv DEF MachineInit
<1>2. LoadedSoFar
  <2>1. Len(file) \in Nat
    BY <1>1, FileTyped
  <2>2. << >> \in Seq(Granules) /\ Len(<< >>) = 0 /\ at = 1 /\ Len(Program) = 24
    BY ProgramOrder DEF MachineInit, Init
  <2>3. TypeOK
    <3>1. ram \in [Blocks -> Granules] /\ measured \in [Blocks -> Granules \cup {Nothing}]
      BY GeneratorAssumption, PlainTyped DEF MachineInit, Init
    <3>2. at \in 1 .. Len(Program) + 1 /\ buffer \in Seq(Granules)
      BY <2>2 DEF MachineInit, Init
    <3>3. slots \subseteq 0 .. 2 /\ granted \subseteq Requests
      BY DEF MachineInit, Init
    <3>4. /\ vmm = "reading" /\ rd = "none" /\ vcpu = "none" /\ rec = FALSE
          /\ ran = FALSE /\ status = "none" /\ cause = "none" /\ is_realm \in BOOLEAN
      BY DEF MachineInit, Init
    <3> QED
      BY <3>1, <3>2, <3>3, <3>4 DEF TypeOK
  <2>4. buffer = << >> /\ ran = FALSE /\ slots = {}
    BY DEF MachineInit, Init
  <2>5. Len(buffer) <= Len(file)
    BY <2>1, <2>2, <2>4
  <2> QED
    BY <2>2, <2>3, <2>4, <2>5 DEF LoadedSoFar
<1>3. LostInv /\ guest_addr \in Addresses /\ lost \in BOOLEAN
  BY DEF MachineInit, LostInv
<1> QED
  BY <1>1, <1>2, <1>3 DEF MachineInv

(* And hold together, whichever part takes a step.                         *)
LEMMA NextMachineInv == MachineInv /\ [MachineNext]_vars => MachineInv'
<1> SUFFICES ASSUME MachineInv, [MachineNext]_vars PROVE MachineInv'
  OBVIOUS
<1>1. ImageInv' /\ Len(file') >= Len(file)
  <2>1. [GeneratorNext]_<<generator, file>>
    BY DEF MachineNext, Generate, VmmStep, KernelStarts, GetLost, GuestStops, vars
  <2> QED
    BY <2>1, NextImageInv DEF MachineInv
<1>2. VmmInv' /\ StartInv' /\ LostInv'
  BY NextVmmInv, NextStartInv, LostPreserves DEF MachineInv
<1>3. LoadedSoFar'
  <2>1. CASE UNCHANGED lifecycle
    <3>1. Len(buffer) \in Nat
      BY LenProperties DEF MachineInv, LoadedSoFar, TypeOK
    <3>2. Len(file') \in Nat /\ Len(file) \in Nat
      BY <1>1, FileTyped, LenProperties DEF MachineInv, ImageInv, GeneratorTypeOK
    <3>3. TypeOK' /\ UNCHANGED <<vmm, at, buffer, ram, slots>>
      BY <2>1 DEF MachineInv, LoadedSoFar, TypeOK, lifecycle, input, kvm, end
    <3> QED
      BY <1>1, <3>1, <3>2, <3>3 DEF MachineInv, LoadedSoFar
  <2>2. CASE VmmStep
    BY <2>2, BuildKeepsLoaded, RunKeepsLoaded DEF MachineInv, VmmStep
  <2>3. CASE KernelStarts \/ GetLost \/ GuestStops
    BY <2>3, RunKeepsLoaded DEF MachineInv, KernelStarts, GetLost, GuestStops
  <2> QED
    BY <2>1, <2>2, <2>3 DEF MachineNext, Generate, vars
<1>4. guest_addr' \in Addresses /\ lost' \in BOOLEAN
  BY DEF MachineInv, MachineNext, Generate, VmmStep, KernelStarts, GetLost,
         GuestStops, vars
<1> QED
  BY <1>1, <1>2, <1>3, <1>4 DEF MachineInv

(* The invariant of the composition.                                       *)
LEMMA MachineInvariant == MachineSpec => []MachineInv
  BY InitMachineInv, NextMachineInv, PTL DEF MachineSpec

(* The image, the file, the state of the VMM, of KVM and of the kernel     *)
(* keep their types; in particular no granule is copied from beyond the    *)
(* file by image_generator.c.                                              *)
THEOREM TypeCorrect == MachineSpec => []MachineTypeOK
<1>1. MachineInv => MachineTypeOK
  BY DEF MachineInv, ImageInv, LoadedSoFar, StartInv, MachineTypeOK
<1> QED
  BY <1>1, MachineInvariant, PTL

(* The image has each granule of each segment at the address it was linked *)
(* for, changed only in user_binary and in its first byte, and the section *)
(* headers, as they are in the file, where relocate_kernel looks.          *)
THEOREM ImageSound == MachineSpec => []ImageLaidOut
<1>1. MachineInv => ImageLaidOut
  BY LaidOut DEF MachineInv
<1> QED
  BY <1>1, MachineInvariant, PTL

(* A guest is lost only if --address is wrong, the kernel's entry is not   *)
(* where the VMM has it, the image was not read whole, or the kernel does  *)
(* not end in the first slot.                                              *)
THEOREM LostGuests == MachineSpec => []LostExplained
<1>1. MachineInv => LostExplained
  <2> SUFFICES ASSUME MachineInv, lost, guest_addr = Base, ImageDone, buffer = file,
                      elf.e_entry = EntryOffset,
                      KernelBlocks \subseteq SlotBlocks[0]
               PROVE  FALSE
    BY DEF LostExplained
  <2>1. /\ copied = Count /\ copied # -1 /\ ImageInv /\ elf \in Elfs
        /\ Len(file) >= MapSize /\ \A g \in 1 .. Reached : file[g] = Patched(g)
    BY LinkedKernel DEF ImageDone, MachineInv, ImageInv, GeneratorTypeOK
  <2>2. Len(file) \in Nat /\ MapSize \in Int /\ Reached \in Nat /\ Reached <= MapSize
    BY <2>1, FileTyped, AllReached, HighestIsLast, LinkedKernel DEF MapSize
  <2>3. ASSUME NEW b \in KernelBlocks PROVE b + 1 \in 1 .. Reached
    <3>1. CASE b = elf.e_shoff
      BY <3>1, <2>1, AllReached
    <3>2. CASE b # elf.e_shoff
      <4>1. PICK k \in 1 .. Count :
                   b \in Phdr[k].p_offset .. Phdr[k].p_offset + Phdr[k].p_filesz - 1
        BY <3>2, <2>3 DEF KernelBlocks
      <4>2. /\ Phdr[k].p_offset \in Nat /\ Phdr[k].p_filesz \in Nat
            /\ Phdr[k].p_offset + Phdr[k].p_filesz <= Reached
        BY <2>1, AllReached
      <4> QED
        BY <4>1, <4>2, <2>2
    <3> QED
      BY <3>1, <3>2
  <2>4. ASSUME NEW b \in KernelBlocks
        PROVE  b < Len(buffer) /\ buffer[b + 1].base = elf.content[b + 1]
    <3>1. b + 1 \in 1 .. Reached
      BY <2>3
    <3>2. b \in SlotBlocks[0] /\ b \in Nat
      BY LifecycleAssumption DEF Blocks
    <3>3. buffer[b + 1] = Patched(b + 1)
      BY <3>1, <2>1
    <3>4. buffer[b + 1].base = elf.content[b + 1]
      BY <3>3 DEF Patched
    <3> QED
      BY <3>1, <3>2, <3>4, <2>1, <2>2
  <2> QED
    BY <2>4 DEF MachineInv, LostInv, Loadable
<1> QED
  BY <1>1, MachineInvariant, PTL
=============================================================================
