--------------------------- MODULE RealmLifecycle ---------------------------
(***************************************************************************)
(* The life of one VM in the VMM (main.rs): main reads the kernel file,    *)
(* Machine::new asks KVM for the VM piece by piece, runloop runs the       *)
(* virtual processor until something ends it.                              *)
(*                                                                         *)
(* KVM may refuse any request.  Most refusals panic; a few are printed and *)
(* survived.  What KVM itself insists on is modelled from how main.rs and  *)
(* the notes in API-change order the requests: a realm is described,       *)
(* filled, activated and run, in that order.                               *)
(*                                                                         *)
(* Memory, from guest_addr on, and files are divided into blocks.  Slots 0 *)
(* and 2 are private, slot 1 between them is shared with the VMM.          *)
(***************************************************************************)
EXTENDS ImageGenerator      \* for the kernel file it makes

CONSTANTS
  RamBlocks,      \* slot_ram_size in blocks
  SlotBlocks      \* the blocks of each memory slot

Blocks == 0 .. RamBlocks - 1

ASSUME LifecycleAssumption ==
  /\ RamBlocks \in Nat \ {0}
  /\ SlotBlocks \in [0 .. 2 -> SUBSET Blocks]
  /\ \A s, t \in 0 .. 2 : s # t => SlotBlocks[s] \cap SlotBlocks[t] = {}

VARIABLES
  is_realm,
  vmm,            \* what the VMM is doing
  at,             \* the request Machine::new has got to
  buffer,         \* VMConfig.buffer: what was read of it
  ram,            \* what the VMM put into the memory it mapped
  rd,             \* KVM: state of the realm
  slots,          \* KVM: memory slots set
  measured,       \* KVM: what each block held when it was populated
  vcpu, rec,      \* KVM: the virtual processor; finalized for a realm?
  ran,            \* has the guest executed anything?
  status,         \* exit status of the VMM
  cause,          \* history: what ended it
  granted         \* history: the requests KVM granted

Nothing == Plain("nothing")      \* a block that was not measured

input == <<is_realm, buffer>>
kvm   == <<rd, slots, measured, vcpu, rec>>
end   == <<status, cause>>
lifecycle == <<vmm, at, input, ram, kvm, ran, end, granted>>

(* The requests of Machine::new in the order of the code.                  *)
(* Mutant: the regions are populated before the kernel is loaded.          *)
ProgramPopulatingFirst ==
  << "create_vm", "smccc_filter", "personalize", "create_rd", "irqchip",
     "its", "map_memory", "memfds", "slot0", "slot1", "slot2",
     "init_ipa0", "init_ipa2", "populate0", "populate2", "load_kernel",
     "create_vcpu", "preferred_target", "vcpu_init", "finish_gic",
     "registers", "finalize", "activate", "event_fds" >>

Program ==
  << "create_vm", "smccc_filter", "personalize", "create_rd", "irqchip",
     "its", "map_memory", "memfds", "slot0", "slot1", "slot2",
     "load_kernel", "init_ipa0", "init_ipa2", "populate0", "populate2",
     "create_vcpu", "preferred_target", "vcpu_init", "finish_gic",
     "registers", "finalize", "activate", "event_fds" >>

Requests == {Program[k] : k \in 1 .. Len(Program)}

(* Asked only if is_realm; personalize is asked of every VM.               *)
RealmOnly == {"create_rd", "init_ipa0", "init_ipa2", "populate0",
              "populate2", "finalize", "activate"}
Needed == {r \in Requests : is_realm \/ r \notin RealmOnly}

(* A refusal is printed and the VMM goes on.                               *)
Survived == {"init_ipa0", "init_ipa2", "vcpu_init", "finalize"}

TypeOK ==
  /\ is_realm \in BOOLEAN
  /\ vmm \in {"reading", "building", "running", "ended"}
  /\ at \in 1 .. Len(Program) + 1
  /\ buffer \in Seq(Granules)
  /\ ram \in [Blocks -> Granules]
  /\ rd \in {"none", "new", "active"}
  /\ slots \subseteq 0 .. 2
  /\ measured \in [Blocks -> Granules \cup {Nothing}]
  /\ vcpu \in {"none", "created", "ready"}
  /\ rec \in BOOLEAN
  /\ ran \in BOOLEAN
  /\ status \in {"none", "success", "failure"}
  /\ cause \in {"none", "refused", "panic", "run_error", "guest"}
  /\ granted \subseteq Requests

Init ==
  /\ is_realm \in BOOLEAN
  /\ vmm = "reading" /\ at = 1
  /\ buffer = << >>
  /\ ram = [b \in Blocks |-> Plain(Zero)]
  /\ rd = "none" /\ slots = {} /\ vcpu = "none" /\ rec = FALSE
  /\ measured = [b \in Blocks |-> Nothing]
  /\ ran = FALSE
  /\ status = "none" /\ cause = "none"
  /\ granted = {}

-----------------------------------------------------------------------------
EndWith(how, why) ==
  /\ vmm' = "ended"
  /\ status' = how
  /\ cause' = why

(* A panic of the main thread; one of the thread that runs a realm is      *)
(* dropped with the result of join.                                        *)
(* Mutant: a realm is built in the thread that runs it.                    *)
PanicInThread == EndWith(IF is_realm THEN "success" ELSE "failure", "panic")

Panic == EndWith(IF is_realm /\ vmm = "running" THEN "success" ELSE "failure",
                 "panic")

(* A realm with --debug.                                                   *)
RefuseDebug ==
  /\ vmm = "reading" /\ is_realm
  /\ EndWith("success", "refused")
  /\ UNCHANGED <<at, input, ram, kvm, ran, granted>>

(* kernel_size stops without the file.                                     *)
NoKernelFile ==
  /\ vmm = "reading"
  /\ Panic
  /\ UNCHANGED <<at, input, ram, kvm, ran, granted>>

(* read_kernel; its result is not looked at, so any part of the file may   *)
(* have been read.                                                         *)
ReadKernel ==
  /\ vmm = "reading"
  /\ \E n \in 0 .. Len(file) : buffer' = SubSeq(file, 1, n)
  /\ vmm' = "building"
  /\ UNCHANGED <<at, is_realm, ram, kvm, ran, end, granted>>

-----------------------------------------------------------------------------
Asks(r) == vmm = "building" /\ at <= Len(Program) /\ Program[at] = r
             /\ r \in Needed

Granted(r) ==
  /\ Asks(r)
  /\ at' = at + 1
  /\ granted' = granted \cup {r}
  /\ UNCHANGED <<vmm, input, ran, end>>

(* if is_realm.                                                            *)
Skip ==
  /\ vmm = "building" /\ at <= Len(Program) /\ Program[at] \notin Needed
  /\ at' = at + 1
  /\ UNCHANGED <<vmm, input, ram, kvm, ran, end, granted>>

(* KVM, or for load_kernel the file system, refuses.                       *)
Refuse(r) ==
  /\ Asks(r)
  /\ IF r \in Survived THEN at' = at + 1 /\ UNCHANGED <<vmm, end>>
                       ELSE Panic /\ UNCHANGED at
  /\ UNCHANGED <<input, ram, kvm, ran, granted>>

(* Requests that leave nothing the properties tell apart.                  *)
GrantOther(r) == Granted(r) /\ UNCHANGED <<ram, kvm>>

CreateVm           == GrantOther("create_vm")
SetSmcccFilters    == GrantOther("smccc_filter")
RealmPersonalize   == GrantOther("personalize")
CreateIrqchip      == GrantOther("irqchip")
CreateItsDevice    == GrantOther("its")
VmMapGuestMemory   == GrantOther("map_memory")
CreateGuestMemfds  == GrantOther("memfds")
RealmInitIpaRange  == GrantOther("init_ipa0") \/ GrantOther("init_ipa2")
GetPreferredTarget == GrantOther("preferred_target")
FinishGicInit      == GrantOther("finish_gic")
CreateEventFds     == GrantOther("event_fds")

CreateRealmDescriptor ==
  /\ Granted("create_rd")
  /\ rd = "none" /\ rd' = "new"
  /\ UNCHANGED <<ram, slots, measured, vcpu, rec>>

SetSlot(s, r) ==
  /\ Granted(r)
  /\ slots' = slots \cup {s}
  /\ UNCHANGED <<ram, rd, measured, vcpu, rec>>

(* kernel_size again, against all of the memory and not the first slot;    *)
(* then slice.write: as much as both the slice and the buffer hold.        *)
(* Mutant: above the start of the memory, as a line now commented out did. *)
LoadKernelAbove ==
  /\ Granted("load_kernel")
  /\ Len(file) <= RamBlocks
  /\ ram' = [b \in Blocks |-> IF b \in 1 .. Len(file) /\ b <= Len(buffer)
                              THEN buffer[b] ELSE ram[b]]
  /\ UNCHANGED kvm

LoadKernel ==
  /\ Granted("load_kernel")
  /\ Len(file) <= RamBlocks
  /\ ram' = [b \in Blocks |-> IF b < Len(file) /\ b < Len(buffer)
                              THEN buffer[b + 1] ELSE ram[b]]
  /\ UNCHANGED kvm

KernelTooLarge ==
  /\ Asks("load_kernel")
  /\ Len(file) > RamBlocks
  /\ Panic
  /\ UNCHANGED <<at, input, ram, kvm, ran, granted>>

(* KVM copies the blocks of the slot into the realm and measures them.     *)
RealmPopulate(s, r) ==
  /\ Granted(r)
  /\ rd = "new" /\ s \in slots
  /\ measured' = [b \in Blocks |-> IF b \in SlotBlocks[s] THEN ram[b]
                                                          ELSE measured[b]]
  /\ UNCHANGED <<ram, rd, slots, vcpu, rec>>

CreateVcpu ==
  /\ Granted("create_vcpu")
  /\ vcpu' = "created"
  /\ UNCHANGED <<ram, rd, slots, measured, rec>>

InitializeVcpu ==
  /\ Granted("vcpu_init")
  /\ vcpu' = "ready"
  /\ UNCHANGED <<ram, rd, slots, measured, rec>>

(* pc and x0 to x3, which a processor without a target does not have.      *)
SetRegisters ==
  /\ Granted("registers")
  /\ vcpu = "ready"
  /\ UNCHANGED <<ram, kvm>>

RealmFinalizeCpu ==
  /\ Granted("finalize")
  /\ vcpu = "ready" /\ rec' = TRUE
  /\ UNCHANGED <<ram, rd, slots, measured, vcpu>>

RealmActivate ==
  /\ Granted("activate")
  /\ rd = "new" /\ rd' = "active"
  /\ UNCHANGED <<ram, slots, measured, vcpu, rec>>

EnterRunloop ==
  /\ vmm = "building" /\ at = Len(Program) + 1
  /\ vmm' = "running"
  /\ UNCHANGED <<at, input, ram, kvm, ran, end, granted>>

Build ==
  \/ RefuseDebug \/ NoKernelFile \/ ReadKernel
  \/ Skip \/ \E r \in Requests : Refuse(r)
  \/ CreateVm \/ SetSmcccFilters \/ RealmPersonalize \/ CreateRealmDescriptor
  \/ CreateIrqchip \/ CreateItsDevice \/ VmMapGuestMemory
  \/ CreateGuestMemfds \/ RealmInitIpaRange \/ FinishGicInit
  \/ GetPreferredTarget \/ CreateEventFds
  \/ SetSlot(0, "slot0") \/ SetSlot(1, "slot1") \/ SetSlot(2, "slot2")
  \/ LoadKernel \/ KernelTooLarge
  \/ RealmPopulate(0, "populate0") \/ RealmPopulate(2, "populate2")
  \/ CreateVcpu \/ InitializeVcpu \/ SetRegisters
  \/ RealmFinalizeCpu \/ RealmActivate \/ EnterRunloop

-----------------------------------------------------------------------------
KvmRuns ==
  /\ vmm = "running"
  /\ vcpu = "ready"
  /\ is_realm => rd = "active" /\ rec

(* The guest executes; exits for a device, a hypercall or an address that  *)
(* nothing answers are served and the loop goes on.                        *)
GuestExecutes ==
  /\ KvmRuns
  /\ ran' = TRUE
  /\ UNCHANGED <<vmm, at, input, ram, kvm, end, granted>>

(* A system event, or the EXIT hypercall.                                  *)
GuestEnds ==
  /\ KvmRuns
  /\ ran' = TRUE
  /\ EndWith("success", "guest")
  /\ UNCHANGED <<at, input, ram, kvm, granted>>

(* An error of vcpu.run is made an Hlt, which leaves the loop.             *)
RunFails ==
  /\ vmm = "running"
  /\ EndWith("success", "run_error")
  /\ UNCHANGED <<at, input, ram, kvm, ran, granted>>

(* An exit that runloop does not know, a register it cannot read, or a     *)
(* thread that cannot be bound to its processor.                           *)
RunPanics ==
  /\ vmm = "running"
  /\ Panic
  /\ UNCHANGED <<at, input, ram, kvm, ran, granted>>

-----------------------------------------------------------------------------
(* A realm that executes was measured as it was loaded: each block of the  *)
(* private slots was populated with what the VMM holds for it, and no      *)
(* block of the shared slot was.                                           *)
MeasuredIsLoaded ==
  is_realm /\ ran =>
    /\ \A b \in SlotBlocks[0] \cup SlotBlocks[2] : measured[b] = ram[b]
    /\ \A b \in SlotBlocks[1] : measured[b] = Nothing

(* A VM that could not be built is never reported as a success: at status  *)
(* 0 KVM had granted every request whose refusal is not survived, or the   *)
(* command line was refused.                                               *)
BuildFailureShows ==
  status = "success" => cause = "refused" \/ Needed \ Survived \subseteq granted
=============================================================================
