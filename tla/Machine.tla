------------------------------- MODULE Machine -------------------------------
(***************************************************************************)
(* From the linked kernel to kernel_main: ImageGenerator makes the file,   *)
(* RealmLifecycle loads and runs it, and KernelStart runs in the memory it *)
(* is given, for as long as KVM runs the virtual processor.  Nothing keeps *)
(* the VMM from being started while the file is still being written.       *)
(*                                                                         *)
(* The guest finds its kernel only where all three agree: at the address   *)
(* _start has built in, with the ELF header in the first block and the     *)
(* section headers where that header says; and its entry only where the    *)
(* VMM has it built in, too.  Where they do not, the guest is lost: it     *)
(* executes something, or faults for ever.                                 *)
(***************************************************************************)
EXTENDS RealmLifecycle, KernelStart

CONSTANTS
  Addresses,      \* the values of --address
  EntryOffset     \* where the VMM starts the guest, from that address on

ASSUME MachineAssumption ==
  /\ Base \in Addresses
  /\ Nothing \notin Granules
  /\ \A e \in Elfs : e.rela \in RelaTables

VARIABLES guest_addr, lost

vars == <<generator, file, lifecycle, start, guest_addr, lost>>

MachineTypeOK ==
  /\ GeneratorTypeOK
  /\ TypeOK
  /\ StartTypeOK
  /\ guest_addr \in Addresses
  /\ lost \in BOOLEAN

MachineInit ==
  /\ GeneratorInit
  /\ Init
  /\ StartInit /\ rela_table = elf.rela
  /\ guest_addr \in Addresses
  /\ lost = FALSE

(* What the guest sees in a block: what was measured of a realm, what the  *)
(* VMM put into a slot of a plain VM.                                      *)
Sees(b) ==
  CASE b \notin UNION {SlotBlocks[s] : s \in slots} -> Nothing
    [] OTHER -> IF is_realm THEN measured[b] ELSE ram[b]

(* A block of the kernel's file is where the kernel is linked to have it;  *)
(* what the generator put over it, in an array the kernel only passes on   *)
(* and in a byte nobody reads, does not matter.                            *)
Found(b) == b \in Blocks /\ Sees(b).base = elf.content[b + 1]

KernelBlocks ==
  {elf.e_shoff} \cup
  UNION {Phdr[k].p_offset .. Phdr[k].p_offset + Phdr[k].p_filesz - 1 : k \in 1 .. Count}

Enters      == guest_addr = Base /\ elf.e_entry = EntryOffset
CanStart    == Enters /\ Found(0) /\ Found(elf.e_shoff)
KernelWhole == Enters /\ \A b \in KernelBlocks : Found(b)

-----------------------------------------------------------------------------
Generate ==
  /\ GeneratorNext
  /\ UNCHANGED <<lifecycle, start, guest_addr, lost>>

VmmStep ==
  /\ Build \/ RunFails \/ RunPanics
  /\ UNCHANGED <<generator, file, start, guest_addr, lost>>

KernelStarts ==
  /\ GuestExecutes
  /\ CanStart /\ ~ lost
  /\ StartNext
  /\ UNCHANGED <<generator, file, guest_addr, lost>>

GetLost ==
  /\ GuestExecutes
  /\ ~ KernelWhole /\ ~ lost
  /\ lost' = TRUE
  /\ UNCHANGED <<generator, file, start, guest_addr>>

(* The kernel ends the VM once it runs, a lost guest at any time.          *)
GuestStops ==
  /\ phase \in {"main", "overrun"} \/ lost
  /\ GuestEnds
  /\ UNCHANGED <<generator, file, start, guest_addr, lost>>

MachineNext == Generate \/ VmmStep \/ KernelStarts \/ GetLost \/ GuestStops

(***************************************************************************)
(* The VMM's thread goes on; KVM runs the processor while it can, and the  *)
(* kernel goes on when it does; a processor it cannot run is an error of   *)
(* vcpu.run.                                                               *)
(***************************************************************************)
MachineSpec ==
  /\ MachineInit /\ [][MachineNext]_vars
  /\ WF_vars(Build /\ VmmStep)
  /\ WF_vars(KernelStarts \/ GetLost)
  /\ WF_vars(~ KvmRuns /\ RunFails /\ VmmStep)

-----------------------------------------------------------------------------
(* A guest is lost only for a reason nobody checks: --address is not the   *)
(* one the kernel is built for; the kernel was linked with another entry   *)
(* than the offset in the VMM; what was read is not the image as it was    *)
(* made (it was still being made, or its end was not read); or the kernel  *)
(* does not end in the first slot (its size is compared with that of all   *)
(* the memory).                                                            *)
LostExplained ==
  lost =>
    \/ guest_addr # Base
    \/ elf.e_entry # EntryOffset
    \/ ~ ImageDone
    \/ buffer # file
    \/ ~ (KernelBlocks \subseteq SlotBlocks[0])

(* What was begun comes to something: the VMM gives up, or the kernel      *)
(* reaches kernel_main unless it overran its store or was lost.            *)
ComesUp ==
  vmm = "building" ~> vmm = "ended" \/ phase \in {"main", "overrun"} \/ lost
=============================================================================
