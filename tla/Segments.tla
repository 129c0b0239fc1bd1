------------------------------ MODULE Segments ------------------------------
(***************************************************************************)
(* The two global descriptor tables, that of boot/gdt.asm and that of      *)
(* cpu/gdt.c, and the registers loaded from them.  A component, like       *)
(* Paging.  All segments are 4 GB from 0; a descriptor is what makes it    *)
(* usable or not.                                                          *)
(***************************************************************************)
EXTENDS Integers, Sequences, Paging

VARIABLES
  gdtr,           \* [base: a linear address, limit: the last byte]
  gdt,            \* the table in the linked kernel
  cs, ds, tr,     \* selectors
  esp0            \* tss.esp0

segments == <<gdtr, gdt, cs, ds, tr, esp0>>

-----------------------------------------------------------------------------
NoDescriptor == [kind |-> "none", DPL |-> 0]
Descriptor(kind, dpl) == [kind |-> kind, DPL |-> dpl]

\* boot/gdt.asm
gdt_start == <<NoDescriptor, Descriptor("code", 0), Descriptor("data", 0)>>

\* The descriptor a selector names in the table that the CPU finds.
TableAt(base) ==
  CASE Translate(base[1], base[2]) = Entry -> gdt_start
    [] Translate(base[1], base[2]) = Kernel -> gdt
    [] OTHER -> <<>>
Selected(selector) ==
  LET n == selector \div 8 + 1
  IN IF selector + 7 <= gdtr.limit /\ n <= Len(TableAt(gdtr.base))
     THEN TableAt(gdtr.base)[n] ELSE NoDescriptor

LoadBootGdt ==
  /\ gdtr' = [base |-> <<Low, Entry>>, limit |-> 8 * Len(gdt_start) - 1]
  /\ UNCHANGED <<gdt, cs, ds, tr, esp0>>

ReloadSegments == cs' = 8 /\ ds' = 16 /\ UNCHANGED <<gdtr, gdt, tr, esp0>>

\* What setup_gdt and write_tss put together: ring 0, the same for ring 3, TSS.
code == Descriptor("code", 0)
data == [code EXCEPT !.kind = "data"]
tss_entry == Descriptor("TSS", 3)
SixEntries == <<NoDescriptor, code, data, [code EXCEPT !.DPL = 3], [data EXCEPT !.DPL = 3],
                tss_entry>>

\* Variant: the register gets the physical address.
SetupGdtPhysical ==
  /\ gdt' = SixEntries
  /\ gdtr' = [base |-> <<Low, Kernel>>, limit |-> 8 * Len(SixEntries) - 1]
  /\ tr' = 43 /\ esp0' = <<Low, 0>>
  /\ UNCHANGED <<cs, ds>>

\* 43 is 0x2B; cs and ds keep what they were loaded with.
SetupGdt ==
  /\ gdt' = SixEntries
  /\ gdtr' = [base |-> <<High, Kernel>>, limit |-> 8 * Len(SixEntries) - 1]
  /\ tr' = 43 /\ esp0' = <<Low, 0>>
  /\ UNCHANGED <<cs, ds>>

\* The kernel has it done with the end of a run of two blocks.
SetKernelStack(address) == esp0' = address /\ UNCHANGED <<gdtr, gdt, cs, ds, tr>>
=============================================================================
