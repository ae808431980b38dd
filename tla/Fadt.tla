-------------------------------- MODULE Fadt --------------------------------
(***************************************************************************)
(* The accessors of the FADT (acpi/src/fadt.rs) for the register blocks,    *)
(* the generic addresses they return (address.rs), and the PM timer of      *)
(* platform/mod.rs.                                                         *)
(*                                                                          *)
(* A register block has a 32-bit address and, from revision 2 on, a generic *)
(* address too.  Address spaces and access sizes are the numbers in the     *)
(* table: the enumerations of address.rs name each valid one once.          *)
(***************************************************************************)
EXTENDS Integers

Blocks ==
    {"pm1a_event", "pm1b_event", "pm1a_control", "pm1b_control", "pm2_control", "pm_timer", "gpe0", "gpe1"}

\* These blocks are not optional: there is an answer without an address, too.
Mandatory == {"pm1a_event", "pm1a_control"}

\* The field with the length of a block, in bytes.
LengthOfBlock(fadt, block) ==
    CASE block \in {"pm1a_event", "pm1b_event"} -> fadt.length.pm1_event
      [] block \in {"pm1a_control", "pm1b_control"} -> fadt.length.pm1_control
      [] block = "pm2_control" -> fadt.length.pm2_control
      [] block = "pm_timer" -> fadt.length.pm_timer
      [] block = "gpe0" -> fadt.length.gpe0
      [] block = "gpe1" -> fadt.length.gpe1

NoBlock == [is |-> "None"]
InvalidGenericAddress == [is |-> "Err"]
Panic == [is |-> "panic"]
Address(space, bit_width, access_size, address) ==
    [is |-> "Some", space |-> space, bit_width |-> bit_width, access_size |-> access_size, address |-> address]

\* GenericAddress::from_raw.
from_raw(raw) ==
    IF raw.space \in (11..126 \cup 128..191) \/ raw.access_size > 4 THEN InvalidGenericAddress
    ELSE Address(raw.space, raw.bit_width, raw.access_size, raw.address)

\* ExtendedField::access, of a field that is there from revision 2 on.
Extended(fadt) == fadt.revision >= 2

SystemIo == 1

\* The length in bits has to fit a u8; that of the timer is a constant.
SystemIoBlock(fadt, block) ==
    LET bit_width == IF block = "pm_timer" THEN 32 ELSE LengthOfBlock(fadt, block) * 8
    IN  IF bit_width > 255 THEN Panic ELSE Address(SystemIo, bit_width, 0, fadt.address[block])

\* The 32-bit address comes first.
RegisterBlock_LegacyFirst(fadt, block) ==
    IF block = "pm_timer" /\ fadt.length.pm_timer # 4 THEN NoBlock
    ELSE IF fadt.address[block] # 0 THEN SystemIoBlock(fadt, block)
    ELSE IF Extended(fadt) /\ fadt.x[block].address # 0 THEN from_raw(fadt.x[block])
    ELSE IF block \in Mandatory THEN SystemIoBlock(fadt, block)
    ELSE NoBlock

\* pm1a_event_block .. gpe1_block.
RegisterBlock(fadt, block) ==
    IF block = "pm_timer" /\ fadt.length.pm_timer # 4 THEN NoBlock
    ELSE IF Extended(fadt) /\ fadt.x[block].address # 0 THEN from_raw(fadt.x[block])
    ELSE IF fadt.address[block] # 0 \/ block \in Mandatory THEN SystemIoBlock(fadt, block)
    ELSE NoBlock

\* PmTimer::new, apart from the flag for its width.
PmTimer(fadt) == RegisterBlock(fadt, "pm_timer")
=============================================================================
