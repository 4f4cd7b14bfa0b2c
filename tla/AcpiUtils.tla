----------------------------- MODULE AcpiUtils ------------------------------
(***************************************************************************)
(* util/AcpiUtils.c.  A table stands for its signature.  Nothing asks      *)
(* GetAcpiTable for the DSDT, which is not in the lists but in the FACP.   *)
(***************************************************************************)
EXTENDS Sequences

Signatures == {"FACP", "APIC", "SSDT"}

\* What the firmware has: list says which list of tables its root pointer leads to, the
\* XSDT of 64-bit addresses, only the RSDT of 32-bit addresses, or none.
AcpiForm == [list : {"xsdt", "rsdt", "none"}, tables : Seq(Signatures)]

NoTable == "NULL"
Garbage == "garbage"

GetAcpiTableStrict(acpi, signature) ==
    IF acpi.list = "none" \/ signature \notin {acpi.tables[i] : i \in DOMAIN acpi.tables} THEN NoTable
    ELSE IF acpi.list = "rsdt" THEN Garbage
    ELSE signature
\* If no table has the signature it is the last one that was looked at.  The addresses
\* of the RSDT are read two at a time, as one.
GetAcpiTable(acpi, signature) ==
    IF acpi.list = "none" \/ acpi.tables = <<>> THEN NoTable
    ELSE IF acpi.list = "rsdt" THEN Garbage
    ELSE IF \E i \in DOMAIN acpi.tables : acpi.tables[i] = signature THEN signature
    ELSE acpi.tables[Len(acpi.tables)]
=============================================================================
