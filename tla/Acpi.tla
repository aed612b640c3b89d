-------------------------------- MODULE Acpi ---------------------------------
(***************************************************************************)
(* The ACPI tables, src/Drivers/ACPI/ACPI.c, and LAI's scan for them       *)
(* through src/Implementations/lai/lai.c.  LAI itself is external: its     *)
(* lai_create_namespace asks for the DSDT, and then for the SSDT and the   *)
(* PSDT with index 0, 1, 2, ... until there is none.                       *)
(*                                                                         *)
(* A table's signature is its first three letters, which is all that       *)
(* GetTable compares; a table is its place in the XSDT, 0 is NULL.         *)
(***************************************************************************)
EXTENDS Integers, Sequences

CONSTANT MaxIndex      \* bound on LAI's index: it stays there

ASSUME AcpiAssumption == MaxIndex \in Nat

VARIABLES tables,      \* the machine's XSDT
          revision,    \* of the RSDP
          dsdt,        \* its FADT points to a DSDT
          merged,      \* the linker made one of the two strings "DSDT"
          xsdt,        \* PrepareACPI has set the pointer
          lai,         \* the signature LAI scans for, or what became of it
          index, asked,   \* the index it asks for next, and its last call
          found        \* what that call returned

acpiVars == <<tables, revision, dsdt, merged, xsdt, lai, index, asked, found>>

NoTable == 0
Dsdt == -1
Wild == -2

AcpiInit ==
    /\ xsdt = FALSE /\ lai = "idle" /\ index = 0 /\ asked = <<>> /\ found = NoTable

Matching(sig) == {k \in 1 .. Len(tables) : tables[k] = sig}

\* GetTable, which does not look at its index.  "DSDT" is compared as a
\* pointer; the FADT that points to the DSDT, or to none, is uninitialised if it
\* is not there.
GetTable(sig) ==
    IF sig = "DSD" /\ merged
      THEN IF Matching("FAC") = {} THEN Wild ELSE IF dsdt THEN Dsdt ELSE NoTable
    ELSE IF Matching(sig) = {} THEN NoTable
    ELSE CHOOSE k \in Matching(sig) : \A h \in Matching(sig) : k <= h

\* Mutant: revision 2 is refused as well.
PrepareACPIAfter2 ==
    /\ lai = "idle"
    /\ IF revision > 2 THEN xsdt' = TRUE /\ lai' = "DSD" ELSE lai' = "done" /\ UNCHANGED xsdt
    /\ UNCHANGED <<tables, revision, dsdt, merged, index, asked, found>>

\* PrepareACPI up to its call of LAI; kpanic of another revision returns.
PrepareACPI ==
    /\ lai = "idle"
    /\ IF revision >= 2 THEN xsdt' = TRUE /\ lai' = "DSD" ELSE lai' = "done" /\ UNCHANGED xsdt
    /\ UNCHANGED <<tables, revision, dsdt, merged, index, asked, found>>

\* Mutant: the loops go round and round.
AfterAgain(sig) == IF sig = "SSD" THEN "PSD" ELSE "SSD"

After(sig) == IF sig = "SSD" THEN "PSD" ELSE "done"

\* laihost_scan of the DSDT: without one laihost_panic returns too, and LAI
\* reads the table at NULL.
ScanDsdt ==
    /\ lai = "DSD"
    /\ found' = GetTable(lai) /\ asked' = <<lai, 0>>
    /\ lai' = IF found' = NoTable THEN "fault" ELSE IF found' = Wild THEN "wild" ELSE "SSD"
    /\ index' = 0
    /\ UNCHANGED <<tables, revision, dsdt, merged, xsdt>>

\* One round of LAI's loop over the SSDTs, or the PSDTs.
Scan ==
    /\ lai \in {"SSD", "PSD"}
    /\ found' = GetTable(lai) /\ asked' = <<lai, index>>
    /\ IF found' = NoTable THEN lai' = After(lai) /\ index' = 0
       ELSE index' = (IF index < MaxIndex THEN index + 1 ELSE index) /\ UNCHANGED lai
    /\ UNCHANGED <<tables, revision, dsdt, merged, xsdt>>

-----------------------------------------------------------------------------
\* The table that a caller of laihost_scan is promised.
Nth(sig, n) ==
    LET places == SelectSeq([k \in 1 .. Len(tables) |-> k], LAMBDA k : tables[k] = sig)
    IN IF n < Len(places) THEN places[n + 1] ELSE NoTable

\* "Returns the (virtual) address of the n-th table that has the given
\* signature, or NULL when no such table was found" (lai.c:69).
ScanFindsNth ==
    asked # <<>> /\ asked[1] # "DSD" => found = Nth(asked[1], asked[2])
=============================================================================
