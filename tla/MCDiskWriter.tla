---------------------------- MODULE MCDiskWriter ----------------------------
(* Small jobs for the copy engine: a medium of a few files, every option.  *)
EXTENDS DiskWriter

File(role, large, chunks) == [role |-> role, large |-> large, chunks |-> chunks]

Directory == File("directory", FALSE, 0)
Empty     == File("plain", FALSE, 0)
Setup     == File("plain", FALSE, 2)
TooLarge  == File("plain", TRUE, 2)
EFI       == File("efi", FALSE, 1)

Image(role, large) == File(role, large, 2)

(* With and without a boot loader of its own, an image before and after    *)
(* other files, every kind of image, two images.                           *)
Sources ==
    {<<Directory, EFI, Image(role, large), Setup>> :
        role \in {"wim", "esd"}, large \in BOOLEAN}
    \cup {<<Image(role, large), Empty, TooLarge>> :
        role \in {"wim", "esd"}, large \in BOOLEAN}
    \cup {<<Image("wim", TRUE), Image("wim", FALSE)>>}

MCJobs == [files : Sources, fat32 : BOOLEAN, patch : BOOLEAN,
           legacyBoot : BOOLEAN, elevated : BOOLEAN]

LegacyJob == {[files |-> <<Setup>>, fat32 |-> TRUE, patch |-> FALSE,
               legacyBoot |-> TRUE, elevated |-> TRUE]}

(* Everything can fail. *)
AllFaults == FaultKinds
=============================================================================
