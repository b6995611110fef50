---------------------- MODULE MCSimpleDownloadManager ----------------------
EXTENDS SimpleDownloadManager, TLC

CONSTANTS grldr, grldr_mbr, menu_lst

MCFiles == {grldr, grldr_mbr, menu_lst}
MCChunks == grldr :> 2 @@ grldr_mbr :> 1 @@ menu_lst :> 1
=============================================================================
