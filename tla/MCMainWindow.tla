---------------------------- MODULE MCMainWindow ----------------------------
EXTENDS MainWindow
=============================================================================
