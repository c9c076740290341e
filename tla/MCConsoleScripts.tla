---- MODULE MCConsoleScripts ----
EXTENDS ConsoleScripts

CONSTANTS f1, y1
====
