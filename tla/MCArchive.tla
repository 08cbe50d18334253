----------------------------- MODULE MCArchive -----------------------------
EXTENDS ArchiveImport, ArchiveCases
=============================================================================
