------------------------------ MODULE MCJournal ------------------------------
EXTENDS Journal

\* indices 0 .. 11: era file names of one and of two digits
MCMaxEra == 12

MCJournalEras == 1

=============================================================================
