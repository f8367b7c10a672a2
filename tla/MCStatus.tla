------------------------------- MODULE MCStatus -------------------------------
(* Arrays of up to three statuses, with the sizes of MPICH on x86-64: a    *)
(* status of 20 bytes that ends in MPI_ERROR, a clock of 8 bytes.          *)
EXTENDS StatusStorage
================================================================================
