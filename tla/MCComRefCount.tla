--------------------------- MODULE MCComRefCount ---------------------------
(* Two threads; a DataTarget (m_ref 0), a FileDataTarget (m_ref 1 and a   *)
(* file handle) and a Host.  CorDebugDataTarget counts like            *)
(* FileDataTarget without the file; objects do not interact, so one of  *)
(* each kind of constructor suffices.                                      *)
EXTENDS ComRefCount, TLC

CONSTANTS t1, t2, dt, fdt, host

MC_Threads == {t1, t2}
MC_Objects == {dt, fdt, host}
MC_ClassOf ==
    (dt :> "DataTarget") @@ (fdt :> "FileDataTarget") @@ (host :> "Host")

(* One interface every class accepts, one of each adapter family and the  *)
(* host's, so that every class refuses some request.                       *)
MC_IIDs == {"IUnknown", "ICLRDataTarget", "ICorDebugDataTarget", "IHost"}

=============================================================================
