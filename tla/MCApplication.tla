------------------------------ MODULE MCApplication ------------------------------
(* Small instances of parts of the player that share no state, in one run: a   *)
(* part reaches the others only through what its module already takes as an   *)
(* input, so a behaviour follows one of them and the others stand still.       *)
EXTENDS MCLibrary, Browser, SeekBurst, Covers, Enrichment, PlaylistStore, MediaControls,
        HttpSource

VARIABLE part

Parts == {"library", "browser", "seek", "covers", "enrichment", "store", "desktop", "source"}

(* A part that does not run stands still in one of its initial states. *)
AppInit ==
    /\ part \in Parts
    /\ LibraryInit /\ (part = "library" \/ listing = "malformed")
    /\ EnrichInit /\ (part = "enrichment" \/ listed = {})
    /\ StoreInit /\ (part = "store" \/ (set = DefaultSet /\ points = <<>>))
    /\ BrowserInit /\ SeekInit /\ CoverInit /\ DeskInit /\ HttpInit

AppVars == <<part, LibraryVars, BrowserVars, SeekVars, CoverVars, EnrichVars, storeVars,
             DeskVars, httpVars>>

AppNext ==
    \/ /\ part = "library" /\ LibraryNext
       /\ UNCHANGED <<part, BrowserVars, SeekVars, CoverVars, EnrichVars,
                      storeVars, DeskVars, httpVars>>
    \/ /\ part = "browser" /\ BrowserNext
       /\ UNCHANGED <<part, LibraryVars, SeekVars, CoverVars, EnrichVars,
                      storeVars, DeskVars, httpVars>>
    \/ /\ part = "seek" /\ SeekNext
       /\ UNCHANGED <<part, LibraryVars, BrowserVars, CoverVars, EnrichVars,
                      storeVars, DeskVars, httpVars>>
    \/ /\ part = "covers" /\ CoverNext
       /\ UNCHANGED <<part, LibraryVars, BrowserVars, SeekVars, EnrichVars,
                      storeVars, DeskVars, httpVars>>
    \/ /\ part = "enrichment" /\ EnrichNext
       /\ UNCHANGED <<part, LibraryVars, BrowserVars, SeekVars, CoverVars,
                      storeVars, DeskVars, httpVars>>
    \/ /\ part = "store" /\ StoreNext
       /\ UNCHANGED <<part, LibraryVars, BrowserVars, SeekVars, CoverVars,
                      EnrichVars, DeskVars, httpVars>>
    \/ /\ part = "desktop" /\ DeskNext
       /\ UNCHANGED <<part, LibraryVars, BrowserVars, SeekVars, CoverVars,
                      EnrichVars, storeVars, httpVars>>
    \/ /\ part = "source" /\ HttpNext
       /\ UNCHANGED <<part, LibraryVars, BrowserVars, SeekVars, CoverVars,
                      EnrichVars, storeVars, DeskVars>>

AppSpec == AppInit /\ [][AppNext]_AppVars

(* The object grows from one byte to two under the reader. *)
GrowingSizes == <<1, 2>>
=============================================================================
