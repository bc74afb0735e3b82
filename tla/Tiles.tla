------------------------------ MODULE Tiles ------------------------------
(***************************************************************************)
(* The wall of phone tiles of one exam sitting (routers/proctor.py): a     *)
(* session with the token that its QR code carries, and the beats of the   *)
(* phones that scanned it.  A token is named by the request that minted    *)
(* it.  A handler takes one step per store call.                           *)
(***************************************************************************)
EXTENDS WorkspaceStore

VARIABLES
  session,   \* park_sessions: the sitting's row, or None
  tiles,     \* park_beats: the tokens with a phone
  handed     \* the tokens that staff were given

wall == <<session, tiles, handed>>

Tiling == {"openwall", "tilebeat", "closewall"}

\* age: scannable (6 hours), expired, to be purged (24 hours).
Ages == {"live", "expired", "old"}
Session == [token : Nat, age : Ages]
ASSUME NoSessionAssumption == None \notin Session
Live == session # None /\ session.age = "live"

TilesInit == session = None /\ tiles = {} /\ handed = {}

\* Time passes.
Grow ==
  /\ session # None
  /\ \/ session.age = "live" /\ session' = [session EXCEPT !.age = "expired"]
     \/ session.age = "expired" /\ session' = [session EXCEPT !.age = "old"]
  /\ UNCHANGED <<tiles, handed, th, lost>>

Drop == session' = None /\ tiles' = tiles \ {session.token}

\* park_purge, with every opening
Purge(t) ==
  /\ At(t, "purge")
  /\ IF session # None /\ session.age = "old" THEN Drop ELSE UNCHANGED <<session, tiles>>
  /\ Go(t, "wall")
  /\ UNCHANGED <<handed, lost>>

\* Mutant: a new token with every opening.
NeverSame == FALSE

SameToken == Live

\* A session that is live is joined: its token is handed out again.
ReadWall(t) ==
  /\ At(t, "wall")
  /\ IF SameToken THEN handed' = handed \cup {session.token} /\ Finish(t)
     ELSE Set(t, [th[t] EXCEPT !.pc = "newtoken", !.fresh = TRUE]) /\ UNCHANGED handed
  /\ UNCHANGED <<session, tiles, lost>>

\* Mutant: the beats under the previous token stay.
KeepsBeats == tiles

\* The beats of the previous token go in the same transaction.
Superseded == IF session = None THEN tiles ELSE tiles \ {session.token}

\* park_open, with the token minted for it
OpenWall(t) ==
  LET token == th[t].n
  IN /\ At(t, "newtoken")
     /\ session' = [token |-> token, age |-> "live"]
     /\ tiles' = Superseded
     /\ handed' = handed \cup {token}
     /\ lost' = IF th[t].fresh THEN lost ELSE lost \cup {"crossed walls"}
     /\ SetOver(t, Idle, {o \in Others(t) : At(o, "newtoken")})

\* A phone beats with the token it scanned: unknown and expired are refused.
ReadToken(t) ==
  /\ At(t, "token")
  /\ IF Live /\ session.token = th[t].ref THEN Go(t, "tile") ELSE Finish(t)
  /\ UNCHANGED <<wall, lost>>

\* park_beat: it asks nothing of the session.
Beat(t) ==
  LET token == th[t].ref
  IN /\ At(t, "tile")
     /\ tiles' = tiles \cup {token}
     /\ lost' = IF session # None /\ session.token = token THEN lost
                ELSE lost \cup {"late beat"}
     /\ Finish(t)
     /\ UNCHANGED <<session, handed>>

OwnedWall(t) ==
  /\ At(t, "owned")
  /\ IF session = None THEN Finish(t) ELSE Go(t, "dropwall")
  /\ UNCHANGED <<wall, lost>>

\* park_delete
CloseWall(t) ==
  /\ At(t, "dropwall")
  /\ IF session # None THEN Drop ELSE UNCHANGED <<session, tiles>>
  /\ Finish(t)
  /\ UNCHANGED <<handed, lost>>

TileStep(t) ==
  \/ Purge(t) \/ ReadWall(t) \/ OpenWall(t)
  \/ ReadToken(t) \/ Beat(t) \/ OwnedWall(t) \/ CloseWall(t)
=============================================================================
