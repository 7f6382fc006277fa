----------------------------- MODULE MCQrLogin -----------------------------
(***************************************************************************)
(* One person who uses the bot and one who uses Google.                    *)
(***************************************************************************)
EXTENDS QrLogin, TLC

CONSTANTS b1, g1

MCVia == b1 :> "bot" @@ g1 :> "google"
=============================================================================
