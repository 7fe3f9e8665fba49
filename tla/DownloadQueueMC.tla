-------------------------- MODULE DownloadQueueMC --------------------------
(* Instances of the download queue for TLC.                                *)
EXTENDS DownloadQueueProps, TLC

CONSTANTS h1, h2, kitchen, yard

\* Two sites: the site is part of the name, so the names differ.
SiteNames == h1 :> {kitchen} @@ h2 :> {yard}

\* Two NVRs that the user has given one name: one of them has a yard, too.
TwinNames == h1 :> {kitchen, yard} @@ h2 :> {kitchen}
=============================================================================
