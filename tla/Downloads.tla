----------------------------- MODULE Downloads ------------------------------
(***************************************************************************)
(* Files with its signed URLs.  HashUtil.generateSignedUrl signs the id of *)
(* the file, its owner and the time of expiry with the server's secret,    *)
(* and nothing is stored: a URL says nothing of the content, and opens     *)
(* whatever is AVAILABLE under that id at the time it is used.             *)
(*                                                                         *)
(* A signature cannot be forged, and any time may pass between two steps:  *)
(* the URLs that open a file are those signed and not expired.             *)
(***************************************************************************)
EXTENDS FilesStore

VARIABLES
    urls,      \* URLs signed and not expired, with what the file's hash was
               \* computed from when they were signed (history)
    opened     \* that content, for the URL each request came with (history)

urlVars == <<urls, opened>>

SignedUrl == [file : FileIds, content : Contents]

DownloadsInit == Init /\ urls = {} /\ opened = [s \in Slots |-> Null]

(* A mistake: the status of the file is not looked at. *)
SignAny ==
    /\ "download" \in Ops
    /\ \E f \in FileIds :
          /\ files[f].status # "absent"
          /\ urls' = urls \cup {[file |-> f, content |-> files[f].hash]}
    /\ UNCHANGED <<vars, opened>>

(* POST /files/:id/signed-url *)
Sign ==
    /\ "download" \in Ops
    /\ \E f \in FileIds :
          /\ files[f].status = "available"
          /\ urls' = urls \cup {[file |-> f, content |-> files[f].hash]}
    /\ UNCHANGED <<vars, opened>>

(* Date.now() > expiry, from some time on. *)
Expire ==
    /\ \E url \in urls : urls' = urls \ {url}
    /\ UNCHANGED <<vars, opened>>

(* GET /files/download/:signedUrl: the signature is verified, and the file *)
(* loaded, in one go; what comes then does not look at the URL again.      *)
Redeem(s) ==
    /\ \E url \in urls :
          /\ DownloadLoad(s)
          /\ proc'[s].file = url.file
          /\ opened' = [opened EXCEPT ![s] = url.content]
    /\ UNCHANGED urls

StepOfFiles ==
    /\ Step
    /\ opened' = [s \in Slots |-> IF At(s, "idle")' THEN Null ELSE opened[s]]
    /\ UNCHANGED urls

DownloadsNext == Sign \/ Expire \/ StepOfFiles \/ \E s \in Slots : Redeem(s)

DownloadsSpec == DownloadsInit /\ [][DownloadsNext]_<<vars, urlVars>> /\ Fairness

-----------------------------------------------------------------------------

(* What a download answers with is what the file's hash was computed from  *)
(* when its URL was signed: the status was checked at the signing, again   *)
(* when the URL was used, and the chunks were read after that, while other *)
(* requests and jobs saved rows of the file that they had loaded before    *)
(* (generateSignedUrl, getFileBySignedUrl, assembleFileFromChunks).        *)
UrlServesWhatWasSigned ==
    \A s \in Slots : At(s, "respond") => proc[s].data = opened[s]

=============================================================================
