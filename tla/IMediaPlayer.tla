---------------------------- MODULE IMediaPlayer ----------------------------
(***************************************************************************)
(* The IMediaPlayer remote interface of src/base/media/libmedia/           *)
(* IMediaPlayer.cpp: its contract (descriptor and transaction codes), the  *)
(* proxy BpMediaPlayer (what each method writes into the request and reads *)
(* back from the reply) and the dispatcher BnMediaPlayer::onTransact.      *)
(*                                                                         *)
(* Data abstraction: an argument is the token of its position (no code     *)
(* here branches on an argument's value), or an object handle; a result of *)
(* the implementation is a field of the record impl.                       *)
(***************************************************************************)
EXTENDS Binder

\* IMPLEMENT_META_INTERFACE(MediaPlayer, ...)
MediaPlayerDescriptor == "android.media.IMediaPlayer"

\* The transaction enum: codes from FIRST_CALL_TRANSACTION in this order.
MediaPlayerTransactions ==
  << "DISCONNECT", "SET_VIDEO_SURFACE", "PREPARE_ASYNC", "START", "STOP",
     "IS_PLAYING", "PAUSE", "SEEK_TO", "GET_CURRENT_POSITION", "GET_DURATION",
     "RESET", "SET_AUDIO_STREAM_TYPE", "SET_LOOPING", "SET_VOLUME", "INVOKE",
     "SET_METADATA_FILTER", "GET_METADATA", "SUSPEND", "RESUME",
     "SET_AUX_EFFECT_SEND_LEVEL", "ATTACH_AUX_EFFECT", "SET_AUDIO_EFFECT",
     "SET_AUDIO_EQUALIZER", "CAPTURE_CURRENT_FRAME", "SET_VIDEO_CROP",
     "GET_TRACK_COUNT", "GET_TRACK_NAME", "GET_DEFAULT_TRACK", "SELECT_TRACK" >>

MediaPlayerMethods == ToSet(MediaPlayerTransactions)

MediaPlayerCode(m) ==
  FIRST_CALL_TRANSACTION - 1 +
    (CHOOSE j \in 1..Len(MediaPlayerTransactions) : MediaPlayerTransactions[j] = m)

MediaPlayerCodes == {MediaPlayerCode(m) : m \in MediaPlayerMethods}

MediaPlayerMethodOf(code) ==
  MediaPlayerTransactions[code - FIRST_CALL_TRANSACTION + 1]

(***************************************************************************)
(* BpMediaPlayer.  The argument kinds each method writes after its         *)
(* descriptor: "i" int32, "f" float, "b" strong binder.  INVOKE and        *)
(* SET_METADATA_FILTER send a Parcel their caller built ("p").             *)
(***************************************************************************)
BpMediaPlayerArgs ==
  [DISCONNECT |-> <<>>, SET_VIDEO_SURFACE |-> <<"b">>, PREPARE_ASYNC |-> <<>>,
   START |-> <<>>, STOP |-> <<>>, IS_PLAYING |-> <<>>, PAUSE |-> <<>>,
   SEEK_TO |-> <<"i">>, GET_CURRENT_POSITION |-> <<>>,
   SET_AUDIO_EFFECT |-> <<"i", "i", "i">>, SET_AUDIO_EQUALIZER |-> <<"i">>,
   CAPTURE_CURRENT_FRAME |-> <<>>, SET_VIDEO_CROP |-> <<"i", "i", "i", "i">>,
   GET_TRACK_COUNT |-> <<>>, GET_DEFAULT_TRACK |-> <<>>,
   GET_TRACK_NAME |-> <<"i">>, SELECT_TRACK |-> <<"i">>, GET_DURATION |-> <<>>,
   RESET |-> <<>>, SET_AUDIO_STREAM_TYPE |-> <<"i">>, SET_LOOPING |-> <<"i">>,
   SET_VOLUME |-> <<"f", "f">>, INVOKE |-> <<"p">>,
   SET_METADATA_FILTER |-> <<"p">>, GET_METADATA |-> <<"i", "i">>,
   SUSPEND |-> <<>>, RESUME |-> <<>>, SET_AUX_EFFECT_SEND_LEVEL |-> <<"f">>,
   ATTACH_AUX_EFFECT |-> <<"i">>]

\* The request of a call.  A caller-built Parcel carries the descriptor only
\* if its builder wrote it (withToken): the proxy does not.
BpMediaPlayerRequest(m, args, withToken) ==
  IF m \in {"INVOKE", "SET_METADATA_FILTER"}
    THEN (IF withToken THEN <<MediaPlayerDescriptor>> ELSE <<>>) \o args
    ELSE WriteAll(NewParcel, <<MediaPlayerDescriptor>> \o args).data

\* The reply fields each method reads, in order.
BpMediaPlayerReads ==
  [DISCONNECT |-> <<>>, SET_VIDEO_SURFACE |-> <<"ret">>,
   PREPARE_ASYNC |-> <<"ret">>, START |-> <<"ret">>, STOP |-> <<"ret">>,
   IS_PLAYING |-> <<"out1", "ret">>, PAUSE |-> <<"ret">>, SEEK_TO |-> <<"ret">>,
   GET_CURRENT_POSITION |-> <<"out1", "ret">>, SET_AUDIO_EFFECT |-> <<"ret">>,
   SET_AUDIO_EQUALIZER |-> <<"ret">>, SET_VIDEO_CROP |-> <<"ret">>,
   GET_TRACK_COUNT |-> <<"out1", "ret">>, GET_DEFAULT_TRACK |-> <<"out1", "ret">>,
   GET_TRACK_NAME |-> <<"str">>, SELECT_TRACK |-> <<"ret">>,
   GET_DURATION |-> <<"out1", "ret">>, RESET |-> <<"ret">>,
   SET_AUDIO_STREAM_TYPE |-> <<"ret">>, SET_LOOPING |-> <<"ret">>,
   SET_VOLUME |-> <<"ret">>, SET_METADATA_FILTER |-> <<"ret">>,
   SUSPEND |-> <<"ret">>, RESUME |-> <<"ret">>,
   SET_AUX_EFFECT_SEND_LEVEL |-> <<"ret">>, ATTACH_AUX_EFFECT |-> <<"ret">>]

\* captureCurrentFrame: the status first, the memory only on NO_ERROR.
BpCaptureCurrentFrame(d) ==
  [obj |-> IF ReadField(d, 1) # NO_ERROR THEN NULL ELSE ReadField(d, 2)]

\* invoke: returns the status of transact itself; the caller reads its reply.
BpInvoke(err, d) == [status |-> err, payload |-> d]

\* getMetadata: returns the first field; the caller reads the rest.
BpGetMetadata(d) ==
  [ret |-> ReadField(d, 1), payload |-> SubSeq(d, 2, Len(d))]

\* getTrackName returns readCString's pointer into its local reply Parcel,
\* not a copy; a NULL read (an empty reply) points nowhere.
BpMediaPlayerBorrowsReply(m, d) == m = "GET_TRACK_NAME" /\ ReadField(d, 1) # UNDERFLOW

\* What a BpMediaPlayer method returns to its caller, given the status of
\* transact (err) and the reply data (d).
BpMediaPlayerResult(m, err, d) ==
  CASE m = "CAPTURE_CURRENT_FRAME" -> BpCaptureCurrentFrame(d)
    [] m = "INVOKE"                -> BpInvoke(err, d)
    [] m = "GET_METADATA"          -> BpGetMetadata(d)
    [] OTHER                       -> ReadReply(BpMediaPlayerReads[m], d)

(***************************************************************************)
(* BnMediaPlayer::onTransact.                                              *)
(***************************************************************************)
\* The number of arguments each case decodes after CHECK_INTERFACE.
BnMediaPlayerArgc ==
  [DISCONNECT |-> 0, SET_VIDEO_SURFACE |-> 1, PREPARE_ASYNC |-> 0, START |-> 0,
   STOP |-> 0, IS_PLAYING |-> 0, PAUSE |-> 0, SEEK_TO |-> 1,
   GET_CURRENT_POSITION |-> 0, GET_DURATION |-> 0, RESET |-> 0,
   SET_AUDIO_STREAM_TYPE |-> 1, SET_LOOPING |-> 1, SET_VOLUME |-> 2,
   SET_METADATA_FILTER |-> 1, SUSPEND |-> 0, RESUME |-> 0, GET_METADATA |-> 2,
   SET_AUX_EFFECT_SEND_LEVEL |-> 1, ATTACH_AUX_EFFECT |-> 1,
   SET_AUDIO_EFFECT |-> 3, SET_AUDIO_EQUALIZER |-> 1,
   CAPTURE_CURRENT_FRAME |-> 0, SET_VIDEO_CROP |-> 4, GET_TRACK_COUNT |-> 0,
   GET_DEFAULT_TRACK |-> 0, GET_TRACK_NAME |-> 1, SELECT_TRACK |-> 1,
   INVOKE |-> 1]

\* The cases whose reads are the arguments of a single call expression.
BnMediaPlayerCallArgDecode ==
  {"SEEK_TO", "SET_AUDIO_STREAM_TYPE", "SET_LOOPING", "SET_VOLUME",
   "GET_METADATA", "SET_AUX_EFFECT_SEND_LEVEL", "ATTACH_AUX_EFFECT",
   "SET_AUDIO_EFFECT", "SET_AUDIO_EQUALIZER", "SET_VIDEO_CROP",
   "GET_TRACK_NAME", "SELECT_TRACK"}

\* The reply fields each case writes, in order.
BnMediaPlayerReply ==
  [DISCONNECT |-> <<>>, SET_VIDEO_SURFACE |-> <<"ret">>,
   PREPARE_ASYNC |-> <<"ret">>, START |-> <<"ret">>, STOP |-> <<"ret">>,
   IS_PLAYING |-> <<"out1", "ret">>, PAUSE |-> <<"ret">>, SEEK_TO |-> <<"ret">>,
   GET_CURRENT_POSITION |-> <<"out1", "ret">>, GET_DURATION |-> <<"out1", "ret">>,
   RESET |-> <<"ret">>, SET_AUDIO_STREAM_TYPE |-> <<"ret">>,
   SET_LOOPING |-> <<"ret">>, SET_VOLUME |-> <<"ret">>,
   SET_METADATA_FILTER |-> <<"ret">>, SUSPEND |-> <<"ret">>,
   RESUME |-> <<"ret">>, SET_AUX_EFFECT_SEND_LEVEL |-> <<"ret">>,
   ATTACH_AUX_EFFECT |-> <<"ret">>, SET_AUDIO_EFFECT |-> <<"ret">>,
   SET_AUDIO_EQUALIZER |-> <<"ret">>, SET_VIDEO_CROP |-> <<"ret">>,
   GET_TRACK_COUNT |-> <<"out1", "ret">>, GET_DEFAULT_TRACK |-> <<"out1", "ret">>,
   GET_TRACK_NAME |-> <<"str">>, SELECT_TRACK |-> <<"ret">>]

\* CAPTURE_CURRENT_FRAME: never sends a NULL binder; a status says which.
BnCaptureCurrentFrame(impl) ==
  IF impl.obj # NULL THEN <<NO_ERROR, impl.obj>> ELSE <<UNKNOWN_ERROR>>

\* GET_METADATA: after getMetadata wrote into the reply (impl.written), the
\* status is written at position 0 and the position is reset to 0.
BnGetMetadata(impl) ==
  LET written == [data |-> impl.written, pos |-> Len(impl.written)]
  IN  SetDataPosition(Write(SetDataPosition(written, 0), impl.ret), 0).data

\* GET_TRACK_NAME hands getTrackName's result to writeCString without a
\* NULL check: Parcel::writeCString takes strlen of it, and for NULL the
\* server process dies on the fault.
BnMediaPlayerWritesNull(code, impl) ==
  code = MediaPlayerCode("GET_TRACK_NAME") /\ impl.str = NULL

\* The whole of onTransact: the result says whether the method ran, with
\* which decoded arguments, the status onTransact returns and the reply.
BnMediaPlayerOnTransact(code, data, impl, order) ==
  LET m    == MediaPlayerMethodOf(code)
      args == IF m \in {"INVOKE", "SET_METADATA_FILTER"}
                THEN SubSeq(data, 2, Len(data))
                ELSE DecodeArgs(data, BnMediaPlayerArgc[m],
                                IF m \in BnMediaPlayerCallArgDecode
                                  THEN order ELSE "ltr")
      ran(err, reply) ==
        [ran |-> TRUE, m |-> m, args |-> args, err |-> err, reply |-> reply]
      rejected(err) ==
        [ran |-> FALSE, m |-> "", args |-> <<>>, err |-> err, reply |-> <<>>]
  IN  CASE code \notin MediaPlayerCodes -> rejected(BBinderOnTransact)
        [] ~CheckInterface(data, MediaPlayerDescriptor) -> rejected(BAD_INTERFACE)
        [] m = "CAPTURE_CURRENT_FRAME" -> ran(NO_ERROR, BnCaptureCurrentFrame(impl))
        [] m = "GET_METADATA"  -> ran(NO_ERROR, BnGetMetadata(impl))
        [] m = "INVOKE"        -> ran(NO_ERROR, impl.payload)
        \* the case ends in "break", not "return": BBinder::onTransact follows
        [] m = "ATTACH_AUX_EFFECT" ->
             ran(BBinderOnTransact, ReplyFields(BnMediaPlayerReply[m], impl))
        [] OTHER -> ran(NO_ERROR, ReplyFields(BnMediaPlayerReply[m], impl))

=============================================================================
