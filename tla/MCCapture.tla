------------------------------ MODULE MCCapture ------------------------------
EXTENDS CaptureStream
=============================================================================
