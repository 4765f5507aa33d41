------------------------------ MODULE MCDocker ------------------------------
(* One container, with two settings it may have and two versions of its    *)
(* image, restarted in place or by a repull.                               *)
EXTENDS DockerEngine
=============================================================================
