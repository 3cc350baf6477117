-------------------------- MODULE MCFramePipeline --------------------------
\* FramePipeline on small instances.
EXTENDS FramePipeline
=============================================================================
