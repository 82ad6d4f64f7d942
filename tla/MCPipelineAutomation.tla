------------------------ MODULE MCPipelineAutomation ------------------------
\* The constants of the runs are all given by their .cfg files.
EXTENDS PipelineAutomation
=============================================================================
